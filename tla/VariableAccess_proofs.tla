----------------------- MODULE VariableAccess_proofs -----------------------
(***************************************************************************)
(* Proofs about VariableAccess, for every set of names, types, properties  *)
(* and chains, and any number of definitions between the two walks: IInv   *)
(* (module AccessInvariant) holds initially and is preserved by each step. *)
(* What is defined only adds to the table; so the path of a checked access *)
(* stays a path, and the second walk has one entry to follow, the same.    *)
(***************************************************************************)
EXTENDS AccessInvariant, SequenceTheorems, FiniteSetTheorems, TLAPS

-----------------------------------------------------------------------------
(* The table.                                                               *)

\* Indices of the sequences.
LEMMA TableFacts ==
  ASSUME SymbolsOK
  PROVE  /\ Len(made) \in Nat /\ DOMAIN made = 1 .. Len(made)
         /\ Len(symbols) \in Nat /\ DOMAIN symbols = 1 .. Len(symbols)
         /\ \A n \in DOMAIN made : made[n] \in Nodes
         /\ \A i \in DOMAIN symbols : symbols[i] \in Symbols
<1>1. Len(made) \in Nat /\ DOMAIN made = 1 .. Len(made)
  BY LenProperties DEF SymbolsOK
<1>2. Len(symbols) \in Nat /\ DOMAIN symbols = 1 .. Len(symbols)
  BY LenProperties DEF SymbolsOK
<1>3. \A n \in DOMAIN made : made[n] \in Nodes
  BY <1>1, ElementOfSeq DEF SymbolsOK
<1>4. \A i \in DOMAIN symbols : symbols[i] \in Symbols
  BY <1>2, ElementOfSeq DEF SymbolsOK
<1> QED
  BY <1>1, <1>2, <1>3, <1>4

\* The overloads of a symbol, and the properties of a node.
LEMMA ListFacts ==
  ASSUME SymbolsOK
  PROVE  /\ \A i \in DOMAIN symbols :
              /\ symbols[i].nodes \in Seq(Nat)
              /\ Len(symbols[i].nodes) \in Nat \ {0}
              /\ DOMAIN symbols[i].nodes = 1 .. Len(symbols[i].nodes)
         /\ \A n \in DOMAIN made :
              /\ PropertiesOf(n) \in Seq(Properties)
              /\ Len(PropertiesOf(n)) \in Nat
              /\ DOMAIN PropertiesOf(n) = 1 .. Len(PropertiesOf(n))
              /\ \A o \in DOMAIN PropertiesOf(n) : PropertiesOf(n)[o] \in Properties
<1>1. ASSUME NEW i \in DOMAIN symbols
      PROVE  /\ symbols[i].nodes \in Seq(Nat)
             /\ Len(symbols[i].nodes) \in Nat \ {0}
             /\ DOMAIN symbols[i].nodes = 1 .. Len(symbols[i].nodes)
  <2>1. symbols[i].nodes \in Seq(Nat) /\ symbols[i].nodes # << >>
    BY TableFacts DEF Symbols, SymbolsOK
  <2> QED
    BY <2>1, EmptySeq, LenProperties
<1>2. ASSUME NEW n \in DOMAIN made
      PROVE  /\ PropertiesOf(n) \in Seq(Properties)
             /\ Len(PropertiesOf(n)) \in Nat
             /\ DOMAIN PropertiesOf(n) = 1 .. Len(PropertiesOf(n))
             /\ \A o \in DOMAIN PropertiesOf(n) : PropertiesOf(n)[o] \in Properties
  <2>1. PropertiesOf(n) \in Seq(Properties)
    BY TableFacts DEF Nodes, PropertiesOf
  <2> QED
    BY <2>1, LenProperties, ElementOfSeq
<1> QED
  BY <1>1, <1>2

\* A name that is defined is found.
LEMMA FindFacts ==
  ASSUME SymbolsOK, NEW name, IsDefined(name)
  PROVE  /\ Find(name) \in DOMAIN symbols /\ symbols[Find(name)].name = name
         /\ \A i \in DOMAIN symbols : symbols[i].name = name => i = Find(name)
<1>1. PICK i \in DOMAIN symbols : symbols[i].name = name
  BY DEF IsDefined
<1>2. Find(name) \in DOMAIN symbols /\ symbols[Find(name)].name = name
  BY <1>1 DEF Find
<1> QED
  BY <1>2 DEF SymbolsOK

\* What is there stays: nodes with their properties, symbols with their first node, and
\* the datatype of a type.
Grown ==
  /\ \A n \in DOMAIN made :
       /\ n \in DOMAIN made'
       /\ made'[n].kind = made[n].kind /\ made'[n].type = made[n].type
       /\ \A o \in DOMAIN PropertiesOf(n) :
            /\ o \in DOMAIN PropertiesOf(n)'
            /\ PropertiesOf(n)'[o] = PropertiesOf(n)[o]
  /\ \A i \in DOMAIN symbols :
       /\ i \in DOMAIN symbols'
       /\ symbols'[i].name = symbols[i].name /\ symbols'[i].kind = symbols[i].kind
       /\ symbols'[i].nodes[1] = symbols[i].nodes[1]
  /\ \A t \in DOMAIN datatypes :
       t \in DOMAIN datatypes' /\ datatypes'[t] = datatypes[t]

-----------------------------------------------------------------------------
(* Definitions.                                                             *)

\* A node more.
LEMMA NewNodeFacts ==
  ASSUME SymbolsOK, PropertiesOK, NEW kind \in Kinds, NEW t \in Types,
         made' = Append(made, Node(kind, t))
  PROVE  /\ made' \in Seq(Nodes) /\ PropertiesOK'
         /\ NewNode \notin DOMAIN made /\ DOMAIN made' = DOMAIN made \union {NewNode}
         /\ \A n \in DOMAIN made : made'[n] = made[n]
         /\ made'[NewNode] = Node(kind, t) /\ NewNode \in Nat
<1>1. Node(kind, t) \in Nodes /\ Node(kind, t).properties = << >>
  BY EmptySeq DEF Nodes, Node
<1>2. /\ made' \in Seq(Nodes) /\ Len(made') = Len(made) + 1
      /\ \A n \in 1 .. Len(made) : made'[n] = made[n]
      /\ made'[Len(made) + 1] = Node(kind, t)
  BY <1>1, AppendProperties DEF SymbolsOK
<1>3. DOMAIN made' = 1 .. Len(made) + 1
  BY <1>2, LenProperties
<1>4. /\ NewNode \notin DOMAIN made /\ DOMAIN made' = DOMAIN made \union {NewNode}
      /\ NewNode \in Nat
  BY <1>3, TableFacts DEF NewNode
<1>5. \A n \in DOMAIN made : made'[n] = made[n]
  BY <1>2, TableFacts
<1>6. PropertiesOK'
  <2> SUFFICES ASSUME NEW n \in DOMAIN made'
               PROVE  /\ Len(made'[n].properties) <= MaxProperties
                      /\ \A o, p \in DOMAIN made'[n].properties :
                           made'[n].properties[o].name = made'[n].properties[p].name => o = p
    BY DEF PropertiesOK, PropertiesOf
  <2>1. CASE n \in DOMAIN made
    BY <2>1, <1>5 DEF PropertiesOK, PropertiesOf
  <2>2. CASE n = NewNode
    BY <2>2, <1>1, <1>2, PropertiesAssumption DEF NewNode
  <2> QED
    BY <2>1, <2>2, <1>4
<1> QED
  BY <1>2, <1>4, <1>5, <1>6 DEF NewNode

\* A symbol more.
LEMMA NewSymbolFacts ==
  ASSUME SymbolsOK, NEW name \in Names, NEW kind \in Kinds, NEW node \in Nat,
         symbols' = Append(symbols, Symbol(name, kind, <<node>>))
  PROVE  /\ symbols' \in Seq(Symbols)
         /\ DOMAIN symbols' = DOMAIN symbols \union {Len(symbols) + 1}
         /\ Len(symbols) + 1 \notin DOMAIN symbols
         /\ \A i \in DOMAIN symbols : symbols'[i] = symbols[i]
         /\ symbols'[Len(symbols) + 1] = Symbol(name, kind, <<node>>)
         /\ Symbol(name, kind, <<node>>).name = name
         /\ Symbol(name, kind, <<node>>).kind = kind
         /\ Symbol(name, kind, <<node>>).nodes = <<node>>
         /\ DOMAIN <<node>> = {1} /\ <<node>>[1] = node /\ <<node>> # << >>
<1>1. <<node>> \in Seq(Nat) /\ DOMAIN <<node>> = {1} /\ <<node>>[1] = node /\ <<node>> # << >>
  OBVIOUS
<1>2. Symbol(name, kind, <<node>>) \in Symbols
  BY <1>1 DEF Symbol, Symbols
<1>3. /\ symbols' \in Seq(Symbols) /\ Len(symbols') = Len(symbols) + 1
      /\ \A i \in 1 .. Len(symbols) : symbols'[i] = symbols[i]
      /\ symbols'[Len(symbols) + 1] = Symbol(name, kind, <<node>>)
  BY <1>2, AppendProperties DEF SymbolsOK
<1>4. DOMAIN symbols' = 1 .. Len(symbols) + 1
  BY <1>3, LenProperties
<1>5. /\ DOMAIN symbols' = DOMAIN symbols \union {Len(symbols) + 1}
      /\ Len(symbols) + 1 \notin DOMAIN symbols
  BY <1>4, TableFacts
<1> QED
  BY <1>1, <1>3, <1>5, TableFacts DEF Symbol

\* A new symbol with the new node, which may be registered by its type.
LEMMA AppendSymbol ==
  ASSUME SymbolsOK, PropertiesOK, NodesOwnedOnce,
         NEW name \in Names, ~ IsDefined(name), NEW kind \in Kinds, NEW t \in Types,
         kind = "function" => t \in FunctionTypes,
         made' = Append(made, Node(kind, t)),
         symbols' = Append(symbols, Symbol(name, kind, <<NewNode>>)),
         Register(kind, t, NewNode), freed' = freed
  PROVE  SymbolsOK' /\ PropertiesOK' /\ NodesOwnedOnce' /\ Grown
<1> DEFINE last == Len(symbols) + 1
<1>1. /\ made' \in Seq(Nodes) /\ PropertiesOK'
      /\ NewNode \notin DOMAIN made /\ DOMAIN made' = DOMAIN made \union {NewNode}
      /\ \A n \in DOMAIN made : made'[n] = made[n]
      /\ made'[NewNode] = Node(kind, t) /\ NewNode \in Nat
  BY NewNodeFacts
<1>2. /\ symbols' \in Seq(Symbols)
      /\ DOMAIN symbols' = DOMAIN symbols \union {last}
      /\ last \notin DOMAIN symbols
      /\ \A i \in DOMAIN symbols : symbols'[i] = symbols[i]
      /\ symbols'[last].name = name /\ symbols'[last].kind = kind
      /\ symbols'[last].nodes = <<NewNode>>
      /\ DOMAIN <<NewNode>> = {1} /\ <<NewNode>>[1] = NewNode /\ <<NewNode>> # << >>
  BY <1>1, NewSymbolFacts
<1>3. /\ Node(kind, t).kind = kind /\ Node(kind, t).type = t
      /\ 1 \in DOMAIN symbols'[last].nodes /\ symbols'[last].nodes[1] = NewNode
      /\ \A k \in DOMAIN symbols'[last].nodes : symbols'[last].nodes[k] = NewNode
  <2> HIDE DEF last, NewNode
  <2> QED
    BY <1>2 DEF Node
<1> HIDE DEF last
<1>4. /\ \A u \in DOMAIN datatypes : u \in DOMAIN datatypes' /\ datatypes'[u] = datatypes[u]
      /\ \A u \in DOMAIN datatypes' :
           \/ u \in DOMAIN datatypes
           \/ kind = "datatype" /\ u = t /\ datatypes'[u] = NewNode
      /\ datatypes' = [u \in DOMAIN datatypes' |-> datatypes'[u]]
  <2>1. CASE kind # "datatype" \/ t \in DOMAIN datatypes
    BY <2>1 DEF Register, SymbolsOK
  <2>2. CASE kind = "datatype" /\ t \notin DOMAIN datatypes
    BY <2>2 DEF Register
  <2> QED
    BY <2>1, <2>2
<1>5. \A i \in DOMAIN symbols : \A k \in DOMAIN symbols[i].nodes :
        symbols[i].nodes[k] \in DOMAIN made
  BY DEF NodesOwnedOnce
<1>6. SymbolsOK'
  <2>1. freed' \subseteq DOMAIN made'
    BY <1>1 DEF SymbolsOK
  <2>2. ASSUME NEW i \in DOMAIN symbols'
        PROVE  /\ symbols'[i].nodes # << >>
               /\ \A k \in DOMAIN symbols'[i].nodes :
                    made'[symbols'[i].nodes[k]].kind = symbols'[i].kind
               /\ symbols'[i].kind = "function" =>
                    \A k \in DOMAIN symbols'[i].nodes :
                      made'[symbols'[i].nodes[k]].type \in FunctionTypes
    <3>1. CASE i \in DOMAIN symbols
      BY <3>1, <1>1, <1>2, <1>5 DEF SymbolsOK
    <3>2. CASE i = last
      BY <3>2, <1>1, <1>2, <1>3
    <3> QED
      BY <3>1, <3>2, <1>2
  <2>3. \A i, j \in DOMAIN symbols' : symbols'[i].name = symbols'[j].name => i = j
    BY <1>2 DEF SymbolsOK, IsDefined
  <2>4. datatypes' \in [DOMAIN datatypes' -> DOMAIN made'] /\ DOMAIN datatypes' \subseteq Types
    BY <1>1, <1>4 DEF SymbolsOK
  <2> QED
    BY <1>1, <1>2, <2>1, <2>2, <2>3, <2>4 DEF SymbolsOK
<1>7. NodesOwnedOnce'
  <2>1. ASSUME NEW i \in DOMAIN symbols', NEW k \in DOMAIN symbols'[i].nodes
        PROVE  /\ symbols'[i].nodes[k] \in DOMAIN made' \ freed'
               /\ \A j \in DOMAIN symbols' : \A l \in DOMAIN symbols'[j].nodes :
                    symbols'[j].nodes[l] = symbols'[i].nodes[k] => j = i /\ l = k
    <3>1. NewNode \notin freed
      BY <1>1 DEF SymbolsOK
    <3>2. CASE i \in DOMAIN symbols
      BY SMTT(30), <3>2, <1>1, <1>2, <1>5 DEF NodesOwnedOnce
    <3>3. CASE i = last
      BY <3>1, <3>3, <1>1, <1>2, <1>5
    <3> QED
      BY <3>2, <3>3, <1>2
  <2>2. ASSUME NEW n \in DOMAIN made' \ freed'
        PROVE  \E i \in DOMAIN symbols' : \E k \in DOMAIN symbols'[i].nodes :
                 symbols'[i].nodes[k] = n
    <3>1. CASE n \in DOMAIN made
      BY <3>1, <1>2 DEF NodesOwnedOnce
    <3>2. CASE n = NewNode
      BY <3>2, <1>2, <1>3
    <3> QED
      BY <3>1, <3>2, <1>1
  <2>3. ASSUME NEW u \in DOMAIN datatypes'
        PROVE  /\ datatypes'[u] \in DOMAIN made' \ freed'
               /\ made'[datatypes'[u]].kind = "datatype" /\ made'[datatypes'[u]].type = u
    <3>1. CASE u \in DOMAIN datatypes
      BY <3>1, <1>1, <1>4 DEF NodesOwnedOnce
    <3>2. CASE kind = "datatype" /\ u = t /\ datatypes'[u] = NewNode
      BY <3>2, <1>1, <1>3 DEF SymbolsOK
    <3> QED
      BY <3>1, <3>2, <1>4
  <2> QED
    BY <2>1, <2>2, <2>3 DEF NodesOwnedOnce
<1>8. Grown
  BY <1>1, <1>2, <1>4 DEF Grown, PropertiesOf
<1> QED
  BY <1>1, <1>6, <1>7, <1>8

\* A node whose name was taken.
LEMMA AddTaken ==
  ASSUME SymbolsOK, PropertiesOK, NodesOwnedOnce, NEW kind \in Kinds, NEW t \in Types,
         made' = Append(made, Node(kind, t)), freed' = freed \union {NewNode},
         symbols' = symbols, datatypes' = datatypes
  PROVE  SymbolsOK' /\ PropertiesOK' /\ NodesOwnedOnce' /\ Grown
<1>1. /\ made' \in Seq(Nodes) /\ PropertiesOK'
      /\ NewNode \notin DOMAIN made /\ DOMAIN made' = DOMAIN made \union {NewNode}
      /\ \A n \in DOMAIN made : made'[n] = made[n]
  BY NewNodeFacts
<1>2. \A i \in DOMAIN symbols : \A k \in DOMAIN symbols[i].nodes :
        symbols[i].nodes[k] \in DOMAIN made
  BY DEF NodesOwnedOnce
<1>3. SymbolsOK'
  BY <1>1, <1>2 DEF SymbolsOK, Symbols
<1>4. NodesOwnedOnce'
  BY <1>1, <1>2 DEF NodesOwnedOnce
<1>5. Grown
  BY <1>1 DEF Grown, PropertiesOf
<1> QED
  BY <1>1, <1>3, <1>4, <1>5

\* An overload more.
LEMMA AddOverload ==
  ASSUME SymbolsOK, PropertiesOK, NodesOwnedOnce,
         NEW f \in DOMAIN symbols, symbols[f].kind = "function", NEW t \in FunctionTypes,
         made' = Append(made, Node("function", t)),
         symbols' = [symbols EXCEPT ![f].nodes = Append(@, NewNode)],
         freed' = freed, datatypes' = datatypes
  PROVE  SymbolsOK' /\ PropertiesOK' /\ NodesOwnedOnce' /\ Grown
<1> DEFINE last == Len(symbols[f].nodes) + 1
<1>1. "function" \in Kinds /\ t \in Types
  BY SymbolsAssumption DEF Kinds
<1>2. /\ made' \in Seq(Nodes) /\ PropertiesOK'
      /\ NewNode \notin DOMAIN made /\ DOMAIN made' = DOMAIN made \union {NewNode}
      /\ \A n \in DOMAIN made : made'[n] = made[n]
      /\ made'[NewNode] = Node("function", t) /\ NewNode \in Nat
  BY <1>1, NewNodeFacts
<1>3. made'[NewNode].kind = "function" /\ made'[NewNode].type = t
  BY <1>2 DEF Node
<1>4. /\ symbols[f].nodes \in Seq(Nat) /\ last \in Nat
      /\ DOMAIN symbols[f].nodes = 1 .. last - 1 /\ last >= 2
  BY ListFacts
<1>5. /\ Append(symbols[f].nodes, NewNode) \in Seq(Nat)
      /\ Append(symbols[f].nodes, NewNode) # << >>
      /\ Len(Append(symbols[f].nodes, NewNode)) = last
      /\ \A k \in 1 .. last - 1 : Append(symbols[f].nodes, NewNode)[k] = symbols[f].nodes[k]
      /\ Append(symbols[f].nodes, NewNode)[last] = NewNode
  BY SMTT(30), <1>2, <1>4, AppendProperties
<1>6. DOMAIN Append(symbols[f].nodes, NewNode) = 1 .. last
  BY <1>5, LenProperties
<1> HIDE DEF last
<1>7. /\ DOMAIN symbols' = DOMAIN symbols
      /\ \A i \in DOMAIN symbols : i # f => symbols'[i] = symbols[i]
      /\ symbols'[f].name = symbols[f].name /\ symbols'[f].kind = "function"
      /\ symbols'[f].nodes = Append(symbols[f].nodes, NewNode)
      /\ symbols' \in Seq(Symbols)
  <2>1. symbols[f] \in Symbols
    BY TableFacts
  <2>2. [symbols[f] EXCEPT !.nodes = Append(@, NewNode)] \in Symbols
    BY <2>1, <1>5 DEF Symbols
  <2>3. /\ symbols' = [symbols EXCEPT ![f] = [symbols[f] EXCEPT !.nodes = Append(@, NewNode)]]
        /\ symbols'[f] = [symbols[f] EXCEPT !.nodes = Append(@, NewNode)]
    OBVIOUS
  <2>4. symbols' \in Seq(Symbols)
    BY <2>2, <2>3, TableFacts, ExceptSeq DEF SymbolsOK
  <2>5. symbols'[f].name = symbols[f].name /\ symbols'[f].kind = symbols[f].kind
    BY <2>1, <2>3 DEF Symbols
  <2>6. symbols'[f].nodes = Append(symbols[f].nodes, NewNode)
    BY <2>1, <2>3 DEF Symbols
  <2> QED
    BY <2>3, <2>4, <2>5, <2>6
<1>8. /\ \A k \in DOMAIN symbols'[f].nodes :
           \/ k = last /\ symbols'[f].nodes[k] = NewNode
           \/ k \in DOMAIN symbols[f].nodes /\ symbols'[f].nodes[k] = symbols[f].nodes[k]
      /\ \A k \in DOMAIN symbols[f].nodes :
           k \in DOMAIN symbols'[f].nodes /\ symbols'[f].nodes[k] = symbols[f].nodes[k]
      /\ last \in DOMAIN symbols'[f].nodes /\ symbols'[f].nodes[last] = NewNode
      /\ 1 \in DOMAIN symbols[f].nodes /\ last \notin DOMAIN symbols[f].nodes
  <2>1. \A k \in 1 .. last : k = last \/ k \in 1 .. last - 1
    BY <1>4
  <2>2. last \in 1 .. last /\ last \notin 1 .. last - 1 /\ 1 \in 1 .. last - 1
        /\ \A k \in 1 .. last - 1 : k \in 1 .. last
    BY <1>4
  <2>3. DOMAIN symbols'[f].nodes = 1 .. last /\ DOMAIN symbols[f].nodes = 1 .. last - 1
    BY <1>4, <1>6, <1>7
  <2>4. /\ \A k \in 1 .. last - 1 : symbols'[f].nodes[k] = symbols[f].nodes[k]
        /\ symbols'[f].nodes[last] = NewNode
    BY <1>5, <1>7
  <2> QED
    BY <2>1, <2>2, <2>3, <2>4
<1>9. \A i \in DOMAIN symbols : \A k \in DOMAIN symbols[i].nodes :
        symbols[i].nodes[k] \in DOMAIN made
  BY DEF NodesOwnedOnce
<1>10. SymbolsOK'
  <2>1. freed' \subseteq DOMAIN made' /\ datatypes' \in [DOMAIN datatypes' -> DOMAIN made']
        /\ DOMAIN datatypes' \subseteq Types
    BY <1>2 DEF SymbolsOK
  <2>2. ASSUME NEW i \in DOMAIN symbols'
        PROVE  /\ symbols'[i].nodes # << >>
               /\ \A k \in DOMAIN symbols'[i].nodes :
                    made'[symbols'[i].nodes[k]].kind = symbols'[i].kind
               /\ symbols'[i].kind = "function" =>
                    \A k \in DOMAIN symbols'[i].nodes :
                      made'[symbols'[i].nodes[k]].type \in FunctionTypes
    <3>1. CASE i # f
      BY <3>1, <1>2, <1>7, <1>9 DEF SymbolsOK
    <3>2. CASE i = f
      <4>1. symbols'[f].nodes # << >>
        BY <1>5, <1>7
      <4>2. ASSUME NEW k \in DOMAIN symbols'[f].nodes
            PROVE  /\ made'[symbols'[f].nodes[k]].kind = "function"
                   /\ made'[symbols'[f].nodes[k]].type \in FunctionTypes
        <5>1. CASE symbols'[f].nodes[k] = NewNode
          BY <5>1, <1>3
        <5>2. CASE k \in DOMAIN symbols[f].nodes /\ symbols'[f].nodes[k] = symbols[f].nodes[k]
          BY <5>2, <1>2, <1>9 DEF SymbolsOK
        <5> QED
          BY <5>1, <5>2, <1>8
      <4> QED
        BY <3>2, <4>1, <4>2, <1>7
    <3> QED
      BY <3>1, <3>2
  <2>3. \A i, j \in DOMAIN symbols' : symbols'[i].name = symbols'[j].name => i = j
    BY <1>7 DEF SymbolsOK
  <2> QED
    BY <1>2, <1>7, <2>1, <2>2, <2>3 DEF SymbolsOK
<1>11. NodesOwnedOnce'
  <2>1. /\ \A i \in DOMAIN symbols' : \A k \in DOMAIN symbols'[i].nodes :
             \/ i = f /\ k = last /\ symbols'[i].nodes[k] = NewNode
             \/ k \in DOMAIN symbols[i].nodes /\ symbols'[i].nodes[k] = symbols[i].nodes[k]
        /\ \A i \in DOMAIN symbols : \A k \in DOMAIN symbols[i].nodes :
             k \in DOMAIN symbols'[i].nodes /\ symbols'[i].nodes[k] = symbols[i].nodes[k]
    <3>1. ASSUME NEW i \in DOMAIN symbols', NEW k \in DOMAIN symbols'[i].nodes
          PROVE  \/ i = f /\ k = last /\ symbols'[i].nodes[k] = NewNode
                 \/ k \in DOMAIN symbols[i].nodes /\ symbols'[i].nodes[k] = symbols[i].nodes[k]
      <4>1. CASE i = f
        BY <4>1, <1>8
      <4>2. CASE i # f
        BY <4>2, <1>7
      <4> QED
        BY <4>1, <4>2
    <3>2. ASSUME NEW i \in DOMAIN symbols, NEW k \in DOMAIN symbols[i].nodes
          PROVE  k \in DOMAIN symbols'[i].nodes /\ symbols'[i].nodes[k] = symbols[i].nodes[k]
      <4>1. CASE i = f
        BY <4>1, <1>8
      <4>2. CASE i # f
        BY <4>2, <1>7
      <4> QED
        BY <4>1, <4>2
    <3> QED
      BY <3>1, <3>2
  <2>2. ASSUME NEW i \in DOMAIN symbols', NEW k \in DOMAIN symbols'[i].nodes
        PROVE  /\ symbols'[i].nodes[k] \in DOMAIN made' \ freed'
               /\ \A j \in DOMAIN symbols' : \A l \in DOMAIN symbols'[j].nodes :
                    symbols'[j].nodes[l] = symbols'[i].nodes[k] => j = i /\ l = k
    <3>1. NewNode \notin freed
      BY <1>2 DEF SymbolsOK
    <3>2. symbols'[i].nodes[k] \in DOMAIN made' \ freed'
      <4>1. CASE symbols'[i].nodes[k] = NewNode
        BY <4>1, <3>1, <1>2
      <4>2. CASE k \in DOMAIN symbols[i].nodes /\ symbols'[i].nodes[k] = symbols[i].nodes[k]
        BY <4>2, <1>2, <1>7 DEF NodesOwnedOnce
      <4> QED
        BY <4>1, <4>2, <2>1
    <3>3. ASSUME NEW j \in DOMAIN symbols', NEW l \in DOMAIN symbols'[j].nodes,
                 symbols'[j].nodes[l] = symbols'[i].nodes[k]
          PROVE  j = i /\ l = k
      <4>1. i \in DOMAIN symbols /\ j \in DOMAIN symbols
        BY <1>7
      <4>2. \/ i = f /\ k = last /\ symbols'[i].nodes[k] = NewNode
            \/ k \in DOMAIN symbols[i].nodes /\ symbols'[i].nodes[k] = symbols[i].nodes[k]
        BY <2>1
      <4>3. \/ j = f /\ l = last /\ symbols'[j].nodes[l] = NewNode
            \/ l \in DOMAIN symbols[j].nodes /\ symbols'[j].nodes[l] = symbols[j].nodes[l]
        BY <2>1
      <4>4. k \in DOMAIN symbols[i].nodes => symbols[i].nodes[k] # NewNode
        BY <4>1, <1>2, <1>9
      <4>5. l \in DOMAIN symbols[j].nodes => symbols[j].nodes[l] # NewNode
        BY <4>1, <1>2, <1>9
      <4>6. CASE k \in DOMAIN symbols[i].nodes /\ l \in DOMAIN symbols[j].nodes
                 /\ symbols[j].nodes[l] = symbols[i].nodes[k]
        BY <4>1, <4>6 DEF NodesOwnedOnce
      <4> HIDE DEF NewNode
      <4> QED
        BY <3>3, <4>2, <4>3, <4>4, <4>5, <4>6
    <3> QED
      BY <3>2, <3>3
  <2>3. ASSUME NEW n \in DOMAIN made' \ freed'
        PROVE  \E i \in DOMAIN symbols' : \E k \in DOMAIN symbols'[i].nodes :
                 symbols'[i].nodes[k] = n
    <3>1. CASE n = NewNode
      BY <3>1, <1>7, <1>8
    <3>2. CASE n \in DOMAIN made
      <4>1. PICK i \in DOMAIN symbols : \E k \in DOMAIN symbols[i].nodes : symbols[i].nodes[k] = n
        BY <3>2 DEF NodesOwnedOnce
      <4> QED
        BY <4>1, <2>1, <1>7
    <3> QED
      BY <3>1, <3>2, <1>2
  <2>4. \A u \in DOMAIN datatypes' :
          /\ datatypes'[u] \in DOMAIN made' \ freed'
          /\ made'[datatypes'[u]].kind = "datatype" /\ made'[datatypes'[u]].type = u
    BY <1>2 DEF NodesOwnedOnce
  <2> QED
    BY <2>2, <2>3, <2>4 DEF NodesOwnedOnce
<1>12. Grown
  BY <1>2, <1>7, <1>8 DEF Grown, PropertiesOf
<1> QED
  BY <1>2, <1>10, <1>11, <1>12

\* A property more.
LEMMA AddPropertyKeeps ==
  ASSUME SymbolsOK, PropertiesOK, NodesOwnedOnce, NEW node \in LiveDatatypes,
         NEW property \in Properties, AddProperty(node, property)
  PROVE  SymbolsOK' /\ PropertiesOK' /\ NodesOwnedOnce' /\ Grown
<1> DEFINE list == PropertiesOf(node)
           more == Append(list, property)
<1>1. node \in DOMAIN made /\ made[node] \in Nodes /\ UNCHANGED <<freed, symbols, datatypes>>
      /\ Len(list) < MaxProperties /\ MaxProperties \in Nat
      /\ \A o \in DOMAIN list : list[o].name # property.name
  BY TableFacts, PropertiesAssumption DEF LiveDatatypes, AddProperty, HasProperty
<1>2. /\ list \in Seq(Properties) /\ Len(list) \in Nat /\ DOMAIN list = 1 .. Len(list)
  BY <1>1, ListFacts
<1>3. /\ more \in Seq(Properties) /\ Len(more) = Len(list) + 1
      /\ \A o \in 1 .. Len(list) : more[o] = list[o]
      /\ more[Len(list) + 1] = property
  BY <1>2, AppendProperties
<1>4. DOMAIN more = 1 .. Len(list) + 1
  BY <1>3, LenProperties
<1>5. /\ made' = [made EXCEPT ![node] = [made[node] EXCEPT !.properties = more]]
      /\ [made[node] EXCEPT !.properties = more] \in Nodes
      /\ made'[node] = [made[node] EXCEPT !.properties = more]
  <2>1. made' = [made EXCEPT ![node] = [made[node] EXCEPT !.properties = more]]
    BY DEF AddProperty, PropertiesOf
  <2>2. [made[node] EXCEPT !.properties = more] \in Nodes
    <3> HIDE DEF more
    <3> QED
      BY <1>1, <1>3 DEF Nodes
  <2> HIDE DEF more
  <2> QED
    BY <1>1, <2>1, <2>2
<1> HIDE DEF more
<1>6. made' \in Seq(Nodes) /\ DOMAIN made' = DOMAIN made
  BY <1>1, <1>5, TableFacts, ExceptSeq DEF SymbolsOK
<1>7. /\ made'[node].properties = more
      /\ made'[node].kind = made[node].kind /\ made'[node].type = made[node].type
  BY <1>1, <1>5 DEF Nodes
<1>8. \A n \in DOMAIN made : n # node => made'[n] = made[n]
  BY <1>5
<1>9. \A n \in DOMAIN made : made'[n].kind = made[n].kind /\ made'[n].type = made[n].type
  BY <1>7, <1>8
<1>10. SymbolsOK'
  <2>1. \A i \in DOMAIN symbols : \A k \in DOMAIN symbols[i].nodes :
          symbols[i].nodes[k] \in DOMAIN made
    BY DEF NodesOwnedOnce
  <2> QED
    BY ZenonT(30), <1>1, <1>6, <1>9, <2>1 DEF SymbolsOK, Symbols
<1>11. PropertiesOK'
  <2> SUFFICES ASSUME NEW n \in DOMAIN made'
               PROVE  /\ Len(made'[n].properties) <= MaxProperties
                      /\ \A o, p \in DOMAIN made'[n].properties :
                           made'[n].properties[o].name = made'[n].properties[p].name => o = p
    BY DEF PropertiesOK, PropertiesOf
  <2>1. CASE n # node
    BY <2>1, <1>6, <1>8 DEF PropertiesOK, PropertiesOf
  <2>2. CASE n = node
    <3>1. Len(more) <= MaxProperties
      BY <1>1, <1>2, <1>3
    <3>2. ASSUME NEW o \in DOMAIN more, NEW p \in DOMAIN more, more[o].name = more[p].name
          PROVE  o = p
      <4>1. \A q \in DOMAIN more : q = Len(list) + 1 \/ q \in DOMAIN list
        BY <1>2, <1>4
      <4>2. \A q \in DOMAIN list : more[q] = list[q]
        BY <1>2, <1>3
      <4>3. \A q, r \in DOMAIN list : list[q].name = list[r].name => q = r
        BY <1>1 DEF PropertiesOK
      <4> HIDE DEF list
      <4> QED
        BY <3>2, <4>1, <4>2, <4>3, <1>1, <1>3
    <3> QED
      BY <2>2, <3>1, <3>2, <1>7
  <2> QED
    BY <2>1, <2>2
<1>12. NodesOwnedOnce'
  BY <1>1, <1>6, <1>9 DEF NodesOwnedOnce
<1>13. Grown
  <2>1. \A n \in DOMAIN made : \A o \in DOMAIN PropertiesOf(n) :
          o \in DOMAIN made'[n].properties
            /\ made'[n].properties[o] = PropertiesOf(n)[o]
    BY <1>2, <1>3, <1>4, <1>7, <1>8 DEF PropertiesOf
  <2> QED
    BY <1>1, <1>6, <1>9, <2>1 DEF Grown, PropertiesOf
<1> QED
  BY <1>10, <1>11, <1>12, <1>13

\* Every definition.
LEMMA DefineKeeps ==
  ASSUME SymbolsOK, PropertiesOK, NodesOwnedOnce, Define
  PROVE  SymbolsOK' /\ PropertiesOK' /\ NodesOwnedOnce' /\ Grown
<1>1. ASSUME NEW name \in Names, NEW kind \in {"variable", "datatype"}, NEW t \in Types,
             AddSymbol(name, kind, t)
      PROVE  SymbolsOK' /\ PropertiesOK' /\ NodesOwnedOnce' /\ Grown
  <2>1. kind \in Kinds /\ kind # "function"
    BY DEF Kinds
  <2>2. CASE IsDefined(name)
    BY <1>1, <2>1, <2>2, AddTaken DEF AddSymbol
  <2>3. CASE ~ IsDefined(name)
    BY <1>1, <2>1, <2>3, AppendSymbol DEF AddSymbol
  <2> QED
    BY <2>2, <2>3
<1>2. ASSUME NEW name \in Names, NEW t \in FunctionTypes, AddFunction(name, t)
      PROVE  SymbolsOK' /\ PropertiesOK' /\ NodesOwnedOnce' /\ Grown
  <2>1. CASE IsDefined(name)
    BY <1>2, <2>1, FindFacts, AddOverload DEF AddFunction
  <2>2. CASE ~ IsDefined(name)
    BY <1>2, <2>2, SymbolsAssumption, AppendSymbol DEF AddFunction, Register, Kinds
  <2> QED
    BY <2>1, <2>2
<1>3. CASE \E node \in LiveDatatypes, property \in Properties : AddProperty(node, property)
  BY <1>3, AddPropertyKeeps
<1> QED
  BY <1>1, <1>2, <1>3, AccessAssumption DEF Define

\* No symbol.
LEMMA DeleteKeeps ==
  ASSUME SymbolsOK, PropertiesOK, NodesOwnedOnce, DeleteSymbols
  PROVE  SymbolsOK' /\ PropertiesOK' /\ NodesOwnedOnce'
<1>1. made' = made /\ symbols' = << >> /\ datatypes' = << >>
      /\ DOMAIN symbols' = {} /\ DOMAIN datatypes' = {}
  BY DEF DeleteSymbols
<1>2. \A i \in DOMAIN symbols : \A k \in DOMAIN symbols[i].nodes :
        symbols[i].nodes[k] \in DOMAIN made
  BY DEF NodesOwnedOnce
<1>3. \A n : n \in freed' <=>
        \/ n \in freed
        \/ \E i \in DOMAIN symbols : \E k \in DOMAIN symbols[i].nodes : n = symbols[i].nodes[k]
  <2> DEFINE held == UNION {Range(symbols[i].nodes) : i \in DOMAIN symbols}
  <2>1. \A n : n \in held <=> \E i \in DOMAIN symbols : n \in Range(symbols[i].nodes)
    OBVIOUS
  <2>2. \A i \in DOMAIN symbols : \A n : n \in Range(symbols[i].nodes) <=>
          \E k \in DOMAIN symbols[i].nodes : n = symbols[i].nodes[k]
    BY DEF Range
  <2>3. freed' = freed \union held
    BY DEF DeleteSymbols
  <2> HIDE DEF held
  <2>4. \A n : n \in freed' <=> n \in freed \/ n \in held
    BY <2>3
  <2>5. ASSUME NEW n \in held
        PROVE  \E i \in DOMAIN symbols : \E k \in DOMAIN symbols[i].nodes :
                 n = symbols[i].nodes[k]
    <3>1. PICK i \in DOMAIN symbols : n \in Range(symbols[i].nodes)
      BY <2>1
    <3>2. PICK k \in DOMAIN symbols[i].nodes : n = symbols[i].nodes[k]
      BY <2>2, <3>1
    <3> QED
      BY <3>2
  <2>6. ASSUME NEW i \in DOMAIN symbols, NEW k \in DOMAIN symbols[i].nodes
        PROVE  symbols[i].nodes[k] \in held
    BY <2>1, <2>2
  <2> QED
    BY <2>4, <2>5, <2>6
<1>4. freed' \subseteq DOMAIN made'
  BY <1>1, <1>2, <1>3 DEF SymbolsOK
<1>5. SymbolsOK'
  <2>1. symbols' \in Seq(Symbols)
    BY <1>1, EmptySeq
  <2>2. datatypes' \in [DOMAIN datatypes' -> DOMAIN made']
    BY <1>1
  <2> QED
    BY <1>1, <1>4, <2>1, <2>2 DEF SymbolsOK
<1>6. PropertiesOK'
  BY <1>1 DEF PropertiesOK, PropertiesOf
<1>7. DOMAIN made' \ freed' = {}
  BY <1>1, <1>3 DEF NodesOwnedOnce
<1>8. NodesOwnedOnce'
  BY <1>1, <1>7 DEF NodesOwnedOnce
<1> QED
  BY <1>5, <1>6, <1>8

-----------------------------------------------------------------------------
(* What the walks look up.                                                  *)

\* static_cast of what fits.
LEMMA Int32Fits ==
  ASSUME NEW i \in -HalfInt .. HalfInt - 1
  PROVE  Int32(i) = i
<1>1. HalfInt \in Nat /\ i \in Int /\ -HalfInt <= i /\ i < HalfInt
  BY AccessAssumption
<1>2. (i + HalfInt) % (2 * HalfInt) = i + HalfInt
  BY <1>1, Z3
<1> QED
  BY <1>1, <1>2 DEF Int32

LEMMA Int32Type ==
  ASSUME NEW i \in Int
  PROVE  Int32(i) \in Int
<1>1. HalfInt \in Nat \ {0} /\ i + HalfInt \in Int
  BY AccessAssumption, PropertiesAssumption
<1>2. (i + HalfInt) % (2 * HalfInt) \in Int
  BY <1>1
<1> QED
  BY <1>1, <1>2 DEF Int32

\* A name or an ordinal stands for one property.
LEMMA OneOrdinal ==
  ASSUME SymbolsOK, PropertiesOK, NEW t, NEW entry, NEW o \in Ordinals(t, entry)
  PROVE  /\ t \in DOMAIN datatypes /\ datatypes[t] \in DOMAIN made /\ datatypes[t] \in Nat
         /\ o \in DOMAIN PropertiesOf(datatypes[t]) /\ o \in 1 .. MaxProperties
         /\ PropertiesOf(datatypes[t])[o] \in Properties
         /\ \A p \in Ordinals(t, entry) : p = o
<1>1. /\ t \in DOMAIN datatypes /\ datatypes[t] \in DOMAIN made
      /\ o \in DOMAIN PropertiesOf(datatypes[t]) /\ o \in 1 .. MaxProperties
  BY DEF Ordinals, SymbolsOK
<1>2. datatypes[t] \in Nat /\ PropertiesOf(datatypes[t])[o] \in Properties
  BY <1>1, TableFacts, ListFacts
<1>3. ASSUME NEW p \in Ordinals(t, entry)
      PROVE  p = o
  <2>1. o \in Int /\ p \in Int /\ p \in DOMAIN PropertiesOf(datatypes[t])
    BY PropertiesAssumption DEF Ordinals
  <2>2. CASE entry.kind = "name"
    BY <2>1, <2>2, <1>1 DEF Ordinals, PropertiesOK
  <2>3. CASE entry.kind = "index"
    BY <2>1, <2>3 DEF Ordinals
  <2> QED
    BY <2>2, <2>3 DEF Ordinals
<1> QED
  BY <1>1, <1>2, <1>3

\* A name an access may begin with has a type.
LEMMA BaseType ==
  ASSUME SymbolsOK, NodesOwnedOnce, NEW name, NameOK(name)
  PROVE  Base(name) \in Types
<1>1. CASE name \in DOMAIN Locals
  BY <1>1, AccessAssumption DEF Base
<1>2. CASE name \notin DOMAIN Locals
  <2> DEFINE i == Find(name)
  <2>1. i \in DOMAIN symbols /\ symbols[i].kind # "datatype"
    BY <1>2, FindFacts DEF NameOK
  <2> HIDE DEF i
  <2>2. 1 \in DOMAIN symbols[i].nodes /\ symbols[i].nodes[1] \in DOMAIN made
    BY <2>1, ListFacts DEF NodesOwnedOnce
  <2>3. made[symbols[i].nodes[1]].type \in Types /\ symbols[i].kind \in {"variable", "function"}
    BY <2>1, <2>2, TableFacts DEF Nodes, Symbols, Kinds
  <2>4. symbols[i].kind = "function" =>
          PointerTo[made[symbols[i].nodes[1]].type] \in Types
    BY <2>1, <2>2, AccessAssumption DEF SymbolsOK
  <2> QED
    BY <1>2, <2>3, <2>4 DEF Base, i
<1> QED
  BY <1>1, <1>2

\* With no void field before it the element of a field is what index_of_field says.
LEMMA ElementIsIndex ==
  ASSUME SymbolsOK, NEW node \in DOMAIN made, NEW o \in DOMAIN PropertiesOf(node)
  PROVE  /\ IndexOfField(node, o) \in Int
         /\ (\A p \in 1 .. o - 1 : PropertiesOf(node)[p].type # Void)
              => IndexOfField(node, o) = ElementOf(node, o)
<1>1. o \in Int
  BY ListFacts
<1>2. IndexOfField(node, o) \in Nat
  <2>1. IsFiniteSet(1 .. o - 1)
    BY <1>1, FS_Interval
  <2>2. IsFiniteSet({p \in 1 .. o - 1 : PropertiesOf(node)[p].kind = "field"})
    BY <2>1, FS_Subset
  <2> QED
    BY <2>2, FS_CardinalityType DEF IndexOfField
<1>3. ASSUME \A p \in 1 .. o - 1 : PropertiesOf(node)[p].type # Void
      PROVE  {p \in 1 .. o - 1 : PropertiesOf(node)[p].kind = "field"}
               = {p \in 1 .. o - 1 : InStruct(node, p)}
  BY <1>3 DEF InStruct
<1> QED
  BY <1>2, <1>3 DEF IndexOfField, ElementOf

-----------------------------------------------------------------------------
(* What is looked up after more was defined.                                *)

\* The first node of a name, and with it its type, is the same.
LEMMA BaseKept ==
  ASSUME SymbolsOK, SymbolsOK', NodesOwnedOnce, Grown
  PROVE  \A name : NameOK(name) => NameOK(name)' /\ Base(name)' = Base(name)
<1> SUFFICES ASSUME NEW name, NameOK(name), name \notin DOMAIN Locals
             PROVE  NameOK(name)' /\ Base(name)' = Base(name)
  BY DEF NameOK, Base
<1>1. Find(name) \in DOMAIN symbols /\ symbols[Find(name)].name = name
      /\ IsDefined(name) /\ symbols[Find(name)].kind # "datatype"
  BY FindFacts DEF NameOK
<1>2. /\ Find(name) \in DOMAIN symbols' /\ symbols'[Find(name)].name = name
      /\ symbols'[Find(name)].kind = symbols[Find(name)].kind
      /\ symbols'[Find(name)].nodes[1] = symbols[Find(name)].nodes[1]
  BY <1>1 DEF Grown
<1>3. IsDefined(name)'
  BY <1>2 DEF IsDefined
<1>4. Find(name)' = Find(name)
  <2>1. Find(name)' \in DOMAIN symbols' /\ symbols'[Find(name)'].name = name
    BY <1>2 DEF Find
  <2> QED
    BY <1>2, <2>1 DEF SymbolsOK
<1>5. made'[symbols[Find(name)].nodes[1]].type = made[symbols[Find(name)].nodes[1]].type
  BY <1>1, ListFacts DEF Grown, NodesOwnedOnce
<1> QED
  BY <1>1, <1>2, <1>3, <1>4, <1>5 DEF NameOK, Base

\* What an entry leads to is the same.
LEMMA MemberKept ==
  ASSUME SymbolsOK, Grown
  PROVE  \A t, entry, member :
           MemberOK(t, entry, member) => MemberOK(t, entry, member)'
<1> SUFFICES ASSUME NEW t, NEW entry, NEW member, MemberOK(t, entry, member)
             PROVE  MemberOK(t, entry, member)'
  OBVIOUS
<1>1. CASE member.kind = "pointer"
  BY <1>1 DEF MemberOK
<1>2. CASE member.kind # "pointer"
  <2> DEFINE o == member.ordinal
  <2>1. /\ member.kind \in {"field", "accessor"}
        /\ entry.kind = "index" => ~ IsPointer(t)
        /\ o \in Ordinals(t, entry) /\ member.node = datatypes[t]
        /\ PropertiesOf(member.node)[o].kind = member.kind
        /\ PropertiesOf(member.node)[o].type = member.type
    BY <1>2 DEF MemberOK
  <2>2. /\ t \in DOMAIN datatypes /\ datatypes[t] \in DOMAIN made
        /\ o \in DOMAIN PropertiesOf(datatypes[t])
    BY <2>1 DEF Ordinals, SymbolsOK
  <2>3. /\ t \in DOMAIN datatypes' /\ datatypes'[t] = datatypes[t]
        /\ o \in DOMAIN PropertiesOf(datatypes[t])'
        /\ PropertiesOf(datatypes[t])'[o] = PropertiesOf(datatypes[t])[o]
    BY <2>2 DEF Grown
  <2>4. o \in Ordinals(t, entry)'
    BY <2>1, <2>3 DEF Ordinals, PropertiesOf
  <2> QED
    BY <2>1, <2>3, <2>4 DEF MemberOK, IsPointer, PropertiesOf
<1> QED
  BY <1>1, <1>2

\* What was type checked is as it was.
LEMMA NodeKept ==
  ASSUME SymbolsOK, SymbolsOK', NodesOwnedOnce, Grown
  PROVE  \A node : NodeOK(node) => NodeOK(node)'
<1> SUFFICES ASSUME NEW node, NodeOK(node)
             PROVE  NodeOK(node)'
  OBVIOUS
<1>1. AccessOK(node.access)' /\ Base(node.access.name)' = Base(node.access.name)
  BY BaseKept DEF NodeOK, AccessOK
<1>2. \A j : TypeAt(node.access, node.path, j)' = TypeAt(node.access, node.path, j)
  BY <1>1 DEF TypeAt
<1>3. PathOK(node.access, node.path)'
  BY <1>2, MemberKept DEF NodeOK, PathOK
<1> QED
  BY <1>1, <1>2, <1>3 DEF NodeOK

\* Where nothing is defined, everything is as it was.
LEMMA SameTable ==
  ASSUME UNCHANGED symbolVars
  PROVE  /\ SymbolsOK => SymbolsOK'
         /\ PropertiesOK => PropertiesOK'
         /\ NodesOwnedOnce => NodesOwnedOnce'
         /\ \A acc : AccessOK(acc)' <=> AccessOK(acc)
         /\ \A acc, members : PathOK(acc, members)' <=> PathOK(acc, members)
         /\ \A acc, members, j : TypeAt(acc, members, j)' = TypeAt(acc, members, j)
         /\ \A node : (NodeOK(node)' <=> NodeOK(node)) /\ (HasNoPlace(node)' <=> HasNoPlace(node))
         /\ \A node, j, index : GoesTo(node, j, index)' <=> GoesTo(node, j, index)
<1>1. made' = made /\ freed' = freed /\ symbols' = symbols /\ datatypes' = datatypes
  BY DEF symbolVars
<1>2. /\ SymbolsOK => SymbolsOK'
      /\ PropertiesOK => PropertiesOK'
      /\ NodesOwnedOnce => NodesOwnedOnce'
  BY <1>1 DEF SymbolsOK, PropertiesOK, PropertiesOf, NodesOwnedOnce
<1>3. \A name : Base(name)' = Base(name) /\ (NameOK(name)' <=> NameOK(name))
        /\ (IsFunctionName(name)' <=> IsFunctionName(name))
  BY <1>1 DEF Base, NameOK, IsDefined, Find, IsFunctionName, OnStack
<1>4. \A acc : AccessOK(acc)' <=> AccessOK(acc)
  BY <1>3 DEF AccessOK
<1>5. \A acc, members, j : TypeAt(acc, members, j)' = TypeAt(acc, members, j)
  BY <1>3 DEF TypeAt
<1>6. \A t, entry, member : MemberOK(t, entry, member)' <=> MemberOK(t, entry, member)
  BY <1>1 DEF MemberOK, Ordinals, PropertiesOf, IsPointer
<1>7. \A acc, members : PathOK(acc, members)' <=> PathOK(acc, members)
  BY <1>5, <1>6 DEF PathOK
<1>8. \A node : (NodeOK(node)' <=> NodeOK(node)) /\ (HasNoPlace(node)' <=> HasNoPlace(node))
  BY <1>3, <1>4, <1>5, <1>7 DEF NodeOK, HasNoPlace
<1>9. \A node, j, index : GoesTo(node, j, index)' <=> GoesTo(node, j, index)
  <2>1. \A n, o : ElementOf(n, o)' = ElementOf(n, o)
    BY <1>1 DEF ElementOf, InStruct, PropertiesOf
  <2> QED
    BY <1>1, <2>1 DEF GoesTo, PropertiesOf
<1> QED
  BY <1>2, <1>4, <1>5, <1>7, <1>8, <1>9

-----------------------------------------------------------------------------
(* The first walk.                                                          *)

\* One member more is still a path.
LEMMA AppendPath ==
  ASSUME NEW acc, NEW members \in Seq(Members), PathOK(acc, members), NEW member \in Members,
         MemberOK(TypeAt(acc, members, Len(members)), acc.chain[Len(members) + 1], member)
  PROVE  /\ Append(members, member) \in Seq(Members)
         /\ Len(Append(members, member)) = Len(members) + 1
         /\ PathOK(acc, Append(members, member))
         /\ TypeAt(acc, Append(members, member), Len(members) + 1) = member.type
<1> DEFINE longer == Append(members, member)
<1>1. /\ longer \in Seq(Members) /\ Len(longer) = Len(members) + 1
      /\ \A j \in 1 .. Len(members) : longer[j] = members[j]
      /\ longer[Len(members) + 1] = member
  BY AppendProperties
<1>2. Len(members) \in Nat /\ DOMAIN members = 1 .. Len(members)
      /\ DOMAIN longer = 1 .. Len(members) + 1
  BY <1>1, LenProperties
<1> HIDE DEF longer
<1>3. \A j \in 0 .. Len(members) : TypeAt(acc, longer, j) = TypeAt(acc, members, j)
  BY <1>1, <1>2 DEF TypeAt
<1>4. TypeAt(acc, longer, Len(members) + 1) = member.type
  BY <1>1, <1>2 DEF TypeAt
<1>5. ASSUME NEW j \in DOMAIN longer
      PROVE  MemberOK(TypeAt(acc, longer, j - 1), acc.chain[j], longer[j])
  <2>1. CASE j = Len(members) + 1
    <3>1. TypeAt(acc, longer, j - 1) = TypeAt(acc, members, Len(members))
      BY <2>1, <1>2, <1>3
    <3> QED
      BY <2>1, <3>1, <1>1
  <2>2. CASE j \in DOMAIN members
    <3>1. TypeAt(acc, longer, j - 1) = TypeAt(acc, members, j - 1) /\ longer[j] = members[j]
      BY <2>2, <1>1, <1>2, <1>3
    <3> QED
      BY <2>2, <3>1 DEF PathOK
  <2> QED
    BY <2>1, <2>2, <1>2
<1> QED
  BY <1>1, <1>4, <1>5 DEF PathOK, longer

\* Results that agree, one by one.
AllAgree ==
  \A k \in DOMAIN results :
    \/ results[k].type = accesses[k].type
    \/ results[k].type = NoType /\ HasNoPlace(accesses[k])
    \/ SkipsAccessor(accesses[k])

\* A step that defines nothing and adds no access.
LEMMA ProgramKept ==
  ASSUME IInv, UNCHANGED <<symbolVars, accesses>>
  PROVE  SymbolsOK' /\ PropertiesOK' /\ NodesOwnedOnce' /\ AccessesOK'
<1> SymbolsOK /\ PropertiesOK /\ NodesOwnedOnce /\ AccessesOK
  BY DEF IInv
<1>1. SymbolsOK' /\ PropertiesOK' /\ NodesOwnedOnce'
  BY SameTable
<1>2. AccessesOK'
  BY SameTable DEF AccessesOK
<1> QED
  BY <1>1, <1>2

\* One that has no result either.
LEMMA ResultsKept ==
  ASSUME IInv, UNCHANGED <<symbolVars, accesses, results>>
  PROVE  AllAgree' /\ SameMembers'
<1>1. AllAgree /\ SameMembers
  BY DEF IInv, TypesAgree, AllAgree
<1>2. AllAgree'
  BY <1>1, SameTable DEF AllAgree
<1>3. SameMembers'
  <2> SUFFICES ASSUME NEW k \in DOMAIN results', results'[k].type \in Types,
                      ~ SkipsAccessor(accesses'[k])
               PROVE  /\ Len(results'[k].indices)
                           = Len(Leading(accesses'[k].access)) + Len(accesses'[k].path)
                      /\ \A j \in DOMAIN accesses'[k].path :
                           GoesTo(accesses[k], j,
                                  results[k].indices[Len(Leading(accesses[k].access)) + j])'
    BY DEF SameMembers
  <2> QED
    BY <1>1, SameTable DEF SameMembers
<1> QED
  BY <1>2, <1>3

\* The walk begins with the type of its name.
LEMMA BeginCheckKeeps ==
  ASSUME IInv, NEW name \in Names, NEW chain \in Chains, BeginCheck(name, chain)
  PROVE  IInv'
<1>1. UNCHANGED <<symbolVars, accesses, results>> /\ stage' = "check" /\ results = << >>
      /\ access' = [name |-> name, chain |-> chain]
      /\ at' = 0 /\ reached' = Base(name) /\ readable' = TRUE /\ path' = << >>
  BY DEF BeginCheck, IInv, ResultsOK
<1>2. NameOK(name) /\ Base(name) \in Types
  BY BaseType DEF BeginCheck, HasBase, NameOK, IInv
<1>3. CheckOK'
  <2>1. path' \in Seq(Members) /\ Len(path') = 0 /\ DOMAIN path' = {}
    BY <1>1, EmptySeq
  <2>2. access' \in [name : Names, chain : Chains] /\ access'.chain \in Chains
        /\ access'.name = name
    BY <1>1
  <2>3. AccessOK(access)'
    <3>1. AccessOK(access')
      BY <1>2, <2>2 DEF AccessOK
    <3> QED
      BY <3>1, <1>1, SameTable
  <2>4. PathOK(access, path)'
    BY <2>1 DEF PathOK
  <2>5. reached' = TypeAt(access, path, at)'
    <3>1. TypeAt(access', path', at') = Base(name)
      BY <1>1, <2>2 DEF TypeAt
    <3> QED
      BY <3>1, <1>1, SameTable
  <2>6. Len(access'.chain) \in Nat
    BY <2>2, AccessAssumption, LenProperties
  <2> QED
    BY <1>1, <1>2, <2>1, <2>2, <2>3, <2>4, <2>5, <2>6 DEF CheckOK
<1>4. LookupOK' /\ ResultsOK'
  BY <1>1 DEF LookupOK, ResultsOK, IInv
<1>5. TypesAgree' /\ SameMembers'
  BY <1>1, ResultsKept DEF TypesAgree, AllAgree
<1> QED
  BY <1>1, <1>3, <1>4, <1>5, ProgramKept DEF IInv

\* It goes on to what an entry stands for.
LEMMA PassKeeps ==
  ASSUME IInv, stage = "check", HasEntry, NEW member \in Members, NEW read \in BOOLEAN,
         MemberOK(reached, Entry, member), Pass(member, read)
  PROVE  IInv'
<1>1. /\ UNCHANGED <<symbolVars, stage, access, indices, accesses, results>>
      /\ at' = at + 1 /\ reached' = member.type /\ readable' = (readable /\ read)
      /\ path' = Append(path, member)
  BY DEF Pass
<1>2. /\ access \in [name : Names, chain : Chains] /\ AccessOK(access)
      /\ path \in Seq(Members) /\ PathOK(access, path)
      /\ at \in Nat /\ at = Len(path) /\ at < Len(access.chain)
      /\ reached = TypeAt(access, path, at) /\ readable \in BOOLEAN
      /\ Len(access.chain) \in Nat
  <2>1. /\ access \in [name : Names, chain : Chains] /\ AccessOK(access)
        /\ path \in Seq(Members) /\ PathOK(access, path)
        /\ at \in Nat /\ at = Len(path)
        /\ reached = TypeAt(access, path, at) /\ readable \in BOOLEAN
    BY DEF IInv, CheckOK
  <2> QED
    BY <2>1, AccessAssumption, LenProperties DEF HasEntry
<1>3. /\ path' \in Seq(Members) /\ Len(path') = at'
      /\ PathOK(access, path') /\ TypeAt(access, path', at') = member.type
  <2>1. MemberOK(TypeAt(access, path, Len(path)), access.chain[Len(path) + 1], member)
    BY <1>2 DEF Entry
  <2>2. /\ Append(path, member) \in Seq(Members)
        /\ Len(Append(path, member)) = Len(path) + 1
        /\ PathOK(access, Append(path, member))
        /\ TypeAt(access, Append(path, member), Len(path) + 1) = member.type
    BY <1>2, <2>1, AppendPath
  <2> QED
    BY <1>1, <1>2, <2>2
<1>4. CheckOK'
  <2>1. AccessOK(access)' /\ PathOK(access, path)' /\ TypeAt(access, path, at)' = member.type
    BY <1>1, <1>2, <1>3, SameTable
  <2>2. at' \in Nat /\ at' <= Len(access'.chain) /\ readable' \in BOOLEAN /\ member.type \in Types
    BY <1>1, <1>2 DEF Members
  <2> QED
    BY <1>1, <1>2, <1>3, <2>1, <2>2 DEF CheckOK
<1>5. LookupOK' /\ ResultsOK'
  BY <1>1 DEF LookupOK, ResultsOK, IInv
<1>6. TypesAgree' /\ SameMembers'
  BY <1>1, ResultsKept DEF TypesAgree, AllAgree
<1> QED
  BY <1>1, <1>4, <1>5, <1>6, ProgramKept DEF IInv

LEMMA CheckPointerKeeps ==
  ASSUME IInv, CheckPointer
  PROVE  IInv'
<1> DEFINE member == Member("pointer", 0, 0, Pointee[reached])
<1>1. /\ stage = "check" /\ HasEntry /\ Entry.kind # "name" /\ IsPointer(reached)
      /\ Pass(member, TRUE)
  BY DEF CheckPointer
<1>2. /\ member \in Members /\ member.kind = "pointer" /\ member.type = Pointee[reached]
  BY <1>1, AccessAssumption DEF Member, Members, IsPointer
<1>3. MemberOK(reached, Entry, member)
  BY <1>1, <1>2 DEF MemberOK
<1> QED
  BY <1>1, <1>2, <1>3, PassKeeps

LEMMA CheckMemberKeeps ==
  ASSUME IInv, CheckMember
  PROVE  IInv'
<1> SymbolsOK /\ PropertiesOK
  BY DEF IInv
<1>1. PICK o \in Ordinals(reached, Entry) :
        Pass(Member(PropertiesOf(datatypes[reached])[o].kind, datatypes[reached], o,
                    PropertiesOf(datatypes[reached])[o].type),
             PropertiesOf(datatypes[reached])[o].read)
  BY DEF CheckMember
<1> DEFINE property == PropertiesOf(datatypes[reached])[o]
           member == Member(property.kind, datatypes[reached], o, property.type)
<1>2. /\ stage = "check" /\ HasEntry
      /\ Entry.kind = "index" => ~ IsPointer(reached)
  BY DEF CheckMember
<1>3. /\ property \in Properties /\ datatypes[reached] \in Nat /\ o \in Nat
  BY OneOrdinal, PropertiesAssumption
<1>4. /\ property.kind \in {"field", "accessor"} /\ property.type \in Types
      /\ property.read \in BOOLEAN
  BY <1>3, PropertiesAssumption
<1>5. /\ member.kind = property.kind /\ member.node = datatypes[reached]
      /\ member.ordinal = o /\ member.type = property.type
      /\ member \in Members
  BY <1>3, <1>4 DEF Member, Members
<1>6. MemberOK(reached, Entry, member)
  BY <1>2, <1>4, <1>5 DEF MemberOK
<1> QED
  BY <1>1, <1>2, <1>4, <1>5, <1>6, PassKeeps

LEMMA CheckNothingKeeps ==
  ASSUME IInv, CheckNothing
  PROVE  IInv'
<1>1. UNCHANGED <<symbolVars, accesses, results>> /\ stage' = "define" /\ results = << >>
  BY DEF CheckNothing, IInv, ResultsOK
<1>2. CheckOK' /\ LookupOK' /\ ResultsOK'
  BY <1>1 DEF CheckOK, LookupOK, ResultsOK, IInv
<1>3. TypesAgree' /\ SameMembers'
  BY <1>1, ResultsKept DEF TypesAgree, AllAgree
<1> QED
  BY <1>1, <1>2, <1>3, ProgramKept DEF IInv

\* A walk that is through makes a node of the program.
LEMMA EndCheckKeeps ==
  ASSUME IInv, EndCheck
  PROVE  IInv'
<1> DEFINE node == [access |-> access, type |-> reached, path |-> path]
<1>1. /\ UNCHANGED <<symbolVars, results>> /\ stage' = "define" /\ results = << >>
      /\ accesses' = IF readable THEN Append(accesses, node) ELSE accesses
  BY DEF EndCheck, IInv, ResultsOK
<1>2. SymbolsOK' /\ PropertiesOK' /\ NodesOwnedOnce'
  BY <1>1, SameTable DEF IInv
<1>3. /\ access \in [name : Names, chain : Chains] /\ AccessOK(access)
      /\ path \in Seq(Members) /\ PathOK(access, path)
      /\ at = Len(path) /\ at = Len(access.chain)
      /\ reached = TypeAt(access, path, at) /\ reached \in Types
  <2>1. /\ access \in [name : Names, chain : Chains] /\ AccessOK(access)
        /\ path \in Seq(Members) /\ PathOK(access, path)
        /\ at \in Nat /\ at = Len(path) /\ at <= Len(access.chain)
        /\ reached = TypeAt(access, path, at) /\ reached \in Types
    BY DEF EndCheck, IInv, CheckOK
  <2>2. Len(access.chain) \in Nat /\ ~ (at < Len(access.chain))
    BY <2>1, AccessAssumption, LenProperties DEF EndCheck, HasEntry
  <2> QED
    BY <2>1, <2>2
<1>4. node \in ProgramNodes /\ NodeOK(node)
  BY <1>3 DEF ProgramNodes, NodeOK
<1> HIDE DEF node
<1>5. AccessesOK'
  <2>1. accesses \in Seq(ProgramNodes) /\ \A k \in DOMAIN accesses : NodeOK(accesses[k])
    BY DEF IInv, AccessesOK
  <2>2. CASE readable
    <3>1. /\ accesses' \in Seq(ProgramNodes) /\ Len(accesses') = Len(accesses) + 1
          /\ \A k \in 1 .. Len(accesses) : accesses'[k] = accesses[k]
          /\ accesses'[Len(accesses) + 1] = node
      BY <2>1, <2>2, <1>1, <1>4, AppendProperties
    <3>2. /\ Len(accesses) \in Nat /\ DOMAIN accesses = 1 .. Len(accesses)
          /\ DOMAIN accesses' = 1 .. Len(accesses) + 1
      BY <2>1, <3>1, LenProperties
    <3>3. \A k \in DOMAIN accesses' : NodeOK(accesses'[k])
      BY <2>1, <3>1, <3>2, <1>4
    <3>4. \A k \in DOMAIN accesses' : NodeOK(accesses[k])'
      BY <3>3, <1>1, SameTable
    <3> QED
      BY <3>1, <3>4 DEF AccessesOK
  <2>3. CASE ~ readable
    BY <2>1, <2>3, <1>1, SameTable DEF AccessesOK
  <2> QED
    BY <2>2, <2>3
<1>6. CheckOK' /\ LookupOK' /\ ResultsOK'
  <2>1. Len(accesses') \in Nat /\ Len(results') = 0
    BY <1>1, <1>5, LenProperties, EmptySeq DEF AccessesOK
  <2> QED
    BY <1>1, <2>1 DEF CheckOK, LookupOK, ResultsOK, IInv
<1>7. TypesAgree' /\ SameMembers'
  <2>1. DOMAIN results' = {} /\ stage' # "undefined"
    BY <1>1
  <2> QED
    BY <2>1 DEF TypesAgree, SameMembers
<1> QED
  BY <1>2, <1>5, <1>6, <1>7 DEF IInv

-----------------------------------------------------------------------------
(* The second walk.                                                         *)

\* The access that is looked up, as it was type checked.
LEMMA CurrentFacts ==
  ASSUME IInv, Len(results) < Len(accesses)
  PROVE  /\ Current \in ProgramNodes /\ NodeOK(Current)
         /\ Len(results) + 1 \in DOMAIN accesses
         /\ Current.access \in [name : Names, chain : Chains]
         /\ Len(Current.access.chain) \in Nat
         /\ DOMAIN Current.path = 1 .. Len(Current.access.chain)
<1>1. /\ accesses \in Seq(ProgramNodes) /\ \A k \in DOMAIN accesses : NodeOK(accesses[k])
      /\ Len(results) \in Nat
  BY LenProperties DEF IInv, AccessesOK, ResultsOK
<1>2. Len(results) + 1 \in DOMAIN accesses
  BY <1>1, LenProperties
<1>3. Current \in ProgramNodes /\ NodeOK(Current)
  BY <1>1, <1>2, ElementOfSeq, LenProperties DEF Current
<1>4. Current.access \in [name : Names, chain : Chains] /\ Current.path \in Seq(Members)
  BY <1>3 DEF ProgramNodes
<1>5. Len(Current.access.chain) \in Nat
  BY <1>4, AccessAssumption, LenProperties
<1>6. DOMAIN Current.path = 1 .. Len(Current.access.chain)
  BY <1>3, <1>4, LenProperties DEF NodeOK
<1> QED
  BY <1>2, <1>3, <1>4, <1>5, <1>6

LEMMA BeginCompileKeeps ==
  ASSUME IInv, BeginCompile
  PROVE  IInv'
<1>1. UNCHANGED <<symbolVars, accesses, results>> /\ stage' = "compile"
  BY DEF BeginCompile
<1>2. CheckOK' /\ LookupOK' /\ ResultsOK'
  BY <1>1 DEF CheckOK, LookupOK, ResultsOK, IInv
<1>3. TypesAgree' /\ SameMembers'
  BY <1>1, ResultsKept DEF TypesAgree, AllAgree
<1> QED
  BY <1>1, <1>2, <1>3, ProgramKept DEF IInv

\* The walk begins where the first one began, but for a function.
LEMMA BeginLookupKeeps ==
  ASSUME IInv, BeginLookup
  PROVE  IInv'
<1>1. /\ UNCHANGED <<symbolVars, accesses, results>> /\ stage' = "lookup"
      /\ Len(results) < Len(accesses) /\ access' = Current.access /\ at' = 0
      /\ reached' = IF IsFunctionName(Current.access.name) THEN NoType
                    ELSE Base(Current.access.name)
      /\ indices' = Leading(Current.access)
  BY DEF BeginLookup
<1>2. Current' = Current
  BY <1>1 DEF Current
<1>3. /\ NodeOK(Current) /\ Current.access \in [name : Names, chain : Chains]
      /\ Len(Current.access.chain) \in Nat
  BY <1>1, CurrentFacts
<1>4. Base(Current.access.name) \in Types
  BY <1>3, BaseType DEF NodeOK, AccessOK, IInv
<1>5. LookupOK'
  <2>1. /\ Leading(Current.access) \in Seq(Int)
        /\ Len(Leading(Current.access)) \in Nat
    <3>1. Leading(Current.access) \in Seq(Int)
      BY EmptySeq DEF Leading
    <3> QED
      BY <3>1, LenProperties
  <2>2. IsFunctionName(Current.access.name) => HasNoPlace(Current)
    BY DEF HasNoPlace
  <2>3. HasNoPlace(Current)' <=> HasNoPlace(Current)
    BY <1>1, <1>2, SameTable
  <2>4. TypeAt(access, Current.path, at)' = Base(Current.access.name)
    <3>1. TypeAt(Current.access, Current.path, 0) = Base(Current.access.name)
      BY DEF TypeAt
    <3> QED
      BY <3>1, <1>1, <1>2, SameTable
  <2>5. \A j \in 1 .. at' :
          GoesTo(Current, j, indices[Len(Leading(access)) + j])'
    BY <1>1
  <2>6. Len(indices') = Len(Leading(access')) + at'
    BY <1>1, <2>1
  <2>7. Len(results') < Len(accesses') /\ access' = Current'.access
        /\ at' \in Nat /\ at' <= Len(access'.chain)
        /\ reached' \in Types \union {NoType} /\ indices' \in Seq(Int)
    BY <1>1, <1>2, <1>3, <1>4, <2>1
  <2>8. \/ reached' = NoType /\ HasNoPlace(Current)'
        \/ reached' = TypeAt(access, Current.path, at)'
    BY <1>1, <2>2, <2>3, <2>4
  <2> QED
    BY <1>1, <2>5, <2>6, <2>7, <2>8 DEF LookupOK
<1>6. CheckOK' /\ ResultsOK'
  BY <1>1 DEF CheckOK, ResultsOK, IInv
<1>7. TypesAgree' /\ SameMembers'
  BY <1>1, ResultsKept DEF TypesAgree, AllAgree
<1> QED
  BY <1>1, <1>5, <1>6, <1>7, ProgramKept DEF IInv

\* Where the second walk stands, and what the first one had there.
LEMMA FollowsPath ==
  ASSUME IInv, LookingUp
  PROVE  /\ access = Current.access /\ Len(results) < Len(accesses)
         /\ at \in Nat /\ at + 1 \in DOMAIN Current.path /\ at + 1 <= Len(access.chain)
         /\ reached \in Types /\ indices \in Seq(Int)
         /\ Entry \in Entries
         /\ ~ SkipsAccessor(Current) =>
              /\ Len(indices) = Len(Leading(access)) + at
              /\ \A j \in 1 .. at : GoesTo(Current, j, indices[Len(Leading(access)) + j])
              /\ Current.path[at + 1] \in Members
              /\ MemberOK(reached, Entry, Current.path[at + 1])
<1>1. /\ stage = "lookup" /\ Len(results) < Len(accesses) /\ access = Current.access
      /\ at \in Nat /\ reached \in Types /\ indices \in Seq(Int)
      /\ ~ SkipsAccessor(Current) =>
           /\ reached = TypeAt(access, Current.path, at)
           /\ Len(indices) = Len(Leading(access)) + at
           /\ \A j \in 1 .. at : GoesTo(Current, j, indices[Len(Leading(access)) + j])
  BY DEF IInv, LookupOK, LookingUp
<1>2. /\ Current \in ProgramNodes /\ NodeOK(Current)
      /\ Current.access \in [name : Names, chain : Chains]
      /\ Len(Current.access.chain) \in Nat
      /\ DOMAIN Current.path = 1 .. Len(Current.access.chain)
  BY <1>1, CurrentFacts
<1>3. at + 1 \in DOMAIN Current.path /\ at + 1 <= Len(access.chain)
  BY <1>1, <1>2 DEF LookingUp, HasEntry
<1>4. access.chain \in Seq(Entries) /\ at + 1 \in 1 .. Len(access.chain)
  BY <1>1, <1>2, <1>3, AccessAssumption
<1>5. Entry \in Entries
  BY <1>4, ElementOfSeq DEF Entry
<1>6. Current.path \in Seq(Members) /\ Current.path[at + 1] \in Members
  <2>1. Current.path \in Seq(Members)
    BY <1>2 DEF ProgramNodes
  <2> QED
    BY <2>1, <1>3, ElementOfSeq, LenProperties
<1>7. MemberOK(TypeAt(access, Current.path, at), Entry, Current.path[at + 1])
  <2>1. (at + 1) - 1 = at
    BY <1>1
  <2> QED
    BY <2>1, <1>1, <1>2, <1>3 DEF NodeOK, PathOK, Entry
<1> QED
  BY <1>1, <1>3, <1>5, <1>6, <1>7

\* A step along the path, with the index that goes there or to what has no place.
LEMMA StepKeeps ==
  ASSUME IInv, LookingUp, NEW t \in Types \union {NoType}, NEW more \in Seq(Int),
         Step(t, more),
         ~ SkipsAccessor(Current) =>
           \/ t = NoType /\ HasNoPlace(Current)
           \/ /\ t = Current.path[at + 1].type
              /\ Len(more) = 1 /\ GoesTo(Current, at + 1, more[1])
  PROVE  IInv'
<1>1. /\ UNCHANGED <<symbolVars, stage, access, accesses, results>>
      /\ at' = at + 1 /\ reached' = t /\ indices' = indices \o more
  BY DEF Step
<1>2. Current' = Current /\ stage = "lookup"
  BY <1>1 DEF Current, LookingUp
<1>3. /\ access = Current.access /\ Len(results) < Len(accesses)
      /\ at \in Nat /\ at + 1 <= Len(access.chain) /\ indices \in Seq(Int)
      /\ ~ SkipsAccessor(Current) =>
           /\ Len(indices) = Len(Leading(access)) + at
           /\ \A j \in 1 .. at : GoesTo(Current, j, indices[Len(Leading(access)) + j])
  BY FollowsPath
<1> DEFINE before == Len(Leading(access))
<1>4. before \in Nat
  <2>1. Leading(access) \in Seq(Int)
    BY EmptySeq DEF Leading
  <2> QED
    BY <2>1, LenProperties
<1>5. /\ indices' \in Seq(Int) /\ Len(indices') = Len(indices) + Len(more)
      /\ Len(indices) \in Nat /\ Len(more) \in Nat
      /\ \A j \in 1 .. Len(indices) : indices'[j] = indices[j]
      /\ Len(more) = 1 => indices'[Len(indices) + 1] = more[1]
  <2>1. Len(indices) \in Nat /\ Len(more) \in Nat
    BY <1>3, LenProperties
  <2>2. /\ indices \o more \in Seq(Int) /\ Len(indices \o more) = Len(indices) + Len(more)
        /\ \A j \in 1 .. Len(indices) + Len(more) :
             (indices \o more)[j] = IF j <= Len(indices) THEN indices[j]
                                    ELSE more[j - Len(indices)]
    BY <1>3, ConcatProperties
  <2> QED
    BY <1>1, <2>1, <2>2
<1> HIDE DEF before
<1>6. ASSUME ~ SkipsAccessor(Current)
      PROVE  \/ reached' = NoType /\ HasNoPlace(Current)'
             \/ /\ reached' = TypeAt(access, Current.path, at)'
                /\ Len(indices') = Len(Leading(access')) + at'
                /\ \A j \in 1 .. at' :
                     GoesTo(Current, j, indices[Len(Leading(access)) + j])'
  <2>1. CASE t = NoType /\ HasNoPlace(Current)
    BY <2>1, <1>1, <1>2, SameTable
  <2>2. CASE /\ t = Current.path[at + 1].type
             /\ Len(more) = 1 /\ GoesTo(Current, at + 1, more[1])
    <3>1. TypeAt(access, Current.path, at + 1) = t
      BY <2>2, <1>3 DEF TypeAt
    <3>2. TypeAt(access, Current.path, at)' = t
      BY <3>1, <1>1, <1>2, SameTable
    <3>3. Len(indices') = before + (at + 1) /\ Len(indices) = before + at
      <4>1. Len(indices) = before + at
        BY <1>3, <1>6 DEF before
      <4> QED
        BY <4>1, <2>2, <1>3, <1>4, <1>5
    <3>4. ASSUME NEW j \in 1 .. at + 1
          PROVE  GoesTo(Current, j, indices'[before + j])
      <4>1. CASE j = at + 1
        <5>1. indices'[before + j] = more[1]
          BY <4>1, <3>3, <2>2, <1>3, <1>4, <1>5
        <5> QED
          BY <4>1, <5>1, <2>2
      <4>2. CASE j \in 1 .. at
        <5>1. indices'[before + j] = indices[before + j]
          BY <4>2, <3>3, <1>3, <1>4, <1>5
        <5> QED
          BY <4>2, <5>1, <1>3, <1>6 DEF before
      <4> QED
        BY <4>1, <4>2, <1>3
    <3>5. \A j \in 1 .. at' : GoesTo(Current, j, indices[Len(Leading(access)) + j])'
      BY <3>4, <1>1, <1>2, SameTable DEF before
    <3> QED
      BY <3>2, <3>3, <3>5, <1>1 DEF before
  <2> QED
    BY <2>1, <2>2, <1>6
<1>7. LookupOK'
  <2>1. Len(results') < Len(accesses') /\ access' = Current'.access
        /\ at' \in Nat /\ at' <= Len(access'.chain)
        /\ reached' \in Types \union {NoType} /\ indices' \in Seq(Int)
        /\ stage' = "lookup"
    BY <1>1, <1>2, <1>3, <1>5
  <2>2. SkipsAccessor(Current)' <=> SkipsAccessor(Current)
    BY <1>2 DEF SkipsAccessor
  <2> QED
    BY <2>1, <2>2, <1>6 DEF LookupOK
<1>8. CheckOK' /\ ResultsOK'
  BY <1>1, <1>2 DEF CheckOK, ResultsOK, IInv
<1>9. TypesAgree' /\ SameMembers'
  BY <1>1, <1>2, ResultsKept DEF TypesAgree, AllAgree
<1> QED
  BY <1>1, <1>7, <1>8, <1>9, ProgramKept DEF IInv

LEMMA LookupPointerKeeps ==
  ASSUME IInv, LookupPointer
  PROVE  IInv'
<1> DEFINE member == Current.path[at + 1]
<1>1. /\ LookingUp /\ IsPointer(reached)
      /\ \/ Entry.kind = "index" /\ Step(Pointee[reached], <<Int32(Entry.index)>>)
         \/ Entry.kind = "value" /\ Step(Pointee[reached], <<Computed>>)
  BY DEF LookupPointer
<1>2. Pointee[reached] \in Types
  BY <1>1, AccessAssumption DEF IsPointer
<1>3. ASSUME ~ SkipsAccessor(Current)
      PROVE  /\ member.kind = "pointer" /\ member.type = Pointee[reached]
             /\ Current.access.chain[at + 1] = Entry
  <2>1. MemberOK(reached, Entry, member) /\ access = Current.access
    BY <1>1, <1>3, FollowsPath
  <2>2. Entry.kind = "value" => Ordinals(reached, Entry) = {}
    BY DEF Ordinals
  <2> QED
    BY <2>1, <2>2, <1>1 DEF MemberOK, Entry
<1>4. CASE Entry.kind = "index" /\ Step(Pointee[reached], <<Int32(Entry.index)>>)
  <2>1. Entry.index \in Int /\ Int32(Entry.index) \in Int
    BY <1>1, <1>4, FollowsPath, Int32Type DEF Entries
  <2> DEFINE more == <<Int32(Entry.index)>>
  <2>2. more \in Seq(Int) /\ Len(more) = 1 /\ more[1] = Int32(Entry.index)
    BY <2>1
  <2>3. ASSUME ~ SkipsAccessor(Current)
        PROVE  GoesTo(Current, at + 1, Int32(Entry.index))
    BY <2>3, <1>3, <1>4, Int32Fits DEF GoesTo
  <2> HIDE DEF more
  <2>4. Step(Pointee[reached], more)
    BY <1>4 DEF more
  <2> QED
    BY <1>1, <1>2, <1>3, <2>2, <2>3, <2>4, StepKeeps
<1>5. CASE Entry.kind = "value" /\ Step(Pointee[reached], <<Computed>>)
  <2> DEFINE more == <<Computed>>
  <2>1. more \in Seq(Int) /\ Len(more) = 1 /\ more[1] = Computed
    BY AccessAssumption DEF Computed
  <2>2. ASSUME ~ SkipsAccessor(Current)
        PROVE  GoesTo(Current, at + 1, Computed)
    BY <2>2, <1>3, <1>5 DEF GoesTo
  <2> HIDE DEF more
  <2>3. Step(Pointee[reached], more)
    BY <1>5 DEF more
  <2> QED
    BY <1>1, <1>2, <1>3, <2>1, <2>2, <2>3, StepKeeps
<1> QED
  BY <1>1, <1>4, <1>5

\* The member that a name or an ordinal of a datatype stood for in the first walk.
LEMMA SameMember ==
  ASSUME IInv, LookingUp, ~ SkipsAccessor(Current),
         Entry.kind = "name" \/ (Entry.kind = "index" /\ ~ IsPointer(reached))
  PROVE  LET member == Current.path[at + 1] IN
         /\ member.kind \in {"field", "accessor"}
         /\ member.ordinal \in Ordinals(reached, Entry) /\ member.node = datatypes[reached]
         /\ PropertiesOf(member.node)[member.ordinal].kind = member.kind
         /\ PropertiesOf(member.node)[member.ordinal].type = member.type
         /\ member.kind = "accessor" => Entry.kind = "name" /\ HasNoPlace(Current)
<1> DEFINE member == Current.path[at + 1]
<1>1. MemberOK(reached, Entry, member) /\ access = Current.access
      /\ at + 1 \in DOMAIN Current.path
  BY FollowsPath
<1>2. member.kind # "pointer"
  BY <1>1 DEF MemberOK
<1>3. member.kind = "accessor" => Entry.kind = "name" /\ HasNoPlace(Current)
  BY <1>1 DEF SkipsAccessor, HasNoPlace, Entry
<1> QED
  BY <1>1, <1>2, <1>3 DEF MemberOK

\* The index of a field goes to its element.
LEMMA FieldStep ==
  ASSUME IInv, LookingUp, ~ SkipsAccessor(Current),
         Entry.kind = "name" \/ (Entry.kind = "index" /\ ~ IsPointer(reached)),
         NEW o \in Ordinals(reached, Entry)
  PROVE  /\ PropertiesOf(datatypes[reached])[o].type = Current.path[at + 1].type
         /\ PropertiesOf(datatypes[reached])[o].kind = "field" =>
              GoesTo(Current, at + 1, IndexOfField(datatypes[reached], o))
         /\ PropertiesOf(datatypes[reached])[o].kind # "field" =>
              Entry.kind = "name" /\ HasNoPlace(Current)
<1> DEFINE member == Current.path[at + 1]
<1> SymbolsOK /\ PropertiesOK
  BY DEF IInv
<1>1. /\ member.kind \in {"field", "accessor"}
      /\ member.ordinal \in Ordinals(reached, Entry) /\ member.node = datatypes[reached]
      /\ PropertiesOf(member.node)[member.ordinal].kind = member.kind
      /\ PropertiesOf(member.node)[member.ordinal].type = member.type
      /\ member.kind = "accessor" => Entry.kind = "name" /\ HasNoPlace(Current)
  BY SameMember
<1>2. member.ordinal = o /\ datatypes[reached] \in DOMAIN made
      /\ o \in DOMAIN PropertiesOf(datatypes[reached])
  BY <1>1, OneOrdinal
<1>3. (\A p \in 1 .. o - 1 : PropertiesOf(datatypes[reached])[p].type # Void)
        => IndexOfField(datatypes[reached], o) = ElementOf(datatypes[reached], o)
  BY <1>2, ElementIsIndex
<1>4. ASSUME member.kind = "field"
      PROVE  GoesTo(Current, at + 1, IndexOfField(datatypes[reached], o))
  BY <1>1, <1>2, <1>3, <1>4 DEF GoesTo
<1> QED
  BY <1>1, <1>2, <1>4

\* A field, by its name or its ordinal.
LEMMA FieldKeeps ==
  ASSUME IInv, LookingUp,
         Entry.kind = "name" \/ (Entry.kind = "index" /\ ~ IsPointer(reached)),
         NEW entry, ~ SkipsAccessor(Current) => entry = Entry,
         NEW o \in Ordinals(reached, entry),
         PropertiesOf(datatypes[reached])[o].kind = "field",
         Step(PropertiesOf(datatypes[reached])[o].type, <<IndexOfField(datatypes[reached], o)>>)
  PROVE  IInv'
<1> DEFINE t == PropertiesOf(datatypes[reached])[o].type
           more == <<IndexOfField(datatypes[reached], o)>>
<1> SymbolsOK /\ PropertiesOK
  BY DEF IInv
<1>1. /\ datatypes[reached] \in DOMAIN made /\ o \in DOMAIN PropertiesOf(datatypes[reached])
      /\ PropertiesOf(datatypes[reached])[o] \in Properties
  BY OneOrdinal
<1>2. t \in Types
  BY <1>1, PropertiesAssumption
<1>3. /\ more \in Seq(Int) /\ Len(more) = 1
      /\ more[1] = IndexOfField(datatypes[reached], o)
  BY <1>1, ElementIsIndex
<1>4. ~ SkipsAccessor(Current) =>
        /\ t = Current.path[at + 1].type
        /\ GoesTo(Current, at + 1, IndexOfField(datatypes[reached], o))
  BY FieldStep
<1>5. Step(t, more)
  OBVIOUS
<1> HIDE DEF t, more
<1> QED
  BY <1>2, <1>3, <1>4, <1>5, StepKeeps

LEMMA LookupNameKeeps ==
  ASSUME IInv, LookupName
  PROVE  IInv'
<1>1. LookingUp /\ Entry.kind = "name"
  BY DEF LookupName
<1>2. << >> \in Seq(Int)
  BY EmptySeq
<1>3. ASSUME NEW o \in Ordinals(reached, Entry),
             IF PropertiesOf(datatypes[reached])[o].kind = "field"
             THEN Step(PropertiesOf(datatypes[reached])[o].type,
                       <<IndexOfField(datatypes[reached], o)>>)
             ELSE Step(NoType, << >>)
      PROVE  IInv'
  <2>1. CASE PropertiesOf(datatypes[reached])[o].kind = "field"
    BY <1>1, <1>3, <2>1, FieldKeeps
  <2>2. CASE PropertiesOf(datatypes[reached])[o].kind # "field"
    <3>1. ~ SkipsAccessor(Current) => HasNoPlace(Current)
      BY <1>1, <2>2, FieldStep
    <3>2. Step(NoType, << >>)
      BY <1>3, <2>2
    <3> QED
      BY <1>1, <1>2, <3>1, <3>2, StepKeeps
  <2> QED
    BY <2>1, <2>2
<1>4. CASE Ordinals(reached, Entry) = {} /\ Step(NoType, << >>)
  <2>1. SkipsAccessor(Current)
    BY <1>1, <1>4, SameMember
  <2> QED
    BY <1>1, <1>2, <1>4, <2>1, StepKeeps
<1> QED
  BY <1>3, <1>4 DEF LookupName

LEMMA LookupOrdinalKeeps ==
  ASSUME IInv, LookupOrdinal
  PROVE  IInv'
<1> DEFINE entry == [Entry EXCEPT !.index = Int32(@)]
<1>1. LookingUp /\ Entry.kind = "index" /\ ~ IsPointer(reached) /\ reached \in DOMAIN datatypes
  BY DEF LookupOrdinal
<1>2. ~ SkipsAccessor(Current) => entry = Entry /\ Ordinals(reached, Entry) # {}
  <2> SUFFICES ASSUME ~ SkipsAccessor(Current)
               PROVE  entry = Entry /\ Ordinals(reached, Entry) # {}
    OBVIOUS
  <2>1. Current.path[at + 1].ordinal \in Ordinals(reached, Entry)
    BY <1>1, SameMember
  <2>2. Entry \in Entries
    BY <1>1, FollowsPath
  <2>3. Entry.index \in -HalfInt .. HalfInt - 1
    BY <1>1, <2>1, <2>2, AccessAssumption, PropertiesAssumption DEF Ordinals, Entries
  <2>4. Int32(Entry.index) = Entry.index
    BY <2>3, Int32Fits
  <2>5. entry = Entry
    BY <1>1, <2>2, <2>4 DEF Entries
  <2> QED
    BY <2>1, <2>5
<1> HIDE DEF entry
<1>3. << >> \in Seq(Int) /\ reached \in Types
  BY <1>1, EmptySeq, FollowsPath
<1>4. ASSUME NEW o \in Ordinals(reached, entry),
             IF PropertiesOf(datatypes[reached])[o].kind = "field"
             THEN Step(PropertiesOf(datatypes[reached])[o].type,
                       <<IndexOfField(datatypes[reached], o)>>)
             ELSE Step(reached, << >>)
      PROVE  IInv'
  <2>1. CASE PropertiesOf(datatypes[reached])[o].kind = "field"
    BY <1>1, <1>2, <1>4, <2>1, FieldKeeps
  <2>2. CASE PropertiesOf(datatypes[reached])[o].kind # "field"
    <3>1. SkipsAccessor(Current)
      BY <1>1, <1>2, <2>2, FieldStep
    <3>2. Step(reached, << >>)
      BY <1>4, <2>2
    <3> QED
      BY <1>1, <1>3, <3>1, <3>2, StepKeeps
  <2> QED
    BY <2>1, <2>2
<1>5. CASE Ordinals(reached, entry) = {} /\ Step(reached, << >>)
  <2>1. SkipsAccessor(Current)
    BY <1>2, <1>5
  <2> QED
    BY <1>1, <1>3, <1>5, <2>1, StepKeeps
<1>6. \/ \E o \in Ordinals(reached, entry) :
           IF PropertiesOf(datatypes[reached])[o].kind = "field"
           THEN Step(PropertiesOf(datatypes[reached])[o].type,
                     <<IndexOfField(datatypes[reached], o)>>)
           ELSE Step(reached, << >>)
      \/ Ordinals(reached, entry) = {} /\ Step(reached, << >>)
  BY DEF LookupOrdinal, entry
<1> QED
  BY <1>4, <1>5, <1>6

\* Only behind an accessor taken by its ordinal is there no datatype.
LEMMA LookupNoDatatypeKeeps ==
  ASSUME IInv, LookupNoDatatype
  PROVE  IInv'
<1> SymbolsOK /\ PropertiesOK
  BY DEF IInv
<1>1. /\ LookingUp /\ Entry.kind = "index" /\ ~ IsPointer(reached)
      /\ reached \notin DOMAIN datatypes /\ stage' = "undefined"
      /\ UNCHANGED <<symbolVars, walk, accesses, results>>
  BY DEF LookupNoDatatype
<1>2. SkipsAccessor(Current)
  BY <1>1, SameMember, OneOrdinal
<1>3. Current' = Current /\ (SkipsAccessor(Current)' <=> SkipsAccessor(Current))
  BY <1>1 DEF Current, SkipsAccessor
<1>4. LookupOK'
  <2>1. /\ Len(results) < Len(accesses) /\ access = Current.access
        /\ at \in Nat /\ at <= Len(access.chain)
        /\ reached \in Types \union {NoType} /\ indices \in Seq(Int)
    BY <1>1 DEF IInv, LookupOK, LookingUp
  <2> QED
    BY <2>1, <1>1, <1>2, <1>3 DEF LookupOK, walk
<1>5. CheckOK' /\ ResultsOK'
  BY <1>1 DEF CheckOK, ResultsOK, IInv
<1>6. TypesAgree' /\ SameMembers'
  BY <1>1, <1>2, <1>3, ResultsKept DEF TypesAgree, AllAgree
<1> QED
  BY <1>1, <1>4, <1>5, <1>6, ProgramKept DEF IInv

\* A result that agrees with its access is one more.
LEMMA ResultKeeps ==
  ASSUME IInv, Len(results) < Len(accesses), UNCHANGED <<symbolVars, accesses>>,
         NEW t \in Types \union {NoType, Threw}, NEW list \in Seq(Int),
         results' = Append(results, [type |-> t, indices |-> list]),
         stage' \in {"compile", "thrown"},
         ~ SkipsAccessor(Current) =>
           \/ t = NoType /\ HasNoPlace(Current)
           \/ /\ t = Current.type
              /\ Len(list) = Len(Leading(Current.access)) + Len(Current.path)
              /\ \A j \in DOMAIN Current.path :
                   GoesTo(Current, j, list[Len(Leading(Current.access)) + j])
  PROVE  IInv'
<1> DEFINE last == Len(results) + 1
           result == [type |-> t, indices |-> list]
<1>1. /\ results' \in Seq([type : Types \union {NoType, Threw}, indices : Seq(Int)])
      /\ Len(results') = last /\ results'[last] = result
      /\ \A k \in 1 .. Len(results) : results'[k] = results[k]
  BY AppendProperties DEF IInv, ResultsOK
<1>2. Len(results) \in Nat /\ DOMAIN results = 1 .. Len(results) /\ DOMAIN results' = 1 .. last
      /\ Len(accesses) \in Nat
  BY <1>1, LenProperties DEF IInv, ResultsOK, AccessesOK
<1>3. result.type = t /\ result.indices = list /\ accesses'[last] = Current
  BY DEF Current
<1> HIDE DEF last, result
<1>4. ResultsOK'
  <2>1. last <= Len(accesses')
    BY <1>2 DEF last
  <2> QED
    BY <2>1, <1>1 DEF ResultsOK
<1>5. \A k \in DOMAIN results' : k = last \/ (k \in DOMAIN results /\ results'[k] = results[k])
  BY <1>1, <1>2 DEF last
<1>6. TypesAgree'
  <2>1. ASSUME NEW k \in DOMAIN results'
        PROVE  \/ results'[k].type = accesses'[k].type
               \/ results'[k].type = NoType /\ HasNoPlace(accesses[k])'
               \/ SkipsAccessor(accesses[k])'
    <3>1. CASE k = last
      <4>1. accesses'[k] = Current /\ accesses[k] = Current /\ results'[k].type = t
        BY <3>1, <1>1, <1>3
      <4>2. HasNoPlace(accesses[k])' <=> HasNoPlace(accesses[k])
        BY SameTable
      <4>3. (t = NoType /\ HasNoPlace(Current)) \/ t = Current.type \/ SkipsAccessor(Current)
        OBVIOUS
      <4> QED
        BY <4>1, <4>2, <4>3
    <3>2. CASE k \in DOMAIN results /\ results'[k] = results[k]
      BY <3>2, SameTable DEF IInv, TypesAgree
    <3> QED
      BY <3>1, <3>2, <1>5
  <2>2. stage' # "undefined"
    OBVIOUS
  <2> QED
    BY <2>1, <2>2 DEF TypesAgree
<1>7. SameMembers'
  <2> SUFFICES ASSUME NEW k \in DOMAIN results', results'[k].type \in Types,
                      ~ SkipsAccessor(accesses'[k])
               PROVE  /\ Len(results'[k].indices)
                           = Len(Leading(accesses'[k].access)) + Len(accesses'[k].path)
                      /\ \A j \in DOMAIN accesses'[k].path :
                           GoesTo(accesses[k], j,
                                  results[k].indices[Len(Leading(accesses[k].access)) + j])'
    BY DEF SameMembers
  <2>1. CASE k = last
    <3>1. NoType \notin Types
      BY NoTypeAssumption
    <3>2. /\ Len(list) = Len(Leading(Current.access)) + Len(Current.path)
          /\ \A j \in DOMAIN Current.path :
               GoesTo(Current, j, list[Len(Leading(Current.access)) + j])
      BY <2>1, <3>1, <1>1, <1>3
    <3>3. accesses'[k] = Current /\ results'[k].indices = list
      BY <2>1, <1>1, <1>3
    <3> QED
      BY <3>2, <3>3, SameTable
  <2>2. CASE k \in DOMAIN results /\ results'[k] = results[k]
    BY <2>2, SameTable DEF IInv, SameMembers
  <2> QED
    BY <2>1, <2>2, <1>5
<1>8. CheckOK' /\ LookupOK'
  BY DEF CheckOK, LookupOK
<1> QED
  BY <1>4, <1>6, <1>7, <1>8, ProgramKept DEF IInv

LEMMA LookupThrowsKeeps ==
  ASSUME IInv, LookupThrows
  PROVE  IInv'
<1>1. /\ LookingUp /\ Entry.kind = "value" /\ ~ IsPointer(reached) /\ stage' = "thrown"
      /\ results' = Append(results, [type |-> Threw, indices |-> << >>])
      /\ UNCHANGED <<symbolVars, accesses>>
  BY DEF LookupThrows
<1>2. SkipsAccessor(Current)
  <2>1. ~ SkipsAccessor(Current) => MemberOK(reached, Entry, Current.path[at + 1])
    BY <1>1, FollowsPath
  <2>2. Ordinals(reached, Entry) = {}
    BY <1>1 DEF Ordinals
  <2> QED
    BY <2>1, <2>2, <1>1 DEF MemberOK
<1>3. Len(results) < Len(accesses) /\ << >> \in Seq(Int)
  BY <1>1, FollowsPath, EmptySeq
<1> QED
  BY <1>1, <1>2, <1>3, ResultKeeps

\* At its end the walk has come to the type of the access.
LEMMA EndLookupKeeps ==
  ASSUME IInv, EndLookup
  PROVE  IInv'
<1> DEFINE list == IF reached = NoType THEN << >> ELSE indices
<1>1. /\ stage = "lookup" /\ ~ LookingUp /\ stage' = "compile"
      /\ results' = Append(results, [type |-> reached, indices |-> list])
      /\ UNCHANGED <<symbolVars, accesses>>
  BY DEF EndLookup
<1>2. /\ Len(results) < Len(accesses) /\ access = Current.access
      /\ at \in Nat /\ at <= Len(access.chain)
      /\ reached \in Types \union {NoType} /\ indices \in Seq(Int)
      /\ ~ SkipsAccessor(Current) =>
           \/ reached = NoType /\ HasNoPlace(Current)
           \/ /\ reached = TypeAt(access, Current.path, at)
              /\ Len(indices) = Len(Leading(access)) + at
              /\ \A j \in 1 .. at : GoesTo(Current, j, indices[Len(Leading(access)) + j])
  BY <1>1 DEF IInv, LookupOK
<1>3. list \in Seq(Int)
  BY <1>2, EmptySeq
<1>4. ASSUME ~ SkipsAccessor(Current), ~ (reached = NoType /\ HasNoPlace(Current))
      PROVE  /\ reached = Current.type
             /\ Len(list) = Len(Leading(Current.access)) + Len(Current.path)
             /\ \A j \in DOMAIN Current.path :
                  GoesTo(Current, j, list[Len(Leading(Current.access)) + j])
  <2>1. /\ NodeOK(Current) /\ Current \in ProgramNodes
        /\ Len(Current.access.chain) \in Nat
        /\ DOMAIN Current.path = 1 .. Len(Current.access.chain)
    BY <1>2, CurrentFacts
  <2>2. reached # NoType
    <3>1. at = 0 \/ at \in DOMAIN Current.path
      BY <1>2, <2>1
    <3>2. Base(access.name) \in Types
      BY <1>2, <2>1, BaseType DEF IInv, NodeOK, AccessOK
    <3>3. at \in DOMAIN Current.path => Current.path[at].type \in Types
      <4>1. Current.path \in Seq(Members)
        BY <2>1 DEF ProgramNodes
      <4>2. at \in DOMAIN Current.path => Current.path[at] \in Members
        BY <4>1, ElementOfSeq, LenProperties
      <4> QED
        BY <4>2 DEF Members
    <3> QED
      BY <3>1, <3>2, <3>3, <1>2, <1>4, NoTypeAssumption DEF TypeAt
  <2>3. at = Len(Current.path) /\ at = Len(Current.access.chain)
    BY <1>1, <1>2, <2>1, <2>2 DEF LookingUp, HasEntry, NodeOK
  <2>4. reached = Current.type
    BY <1>2, <1>4, <2>1, <2>3 DEF NodeOK
  <2>5. list = indices
    BY <2>2
  <2> QED
    BY <1>2, <1>4, <2>1, <2>3, <2>4, <2>5
<1> HIDE DEF list
<1> QED
  BY <1>1, <1>2, <1>3, <1>4, ResultKeeps

-----------------------------------------------------------------------------
(* The other steps, and the invariant.                                      *)

LEMMA EndCompileKeeps ==
  ASSUME IInv, EndCompile
  PROVE  IInv'
<1>1. /\ UNCHANGED <<symbolVars, accesses>> /\ stage' = "define" /\ results' = << >>
  BY DEF EndCompile
<1>2. results' \in Seq([type : Types \union {NoType, Threw}, indices : Seq(Int)])
      /\ Len(results') = 0 /\ DOMAIN results' = {}
  BY <1>1, EmptySeq
<1>3. Len(accesses') \in Nat
  BY <1>1, LenProperties DEF IInv, AccessesOK
<1>4. CheckOK' /\ LookupOK' /\ ResultsOK' /\ TypesAgree' /\ SameMembers'
  BY <1>1, <1>2, <1>3 DEF CheckOK, LookupOK, ResultsOK, TypesAgree, SameMembers
<1> QED
  BY <1>1, <1>4, ProgramKept DEF IInv

LEMMA EndKeeps ==
  ASSUME IInv, End
  PROVE  IInv'
<1>1. SymbolsOK' /\ PropertiesOK' /\ NodesOwnedOnce'
  BY DeleteKeeps DEF End, IInv
<1>2. stage' = "ended" /\ accesses' = << >> /\ results' = << >>
  BY DEF End, IInv, ResultsOK
<1>3. /\ accesses' \in Seq(ProgramNodes) /\ Len(accesses') = 0 /\ DOMAIN accesses' = {}
      /\ results' \in Seq([type : Types \union {NoType, Threw}, indices : Seq(Int)])
      /\ Len(results') = 0 /\ DOMAIN results' = {}
  BY <1>2, EmptySeq
<1>4. AccessesOK' /\ CheckOK' /\ LookupOK' /\ ResultsOK' /\ TypesAgree' /\ SameMembers'
  BY <1>2, <1>3 DEF AccessesOK, CheckOK, LookupOK, ResultsOK, TypesAgree, SameMembers
<1> QED
  BY <1>1, <1>4 DEF IInv

\* Definitions come between compiles, and leave what was type checked as it was.
LEMMA DefinitionsKeep ==
  ASSUME IInv, Define
  PROVE  IInv'
<1>1. SymbolsOK' /\ PropertiesOK' /\ NodesOwnedOnce' /\ Grown
  BY DefineKeeps DEF IInv
<1>2. stage' = "define" /\ UNCHANGED <<accesses, results>> /\ results = << >>
  BY DEF Define, IInv, ResultsOK
<1>3. AccessesOK'
  <2>1. \A node : NodeOK(node) => NodeOK(node)'
    BY <1>1, NodeKept DEF IInv
  <2> QED
    BY <1>2, <2>1 DEF IInv, AccessesOK
<1>4. CheckOK' /\ LookupOK' /\ ResultsOK' /\ TypesAgree' /\ SameMembers'
  <2>1. DOMAIN results' = {}
    BY <1>2
  <2> QED
    BY <1>2, <2>1 DEF CheckOK, LookupOK, ResultsOK, TypesAgree, SameMembers, IInv
<1> QED
  BY <1>1, <1>3, <1>4 DEF IInv

LEMMA InitHolds == Init => IInv
<1> SUFFICES ASSUME Init PROVE IInv
  OBVIOUS
<1>1. /\ made = << >> /\ freed = {} /\ symbols = << >> /\ datatypes = << >>
      /\ stage = "define" /\ accesses = << >> /\ results = << >>
  BY DEF Init, SymbolsInit
<1>2. /\ DOMAIN made = {} /\ DOMAIN symbols = {} /\ DOMAIN datatypes = {}
      /\ DOMAIN accesses = {} /\ DOMAIN results = {}
      /\ made \in Seq(Nodes) /\ symbols \in Seq(Symbols) /\ accesses \in Seq(ProgramNodes)
      /\ results \in Seq([type : Types \union {NoType, Threw}, indices : Seq(Int)])
      /\ Len(results) <= Len(accesses)
  BY <1>1, EmptySeq
<1>3. datatypes \in [DOMAIN datatypes -> DOMAIN made]
  BY <1>1
<1>4. SymbolsOK /\ PropertiesOK /\ NodesOwnedOnce
  BY <1>1, <1>2, <1>3 DEF SymbolsOK, PropertiesOK, NodesOwnedOnce
<1> QED
  BY <1>1, <1>2, <1>4
     DEF IInv, AccessesOK, CheckOK, LookupOK, ResultsOK, TypesAgree, SameMembers

LEMMA StepsKeep == IInv /\ [Next]_vars => IInv'
<1> SUFFICES ASSUME IInv, [Next]_vars PROVE IInv'
  OBVIOUS
<1>1. CASE Define
  BY <1>1, DefinitionsKeep
<1>2. CASE \E name \in Names, chain \in Chains : BeginCheck(name, chain)
  BY <1>2, BeginCheckKeeps
<1>3. CASE CheckPointer
  BY <1>3, CheckPointerKeeps
<1>4. CASE CheckMember
  BY <1>4, CheckMemberKeeps
<1>5. CASE CheckNothing
  BY <1>5, CheckNothingKeeps
<1>6. CASE EndCheck
  BY <1>6, EndCheckKeeps
<1>7. CASE BeginCompile
  BY <1>7, BeginCompileKeeps
<1>8. CASE BeginLookup
  BY <1>8, BeginLookupKeeps
<1>9. CASE LookupPointer
  BY <1>9, LookupPointerKeeps
<1>10. CASE LookupName
  BY <1>10, LookupNameKeeps
<1>11. CASE LookupOrdinal
  BY <1>11, LookupOrdinalKeeps
<1>12. CASE LookupNoDatatype
  BY <1>12, LookupNoDatatypeKeeps
<1>13. CASE LookupThrows
  BY <1>13, LookupThrowsKeeps
<1>14. CASE EndLookup
  BY <1>14, EndLookupKeeps
<1>15. CASE EndCompile
  BY <1>15, EndCompileKeeps
<1>16. CASE End
  BY <1>16, EndKeeps
<1>17. CASE UNCHANGED vars
  <2>1. UNCHANGED <<symbolVars, stage, walk, accesses, results>>
    BY <1>17 DEF vars
  <2>2. CheckOK' /\ LookupOK' /\ ResultsOK'
    <3>1. CheckOK'
      BY <2>1, SameTable DEF CheckOK, walk, IInv
    <3>2. Current' = Current
      BY <2>1 DEF Current
    <3>3. LookupOK'
      BY <2>1, <3>2, SameTable DEF LookupOK, walk, IInv
    <3> QED
      BY <2>1, <3>1, <3>3 DEF ResultsOK, IInv
  <2>3. TypesAgree' /\ SameMembers'
    <3>1. Current' = Current
      BY <2>1 DEF Current
    <3> QED
      BY <2>1, <3>1, ResultsKept DEF TypesAgree, AllAgree, IInv
  <2> QED
    BY <2>1, <2>2, <2>3, ProgramKept DEF IInv
<1> QED
  BY <1>1, <1>2, <1>3, <1>4, <1>5, <1>6, <1>7, <1>8, <1>9, <1>10, <1>11, <1>12, <1>13,
     <1>14, <1>15, <1>16, <1>17 DEF Next

\* The invariant, for any number of nodes, properties, chains and compiles.
THEOREM AccessInvariantHolds == Spec => []IInv
BY InitHolds, StepsKeep, PTL DEF Spec

\* Each node of a module is deleted once, and no lookup finds one that is gone.
THEOREM NodesAreOwnedOnce == Spec => []NodesOwnedOnce
<1>1. IInv => NodesOwnedOnce
  BY DEF IInv
<1> QED
  BY <1>1, AccessInvariantHolds, PTL

\* lookup_compile_variable comes to the type that type_check_variable_access gave, in
\* any later compile.
THEOREM TypesOfTheWalksAgree == Spec => []TypesAgree
<1>1. IInv => TypesAgree
  BY DEF IInv
<1> QED
  BY <1>1, AccessInvariantHolds, PTL

\* The indices of a getelementptr go to the members that were type checked.
THEOREM IndicesGoToTheMembers == Spec => []SameMembers
<1>1. IInv => SameMembers
  BY DEF IInv
<1> QED
  BY <1>1, AccessInvariantHolds, PTL
=============================================================================
