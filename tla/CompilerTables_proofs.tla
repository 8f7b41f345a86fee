------------------------ MODULE CompilerTables_proofs ------------------------
(***************************************************************************)
(* Proofs about the tables of a compiler, for every set of texts and names *)
(* of types, every list of numeric types and every number of calls: IInv   *)
(* (module TablesInvariant) holds initially and is preserved by each       *)
(* action.                                                                 *)
(***************************************************************************)
EXTENDS TablesInvariant, StackLemmas

-----------------------------------------------------------------------------
(* Tables and the memory they view.                                         *)

\* The views of which a table has the memory.
Owned(t) == {entry.key : entry \in t.names} \cup {t.types[r].key : r \in DOMAIN t.types}

\* Nothing a table has is in buffer b.
Unowned(t, b) == \A view \in Owned(t) : view.size # 0 => view.at # b

\* What was registered still is, under the same references and with the same contents.
Extends(t, u) ==
  /\ \A text \in DOMAIN t.strings : text \in DOMAIN u.strings /\ u.strings[text] = t.strings[text]
  /\ t.names \subseteq u.names
  /\ \A r \in DOMAIN t.types : r \in DOMAIN u.types /\ u.types[r] = t.types[r]
  /\ \A view \in Owned(t) : Content(u, view) = Content(t, view)

\* The tables over other memory.
WithBuffers(t, buffers) == [t EXCEPT !.buffers = buffers]

LEMMA Fields ==
  ASSUME NEW t, TablesTyped(t)
  PROVE  /\ t.room \in Nat /\ t.buffers \in Seq(Seq(Int)) /\ t.names \subseteq [key : Views, value : Views]
         /\ t.types \in Seq([name : Nat, specs : Views, key : Views])
         /\ DOMAIN t.buffers = 1 .. Len(t.buffers) /\ Len(t.buffers) \in Nat
         /\ DOMAIN t.types = 1 .. Len(t.types) /\ Len(t.types) \in Nat
         /\ \A r \in DOMAIN t.types : t.types[r] \in [name : Nat, specs : Views, key : Views]
<1>1. /\ t.room \in Nat /\ t.buffers \in Seq(Seq(Int)) /\ t.names \subseteq [key : Views, value : Views]
      /\ t.types \in Seq([name : Nat, specs : Views, key : Views])
  BY DEF TablesTyped
<1> QED
  BY <1>1, LenProperties, ElementOfSeq

LEMMA OwnedViews ==
  ASSUME NEW t, TablesOK(t), NEW view \in Owned(t)
  PROVE  view \in Views /\ Live(t, view)
<1>1. \A entry \in t.names : entry.key \in Views
  BY Fields DEF TablesOK
<1>2. \A r \in DOMAIN t.types : t.types[r].key \in Views
  BY Fields DEF TablesOK
<1> QED
  BY <1>1, <1>2 DEF TablesOK, NamesApart, TypesApart, Owned

LEMMA ExtendsReflexive ==
  ASSUME NEW t
  PROVE  Extends(t, t)
  BY DEF Extends

LEMMA ExtendsOwned ==
  ASSUME NEW t, NEW u, Extends(t, u)
  PROVE  Owned(t) \subseteq Owned(u)
  BY DEF Extends, Owned

LEMMA ExtendsTransitive ==
  ASSUME NEW t, NEW u, NEW v, Extends(t, u), Extends(u, v)
  PROVE  Extends(t, v)
<1>1. Owned(t) \subseteq Owned(u)
  BY ExtendsOwned
<1> QED
  BY <1>1 DEF Extends

\* Where memory changes that no table has, the tables are as they were.
LEMMA BuffersChange ==
  ASSUME NEW t, TablesOK(t), NEW B \in Seq(Seq(Int)),
         \A view \in Owned(t) : view.size # 0 => view.at \in DOMAIN B /\ B[view.at] = t.buffers[view.at]
  PROVE  /\ TablesOK(WithBuffers(t, B)) /\ Extends(t, WithBuffers(t, B))
         /\ WithBuffers(t, B).buffers = B /\ WithBuffers(t, B).strings = t.strings
         /\ WithBuffers(t, B).room = t.room
         /\ WithBuffers(t, B).names = t.names /\ WithBuffers(t, B).types = t.types
         /\ Owned(WithBuffers(t, B)) = Owned(t)
<1> DEFINE u == WithBuffers(t, B)
<1>1. /\ u.buffers = B /\ u.strings = t.strings /\ u.room = t.room /\ u.names = t.names /\ u.types = t.types
  BY DEF WithBuffers, TablesOK, TablesTyped
<1>2. TablesTyped(u)
  BY <1>1 DEF WithBuffers, TablesOK, TablesTyped
<1> HIDE DEF u
<1>3. Owned(u) = Owned(t)
  BY <1>1 DEF Owned
<1>4. \A view \in Owned(t) : Content(u, view) = Content(t, view) /\ Live(u, view)
  <2> TAKE view \in Owned(t)
  <2>1. view \in Views /\ Live(t, view)
    BY OwnedViews
  <2> QED
    BY <1>1, <2>1 DEF Content, Live
<1>5. StringsApart(u) /\ \A text : StringOf(u, text) = StringOf(t, text)
  BY <1>1 DEF TablesOK, StringsApart, StringOf
<1>6. NamesApart(u)
  <2>1. \A entry \in t.names : entry.key \in Owned(t)
    BY DEF Owned
  <2> QED
    BY <1>1, <1>4, <2>1 DEF TablesOK, NamesApart
<1>7. TypesApart(u)
  <2>1. \A r \in DOMAIN t.types : t.types[r].key \in Owned(t)
    BY DEF Owned
  <2> QED
    BY <1>1, <1>4, <1>5, <2>1 DEF TablesOK, TypesApart
<1>8. Extends(t, u)
  BY <1>1, <1>4 DEF Extends
<1> QED
  BY <1>1, <1>2, <1>3, <1>5, <1>6, <1>7, <1>8 DEF TablesOK, u

\* What is freed reads as nothing that was written.
LEMMA FreedIsNot == Freed \notin Seq(Nat)
<1>1. Freed[1] = -1 /\ Len(Freed) = 1
  BY DEF Freed
<1>2. ASSUME Freed \in Seq(Nat) PROVE Freed[1] \in Nat
  BY <1>1, <1>2, ElementOfSeq
<1> QED
  BY <1>1, <1>2

\* The place for the next vector is nobody's.
LEMMA NextBufferFacts ==
  ASSUME NEW t, TablesOK(t)
  PROVE  /\ NextBuffer(t) \in 1 .. Len(t.buffers) + 1
         /\ NextBuffer(t) \in DOMAIN t.buffers => t.buffers[NextBuffer(t)] = Freed
         /\ Unowned(t, NextBuffer(t))
<1>1. DOMAIN t.buffers = 1 .. Len(t.buffers) /\ Len(t.buffers) \in Nat
  BY Fields DEF TablesOK
<1> DEFINE free == {b \in DOMAIN t.buffers : t.buffers[b] = Freed} \cup {Len(t.buffers) + 1}
<1>2. free \in SUBSET Nat /\ free # {}
  BY <1>1
<1>3. NextBuffer(t) \in free
  BY <1>2, MinFacts DEF NextBuffer
<1>4. NextBuffer(t) \in 1 .. Len(t.buffers) + 1
      /\ (NextBuffer(t) \in DOMAIN t.buffers => t.buffers[NextBuffer(t)] = Freed)
  BY <1>1, <1>3
<1>5. ASSUME NEW view \in Owned(t), view.size # 0 PROVE view.at # NextBuffer(t)
  <2>1. view.at \in DOMAIN t.buffers /\ t.buffers[view.at] \in Seq(Nat)
    BY <1>5, OwnedViews DEF Live
  <2> QED
    BY <1>4, <2>1, FreedIsNot
<1> QED
  BY <1>4, <1>5 DEF Unowned

\* A vector that is made.
LEMMA StoreFacts ==
  ASSUME NEW t, TablesOK(t), NEW content \in Seq(Nat)
  PROVE  /\ TablesOK(Store(t, content)) /\ Extends(t, Store(t, content))
         /\ NextBuffer(t) \in DOMAIN Store(t, content).buffers
         /\ Store(t, content).buffers[NextBuffer(t)] = content
         /\ \A b \in DOMAIN t.buffers : b # NextBuffer(t) =>
              b \in DOMAIN Store(t, content).buffers /\ Store(t, content).buffers[b] = t.buffers[b]
         /\ Store(t, content).strings = t.strings /\ Store(t, content).room = t.room
         /\ Store(t, content).names = t.names /\ Store(t, content).types = t.types
         /\ Owned(Store(t, content)) = Owned(t)
<1>1. /\ t.buffers \in Seq(Seq(Int)) /\ DOMAIN t.buffers = 1 .. Len(t.buffers)
  BY Fields DEF TablesOK
<1>2. PICK n \in Nat : n = Len(t.buffers)
  BY Fields DEF TablesOK
<1>3. PICK b \in 1 .. n + 1 : b = NextBuffer(t)
  BY <1>2, NextBufferFacts
<1> DEFINE B == IF b > n THEN Append(t.buffers, content) ELSE [t.buffers EXCEPT ![b] = content]
<1>4. content \in Seq(Int)
  OBVIOUS
<1>5. /\ B \in Seq(Seq(Int)) /\ b \in DOMAIN B /\ B[b] = content
      /\ \A c \in DOMAIN t.buffers : c # b => c \in DOMAIN B /\ B[c] = t.buffers[c]
  <2>1. CASE b > n
    <3>1. b = n + 1 /\ B = Append(t.buffers, content)
      BY <1>3, <2>1
    <3> QED
      BY <1>1, <1>2, <1>4, <3>1, AppendProperties
  <2>2. CASE ~(b > n)
    <3>1. b \in DOMAIN t.buffers /\ B = [t.buffers EXCEPT ![b] = content]
      BY <1>1, <1>2, <1>3, <2>2
    <3>2. B \in Seq(Seq(Int)) /\ DOMAIN B = DOMAIN t.buffers
      BY <1>1, <1>4, <3>1, ExceptSeq
    <3> QED
      BY <3>1, <3>2
  <2> QED
    BY <2>1, <2>2
<1>6. Store(t, content) = WithBuffers(t, B)
  BY <1>2, <1>3 DEF Store, WithBuffers
<1>7. \A view \in Owned(t) : view.size # 0 => view.at \in DOMAIN B /\ B[view.at] = t.buffers[view.at]
  <2>1. SUFFICES ASSUME NEW view \in Owned(t), view.size # 0
                 PROVE  view.at \in DOMAIN B /\ B[view.at] = t.buffers[view.at]
    OBVIOUS
  <2>2. view.at \in DOMAIN t.buffers
    BY <2>1, OwnedViews DEF Live
  <2>3. view.at # b
    BY <1>3, <2>1, NextBufferFacts DEF Unowned
  <2> QED
    BY <1>5, <2>2, <2>3
<1> HIDE DEF B
<1>8. /\ TablesOK(Store(t, content)) /\ Extends(t, Store(t, content))
      /\ Store(t, content).buffers = B
      /\ Store(t, content).strings = t.strings /\ Store(t, content).room = t.room
      /\ Store(t, content).names = t.names /\ Store(t, content).types = t.types
      /\ Owned(Store(t, content)) = Owned(t)
  BY <1>5, <1>6, <1>7, BuffersChange
<1> QED
  BY <1>3, <1>5, <1>8

\* A vector that is freed.
LEMMA DropFacts ==
  ASSUME NEW t, TablesOK(t), NEW b \in DOMAIN t.buffers, Unowned(t, b)
  PROVE  /\ TablesOK(Drop(t, b)) /\ Extends(t, Drop(t, b))
         /\ Drop(t, b).strings = t.strings /\ Drop(t, b).names = t.names /\ Drop(t, b).types = t.types
<1>1. t.buffers \in Seq(Seq(Int)) /\ Freed \in Seq(Int)
  BY Fields DEF TablesOK, Freed
<1> DEFINE B == [t.buffers EXCEPT ![b] = Freed]
<1>2. B \in Seq(Seq(Int)) /\ DOMAIN B = DOMAIN t.buffers
  BY <1>1, ExceptSeq
<1>3. Drop(t, b) = WithBuffers(t, B)
  BY DEF Drop, WithBuffers
<1>4. \A view \in Owned(t) : view.size # 0 => view.at \in DOMAIN B /\ B[view.at] = t.buffers[view.at]
  BY <1>2, OwnedViews DEF Live, Unowned
<1> HIDE DEF B
<1> QED
  BY <1>2, <1>3, <1>4, BuffersChange

-----------------------------------------------------------------------------
(* Strings.                                                                 *)

\* A list of texts.
IsList(texts) == texts \in Seq(ToSet(texts))

LEMMA ListFacts ==
  ASSUME NEW texts, IsList(texts)
  PROVE  /\ DOMAIN texts = 1 .. Len(texts) /\ Len(texts) \in Nat
         /\ \A i \in DOMAIN texts : texts[i] \in ToSet(texts)
         /\ \A text \in ToSet(texts) : \E i \in DOMAIN texts : texts[i] = text
  BY DEF IsList, ToSet

LEMMA FirstInFacts ==
  ASSUME NEW texts, IsList(texts), NEW text \in ToSet(texts)
  PROVE  FirstIn(texts, text) \in 1 .. Len(texts) /\ texts[FirstIn(texts, text)] = text
<1>1. DOMAIN texts = 1 .. Len(texts) /\ Len(texts) \in Nat
  BY ListFacts
<1> DEFINE at == {i \in DOMAIN texts : texts[i] = text}
<1>2. at \in SUBSET Nat /\ at # {}
  BY <1>1, ListFacts
<1>3. Min(at) \in at /\ \A i \in at : Min(at) <= i
  BY <1>2, MinFacts
<1>4. \E i \in DOMAIN texts : texts[i] = text /\ \A j \in 1 .. i - 1 : texts[j] # text
  <2>1. Min(at) \in DOMAIN texts /\ texts[Min(at)] = text
    BY <1>3
  <2>2. PICK m \in 1 .. Len(texts) : m = Min(at)
    BY <1>1, <2>1
  <2>3. ASSUME NEW j \in 1 .. m - 1 PROVE texts[j] # text
    <3>1. j \in DOMAIN texts /\ ~ (m <= j)
      BY <1>1
    <3> QED
      BY <1>3, <2>2, <3>1
  <2> QED
    BY <2>1, <2>2, <2>3
<1> QED
  BY <1>1, <1>4 DEF FirstIn

LEMMA RegisterStringsFacts ==
  ASSUME NEW t, TablesOK(t), NEW texts, IsList(texts)
  PROVE  /\ TablesOK(RegisterStrings(t, texts)) /\ Extends(t, RegisterStrings(t, texts))
         /\ \A i \in DOMAIN texts : Registered(RegisterStrings(t, texts), texts[i])
         /\ RegisterStrings(t, texts).buffers = t.buffers
         /\ RegisterStrings(t, texts).names = t.names /\ RegisterStrings(t, texts).types = t.types
<1> DEFINE u == RegisterStrings(t, texts)
           new == NewIn(t, texts)
           n == Len(texts)
<1>1. /\ u.strings = [text \in DOMAIN t.strings \cup new |->
                       IF text \in DOMAIN t.strings THEN t.strings[text] ELSE t.room + FirstIn(texts, text)]
      /\ u.room = IF new = {} THEN t.room ELSE t.room + n
      /\ u.buffers = t.buffers /\ u.names = t.names /\ u.types = t.types
      /\ u = [strings |-> u.strings, room |-> u.room, buffers |-> u.buffers, names |-> u.names, types |-> u.types]
  BY DEF RegisterStrings
<1>2. /\ new \subseteq ToSet(texts) /\ Empty \notin new /\ new \cap DOMAIN t.strings = {}
      /\ ToSet(texts) \subseteq new \cup DOMAIN t.strings \cup {Empty}
  BY DEF NewIn
<1>3. n \in Nat /\ t.room \in Nat
  BY ListFacts, Fields DEF TablesOK
<1>4. \A text \in new : FirstIn(texts, text) \in 1 .. n /\ texts[FirstIn(texts, text)] = text
  BY <1>2, FirstInFacts
<1>5. TablesTyped(u)
  <2>1. u.room \in Nat
    BY <1>1, <1>3
  <2> QED
    BY <1>1, <2>1, Fields DEF TablesOK, TablesTyped
<1> HIDE DEF u, new, n
<1>6. \A text \in DOMAIN t.strings : text \in DOMAIN u.strings /\ u.strings[text] = t.strings[text]
  BY <1>1
<1>7. \A text \in new : text \in DOMAIN u.strings /\ u.strings[text] = t.room + FirstIn(texts, text)
  BY <1>1, <1>2
<1>8. \A text \in DOMAIN t.strings : t.strings[text] \in 1 .. t.room
  BY DEF TablesOK, StringsApart
<1>9. StringsApart(u)
  <2>1. u.strings = [text \in DOMAIN u.strings |-> u.strings[text]] /\ Empty \notin DOMAIN u.strings
    BY <1>1, <1>2 DEF TablesOK, StringsApart
  <2>2. ASSUME NEW text \in DOMAIN u.strings PROVE u.strings[text] \in 1 .. u.room
    BY <1>1, <1>3, <1>4, <1>6, <1>7, <1>8, <2>2
  <2>3. ASSUME NEW v \in DOMAIN u.strings, NEW w \in DOMAIN u.strings, u.strings[v] = u.strings[w]
        PROVE  v = w
    <3>1. v \in DOMAIN t.strings \cup new /\ w \in DOMAIN t.strings \cup new
      BY <1>1
    <3>2. CASE v \in DOMAIN t.strings /\ w \in DOMAIN t.strings
      BY <1>6, <2>3, <3>2 DEF TablesOK, StringsApart
    <3>3. CASE v \in DOMAIN t.strings /\ w \in new
      BY <1>3, <1>4, <1>6, <1>7, <1>8, <2>3, <3>3
    <3>4. CASE v \in new /\ w \in DOMAIN t.strings
      BY <1>3, <1>4, <1>6, <1>7, <1>8, <2>3, <3>4
    <3>5. CASE v \in new /\ w \in new
      <4>1. FirstIn(texts, v) = FirstIn(texts, w)
        BY <1>3, <1>4, <1>7, <2>3, <3>5
      <4> QED
        BY <1>4, <3>5, <4>1
    <3> QED
      BY <3>1, <3>2, <3>3, <3>4, <3>5
  <2> QED
    BY <2>1, <2>2, <2>3 DEF StringsApart
<1>10. Owned(u) = Owned(t) /\ \A view : Content(u, view) = Content(t, view) /\ (Live(t, view) => Live(u, view))
  BY <1>1 DEF Owned, Content, Live
<1>11. NamesApart(u)
  BY <1>1, <1>10 DEF TablesOK, NamesApart
<1>12. \A text \in {Empty} \cup DOMAIN t.strings :
         text \in {Empty} \cup DOMAIN u.strings /\ StringOf(u, text) = StringOf(t, text)
  BY <1>6, <1>9 DEF StringOf, StringsApart, TablesOK
<1>13. TypesApart(u)
  <2>1. ASSUME NEW r \in DOMAIN u.types
        PROVE  \E text \in {Empty} \cup DOMAIN u.strings : StringOf(u, text) = u.types[r].name
    BY <1>1, <1>12 DEF TablesOK, TypesApart
  <2> QED
    BY <1>1, <1>10, <2>1 DEF TablesOK, TypesApart
<1>14. Extends(t, u)
  BY <1>1, <1>6, <1>10 DEF Extends
<1>15. \A i \in DOMAIN texts : Registered(u, texts[i])
  BY <1>1, <1>2, ListFacts DEF Registered
<1> QED
  BY <1>1, <1>5, <1>9, <1>11, <1>13, <1>14, <1>15 DEF TablesOK, u

\* Two texts that are registered have the same address only if they are the same.
LEMMA StringOfFacts ==
  ASSUME NEW t, TablesOK(t)
  PROVE  /\ \A text : StringOf(t, text) \in Nat
         /\ \A v, w : Registered(t, v) /\ Registered(t, w) /\ StringOf(t, v) = StringOf(t, w) => v = w
  BY Fields DEF TablesOK, StringsApart, StringOf, Registered

\* What is registered keeps its address.
LEMMA StringsStay ==
  ASSUME NEW t, NEW u, TablesOK(u), Extends(t, u), NEW text, Registered(t, text)
  PROVE  Registered(u, text) /\ StringOf(u, text) = StringOf(t, text)
  BY DEF Extends, Registered, StringOf, TablesOK, StringsApart

-----------------------------------------------------------------------------
(* Names.                                                                   *)

LEMMA LiveContent ==
  ASSUME NEW t, NEW view \in Views, Live(t, view)
  PROVE  Content(t, view) \in Seq(Nat) /\ Len(Content(t, view)) = view.size
<1>1. CASE view.size = 0
  BY <1>1 DEF Content
<1>2. CASE view.size # 0
  BY <1>2 DEF Content, Live
<1> QED
  BY <1>1, <1>2

\* The view of a whole vector reads as the vector.
LEMMA ViewFacts ==
  ASSUME NEW t, NEW b \in DOMAIN t.buffers, b \in Nat, t.buffers[b] \in Seq(Nat)
  PROVE  /\ View(b, Len(t.buffers[b])) \in Views /\ Live(t, View(b, Len(t.buffers[b])))
         /\ View(b, Len(t.buffers[b])).size = Len(t.buffers[b])
         /\ Content(t, View(b, Len(t.buffers[b]))) = t.buffers[b]
         /\ View(b, Len(t.buffers[b])).size # 0 => View(b, Len(t.buffers[b])).at = b
<1>1. PICK n \in Nat : n = Len(t.buffers[b])
  BY LenProperties
<1>2. n = 0 => t.buffers[b] = << >>
  BY <1>1, EmptySeq
<1>3. /\ View(b, n) \in Views /\ View(b, n).size = n /\ (n # 0 => View(b, n).at = b)
      /\ (n = 0 => View(b, n).at = 0)
  BY DEF View, Views
<1> QED
  BY <1>1, <1>2, <1>3 DEF Content, Live

\* An entry of the name table, for a name that is in none.
WithName(t, name) == [t EXCEPT !.names = @ \cup {[key |-> name, value |-> name]}]

LEMMA WithNameFacts ==
  ASSUME NEW t, TablesOK(t), NEW name \in Views, Live(t, name),
         \A entry \in t.names : Content(t, entry.key) # Content(t, name)
  PROVE  /\ TablesOK(WithName(t, name)) /\ Extends(t, WithName(t, name))
         /\ WithName(t, name).buffers = t.buffers /\ WithName(t, name).strings = t.strings
         /\ Owned(WithName(t, name)) = Owned(t) \cup {name}
         /\ WithName(t, name).names = t.names \cup {[key |-> name, value |-> name]}
<1> DEFINE new == [key |-> name, value |-> name]
           u == WithName(t, name)
<1>1. /\ u.names = t.names \cup {new} /\ u.buffers = t.buffers /\ u.strings = t.strings
      /\ u.room = t.room /\ u.types = t.types
  BY DEF WithName, TablesOK, TablesTyped
<1>2. new \in [key : Views, value : Views] /\ new.key = name /\ new.value = name
  OBVIOUS
<1>3. TablesTyped(u)
  <2>1. t.names \cup {new} \in SUBSET [key : Views, value : Views]
    BY <1>2, Fields DEF TablesOK
  <2> QED
    BY <1>1, <2>1 DEF TablesOK, TablesTyped, WithName
<1> HIDE DEF u, new
<1>4. \A view : Content(u, view) = Content(t, view) /\ (Live(t, view) <=> Live(u, view))
  BY <1>1 DEF Content, Live
<1>5. NamesApart(u)
  <2>1. \A entry \in u.names : entry.key = entry.value /\ Live(u, entry.key)
    BY <1>1, <1>2, <1>4 DEF TablesOK, NamesApart
  <2>2. \A e, f \in u.names : Content(t, e.key) = Content(t, f.key) => e = f
    BY <1>1, <1>2 DEF TablesOK, NamesApart
  <2> QED
    BY <1>4, <2>1, <2>2 DEF NamesApart
<1>6. StringsApart(u) /\ \A text : StringOf(u, text) = StringOf(t, text)
  BY <1>1 DEF TablesOK, StringsApart, StringOf
<1>7. TypesApart(u)
  BY <1>1, <1>4, <1>6 DEF TablesOK, TypesApart
<1>8. Owned(u) = Owned(t) \cup {name}
  BY <1>1, <1>2 DEF Owned
<1>9. Extends(t, u)
  BY <1>1, <1>4 DEF Extends
<1> QED
  BY <1>1, <1>3, <1>5, <1>6, <1>7, <1>8, <1>9 DEF TablesOK, u, new

\* register_name of a buffer gives the entry of its content, and lets go of nothing.
LEMMA NameOfFacts ==
  ASSUME NEW t, TablesOK(t), NEW b \in DOMAIN t.buffers, t.buffers[b] \in Seq(Nat), Unowned(t, b),
         NEW n, n = Len(t.buffers[b])
  PROVE  LET u   == NameOf(t, View(b, n)).tables
             ref == NameOf(t, View(b, n)).ref
         IN  /\ TablesOK(u) /\ Extends(t, u) /\ b \in DOMAIN u.buffers /\ Unowned(u, b)
             /\ \E entry \in u.names : entry.value = ref
             /\ Content(u, ref) = t.buffers[b] /\ u.strings = t.strings
<1> DEFINE view == View(b, n)
           content == t.buffers[b]
           found == FindName(t, view)
<1>1. /\ view \in Views /\ view.size = n /\ Content(t, view) = content /\ n \in Nat /\ b \in Nat
  BY ViewFacts, LenProperties, Fields DEF TablesOK
<1> HIDE DEF view, content
<1>2. CASE found # {}
  <2>1. PICK entry \in found : entry = CHOOSE e \in found : TRUE
    BY <1>2
  <2>2. NameOf(t, view) = [tables |-> t, ref |-> entry.value]
    BY <1>2, <2>1 DEF NameOf
  <2>3. entry \in t.names /\ Content(t, entry.key) = content /\ entry.key = entry.value
    BY <1>1, <2>1 DEF FindName, TablesOK, NamesApart
  <2> QED
    BY <2>2, <2>3, ExtendsReflexive DEF view, content
<1>3. CASE found = {}
  <2> DEFINE w    == Store(t, content)
             at   == NextBuffer(t)
             name == View(at, n)
  <2>1. /\ TablesOK(w) /\ Extends(t, w) /\ at \in DOMAIN w.buffers /\ w.buffers[at] = content
        /\ (b # at => b \in DOMAIN w.buffers) /\ w.names = t.names /\ w.strings = t.strings
        /\ Owned(w) = Owned(t)
    BY StoreFacts DEF content
  <2>2. NameOf(t, view) = [tables |-> WithName(w, name), ref |-> name]
    BY <1>1, <1>3 DEF NameOf, InsertName, WithName
  <2>3. at # b
    <3>1. content # Freed
      BY FreedIsNot DEF content
    <3> QED
      BY <3>1, NextBufferFacts DEF content
  <2>4. at \in Nat
    BY NextBufferFacts, Fields DEF TablesOK
  <2> HIDE DEF w, at
  <2>5. /\ name \in Views /\ Live(w, name) /\ Content(w, name) = content
        /\ (name.size # 0 => name.at = at)
    BY <2>1, <2>4, ViewFacts DEF content
  <2>6. ASSUME NEW entry \in w.names PROVE Content(w, entry.key) # Content(w, name)
    <3>1. entry \in t.names /\ entry.key \in Owned(t)
      BY <2>1, <2>6 DEF Owned
    <3>2. Content(w, entry.key) = Content(t, entry.key) /\ Len(Content(t, entry.key)) = entry.key.size
      BY <2>1, <3>1, OwnedViews, LiveContent DEF Extends
    <3>3. entry.key.size = n => Content(t, entry.key) # content
      BY <1>1, <1>3, <3>1 DEF FindName
    <3> QED
      BY <2>5, <3>2, <3>3 DEF content
  <2> HIDE DEF name
  <2> DEFINE u == WithName(w, name)
  <2>7. /\ TablesOK(u) /\ Extends(w, u) /\ u.buffers = w.buffers /\ u.strings = w.strings
        /\ Owned(u) = Owned(w) \cup {name} /\ u.names = w.names \cup {[key |-> name, value |-> name]}
    BY <2>1, <2>5, <2>6, WithNameFacts
  <2> HIDE DEF u
  <2>8. Extends(t, u)
    BY <2>1, <2>7, ExtendsTransitive
  <2>9. Unowned(u, b) /\ b \in DOMAIN u.buffers
    BY <2>1, <2>3, <2>5, <2>7 DEF Unowned
  <2>10. \E entry \in u.names : entry.value = name
    <3>1. [key |-> name, value |-> name] \in u.names
      BY <2>7
    <3> QED
      BY <3>1
  <2>11. Content(u, name) = content
    <3>1. Content(u, name) = Content(w, name)
      BY <2>7 DEF Content
    <3> QED
      BY <2>5, <3>1
  <2> QED
    BY <2>1, <2>2, <2>7, <2>8, <2>9, <2>10, <2>11 DEF u, view, content
<1> QED
  BY <1>2, <1>3

LEMMA StringsOfFacts ==
  ASSUME NEW t, TablesOK(t), NEW texts, IsList(texts)
  PROVE  /\ StringsOf(t, texts) \in Seq(Nat) /\ Len(StringsOf(t, texts)) = Len(texts)
         /\ DOMAIN StringsOf(t, texts) = DOMAIN texts
         /\ \A i \in DOMAIN texts : StringsOf(t, texts)[i] = StringOf(t, texts[i])
<1>1. PICK n \in Nat : n = Len(texts) /\ DOMAIN texts = 1 .. n
  BY ListFacts
<1>2. StringsOf(t, texts) = [i \in 1 .. n |-> StringOf(t, texts[i])]
  BY <1>1 DEF StringsOf
<1>3. \A i \in 1 .. n : StringOf(t, texts[i]) \in Nat
  BY StringOfFacts
<1>4. StringsOf(t, texts) \in Seq(Nat) /\ Len(StringsOf(t, texts)) = n
  BY <1>2, <1>3, IsASeq
<1> QED
  BY <1>1, <1>2, <1>4

LEMMA ReleasedName ==
  ASSUME NEW t, NEW view, NEW b
  PROVE  /\ Released(NameOf(t, view), b).tables = Drop(NameOf(t, view).tables, b)
         /\ Released(NameOf(t, view), b).ref = NameOf(t, view).ref
<1>1. PICK u, ref : NameOf(t, view) = [tables |-> u, ref |-> ref]
  BY DEF NameOf, InsertName
<1> QED
  BY <1>1 DEF Released

\* register_name gives the name of the texts.
LEMMA RegisterNameFacts ==
  ASSUME NEW t, TablesOK(t), NEW texts, IsList(texts)
  PROVE  /\ TablesOK(RegisterName(t, texts).tables) /\ Extends(t, RegisterName(t, texts).tables)
         /\ IsName(RegisterName(t, texts).tables, RegisterName(t, texts).ref, texts)
<1> DEFINE u == RegisterStrings(t, texts)
           b == NextBuffer(u)
           content == StringsOf(u, texts)
           v == Store(u, content)
           view == View(b, Len(texts))
           w == NameOf(v, view).tables
           ref == NameOf(v, view).ref
           x == Drop(w, b)
<1>1. RegisterName(t, texts).tables = x /\ RegisterName(t, texts).ref = ref
  BY ReleasedName DEF RegisterName, NameOver
<1>2. /\ TablesOK(u) /\ Extends(t, u) /\ \A i \in DOMAIN texts : Registered(u, texts[i])
  BY RegisterStringsFacts
<1> HIDE DEF u
<1>3. content \in Seq(Nat) /\ Len(content) = Len(texts)
  BY <1>2, StringsOfFacts
<1> HIDE DEF content
<1>4. TablesOK(v) /\ Extends(u, v) /\ b \in DOMAIN v.buffers /\ v.buffers[b] = content /\ v.strings = u.strings
      /\ Owned(v) = Owned(u)
  BY <1>2, <1>3, StoreFacts
<1>5. Unowned(v, b)
  BY <1>2, <1>4, NextBufferFacts DEF Unowned
<1> HIDE DEF v, b
<1>6. /\ TablesOK(w) /\ Extends(v, w) /\ b \in DOMAIN w.buffers /\ Unowned(w, b)
      /\ \E entry \in w.names : entry.value = ref
      /\ Content(w, ref) = content /\ w.strings = v.strings
  BY <1>3, <1>4, <1>5, NameOfFacts
<1> HIDE DEF w, ref, view
<1>7. /\ TablesOK(x) /\ Extends(w, x) /\ x.strings = w.strings /\ x.names = w.names
  BY <1>6, DropFacts
<1> HIDE DEF x
<1>8. ref \in Owned(w)
  BY <1>6 DEF Owned, TablesOK, NamesApart
<1>9. Content(x, ref) = content
  BY <1>6, <1>7, <1>8 DEF Extends
<1>10. Extends(t, x)
  BY <1>2, <1>4, <1>6, <1>7, ExtendsTransitive
<1>11. /\ \A i \in DOMAIN texts : Registered(x, texts[i])
       /\ StringsOf(x, texts) = StringsOf(u, texts)
  BY <1>2, <1>4, <1>6, <1>7 DEF Registered, StringsOf, StringOf
<1>12. IsName(x, ref, texts)
  BY <1>6, <1>7, <1>9, <1>11 DEF IsName, content
<1> QED
  BY <1>1, <1>7, <1>10, <1>12

\* A name stays the name of its texts.
LEMMA NameStays ==
  ASSUME NEW t, TablesOK(t), NEW u, TablesOK(u), Extends(t, u), NEW ref, NEW texts, IsName(t, ref, texts)
  PROVE  IsName(u, ref, texts)
<1>1. PICK entry \in t.names : entry.value = ref /\ entry.key = ref
  BY DEF IsName, TablesOK, NamesApart
<1>2. entry \in u.names /\ ref \in Owned(t)
  BY <1>1 DEF Extends, Owned
<1>3. Content(u, ref) = Content(t, ref)
  BY <1>2 DEF Extends
<1>4. \A i \in DOMAIN texts : Registered(u, texts[i]) /\ StringOf(u, texts[i]) = StringOf(t, texts[i])
  BY StringsStay DEF IsName
<1>5. StringsOf(u, texts) = StringsOf(t, texts)
  BY <1>4 DEF StringsOf
<1> QED
  BY <1>1, <1>2, <1>3, <1>4, <1>5 DEF IsName

\* Texts have one name, and a name has one list of texts.
LEMMA NamesAreOne ==
  ASSUME NEW t, TablesOK(t), NEW m, NEW n, NEW v, NEW w, IsList(v), IsList(w), IsName(t, m, v), IsName(t, n, w)
  PROVE  m = n <=> v = w
<1>1. ASSUME v = w PROVE m = n
  <2>1. Content(t, m) = Content(t, n)
    BY <1>1 DEF IsName
  <2>2. PICK e \in t.names, f \in t.names : e.value = m /\ f.value = n /\ e.key = m /\ f.key = n
    BY DEF IsName, TablesOK, NamesApart
  <2>3. e = f
    BY <2>1, <2>2 DEF TablesOK, NamesApart
  <2> QED
    BY <2>2, <2>3
<1>2. ASSUME m = n PROVE v = w
  <2>1. StringsOf(t, v) = StringsOf(t, w)
    BY <1>2 DEF IsName
  <2>2. DOMAIN v = DOMAIN w /\ \A i \in DOMAIN v : StringOf(t, v[i]) = StringOf(t, w[i])
    BY <2>1, StringsOfFacts
  <2>3. \A i \in DOMAIN v : v[i] = w[i]
    BY <2>2, StringOfFacts DEF IsName
  <2>4. /\ v = [i \in DOMAIN v |-> v[i]] /\ w = [i \in DOMAIN w |-> w[i]]
    BY DEF IsList
  <2> QED
    BY <2>2, <2>3, <2>4
<1> QED
  BY <1>1, <1>2

-----------------------------------------------------------------------------
(* Types.                                                                   *)

\* A type_ref, for a type that there is none of.
WithType(t, type) == [t EXCEPT !.types = Append(@, type)]

LEMMA WithTypeFacts ==
  ASSUME NEW t, TablesOK(t), NEW view \in Views, Live(t, view), NEW text, Registered(t, text),
         ToSet(Content(t, view)) \subseteq DOMAIN t.types, NEW type,
         type \in [name : {StringOf(t, text)}, specs : {view}, key : {view}],
         \A r \in DOMAIN t.types :
           t.types[r].name = StringOf(t, text) => Content(t, t.types[r].key) # Content(t, view)
  PROVE  /\ TablesOK(WithType(t, type)) /\ Extends(t, WithType(t, type))
         /\ WithType(t, type).buffers = t.buffers /\ WithType(t, type).strings = t.strings
         /\ Owned(WithType(t, type)) = Owned(t) \cup {view}
         /\ Len(t.types) + 1 \in DOMAIN WithType(t, type).types
         /\ WithType(t, type).types[Len(t.types) + 1] = type
<1> DEFINE u == WithType(t, type)
<1>1. /\ u.types = Append(t.types, type) /\ u.buffers = t.buffers /\ u.strings = t.strings
      /\ u.room = t.room /\ u.names = t.names
  BY DEF WithType, TablesOK, TablesTyped
<1>2. StringOf(t, text) \in Nat
  BY StringOfFacts
<1>3. /\ type \in [name : Nat, specs : Views, key : Views] /\ type.name = StringOf(t, text)
      /\ type.specs = view /\ type.key = view
  BY <1>2
<1>4. PICK n \in Nat : n = Len(t.types)
  BY Fields DEF TablesOK
<1>5. DOMAIN t.types = 1 .. n
  BY <1>4, Fields DEF TablesOK
<1>6. /\ Append(t.types, type) \in Seq([name : Nat, specs : Views, key : Views])
      /\ Len(Append(t.types, type)) = n + 1
      /\ \A r \in 1 .. n : Append(t.types, type)[r] = t.types[r]
      /\ Append(t.types, type)[n + 1] = type
  <2>1. t.types \in Seq([name : Nat, specs : Views, key : Views])
    BY Fields DEF TablesOK
  <2>2. type \in [name : Nat, specs : Views, key : Views]
    BY <1>3
  <2> QED
    BY <1>4, <2>1, <2>2, AppendProperties
<1>7. TablesTyped(u)
  BY <1>1, <1>6 DEF TablesOK, TablesTyped, WithType
<1>8. DOMAIN u.types = 1 .. n + 1 /\ (\A r \in 1 .. n : u.types[r] = t.types[r]) /\ u.types[n + 1] = type
  <2>1. u.types \in Seq([name : Nat, specs : Views, key : Views]) /\ Len(u.types) = n + 1
    BY <1>1, <1>6
  <2> QED
    BY <1>1, <1>6, <2>1
<1> HIDE DEF u
<1>9. \A v : Content(u, v) = Content(t, v) /\ (Live(t, v) <=> Live(u, v))
  BY <1>1 DEF Content, Live
<1>10. StringsApart(u) /\ \A s : StringOf(u, s) = StringOf(t, s)
  BY <1>1 DEF TablesOK, StringsApart, StringOf
<1>11. NamesApart(u)
  BY <1>1, <1>9 DEF TablesOK, NamesApart
<1>12. TypesApart(u)
  <2>1. ASSUME NEW r \in DOMAIN u.types
        PROVE  /\ u.types[r].specs = u.types[r].key /\ Live(u, u.types[r].key)
               /\ ToSet(Content(u, u.types[r].key)) \subseteq 1 .. r - 1
               /\ \E s \in {Empty} \cup DOMAIN u.strings : StringOf(u, s) = u.types[r].name
    <3>1. CASE r \in 1 .. n
      BY <1>1, <1>5, <1>8, <1>9, <1>10, <3>1 DEF TablesOK, TypesApart
    <3>2. CASE r = n + 1
      <4>1. 1 .. r - 1 = DOMAIN t.types
        BY <1>5, <3>2
      <4>2. text \in {Empty} \cup DOMAIN u.strings
        BY <1>1 DEF Registered
      <4>3. u.types[r] = type
        BY <1>8, <3>2
      <4> QED
        BY <1>3, <1>9, <1>10, <4>1, <4>2, <4>3
    <3> QED
      BY <1>8, <3>1, <3>2
  <2>2. ASSUME NEW q \in 1 .. n, u.types[q].name = type.name,
               Content(u, u.types[q].key) = Content(u, type.key)
        PROVE  FALSE
    BY <1>3, <1>5, <1>8, <1>9, <2>2
  <2>3. ASSUME NEW q \in DOMAIN u.types, NEW r \in DOMAIN u.types, u.types[q].name = u.types[r].name,
               Content(u, u.types[q].key) = Content(u, u.types[r].key)
        PROVE  q = r
    <3>1. CASE q \in 1 .. n /\ r \in 1 .. n
      BY <1>5, <1>8, <1>9, <2>3, <3>1 DEF TablesOK, TypesApart
    <3>2. CASE q \in 1 .. n /\ r = n + 1
      BY <1>8, <2>2, <2>3, <3>2
    <3>3. CASE q = n + 1 /\ r \in 1 .. n
      BY <1>8, <2>2, <2>3, <3>3
    <3> QED
      BY <1>8, <3>1, <3>2, <3>3
  <2> QED
    BY <2>1, <2>3 DEF TypesApart
<1>13. Owned(u) = Owned(t) \cup {view}
  <2>1. {u.types[r].key : r \in DOMAIN u.types} = {t.types[r].key : r \in DOMAIN t.types} \cup {view}
    <3>1. \A r \in 1 .. n + 1 : r \in 1 .. n \/ r = n + 1
      BY TopOrBelow
    <3>2. n + 1 \in DOMAIN u.types /\ DOMAIN t.types \subseteq DOMAIN u.types
      BY <1>5, <1>8
    <3> QED
      BY <1>3, <1>5, <1>8, <3>1, <3>2
  <2> QED
    BY <1>1, <2>1 DEF Owned
<1>14. Extends(t, u)
  BY <1>1, <1>5, <1>8, <1>9 DEF Extends
<1> QED
  BY <1>1, <1>4, <1>7, <1>8, <1>10, <1>11, <1>12, <1>13, <1>14 DEF TablesOK, u

\* get_type_ref of a buffer gives the type of this name and this content.
LEMMA TypeOfFacts ==
  ASSUME NEW t, TablesOK(t), NEW b \in DOMAIN t.buffers, t.buffers[b] \in Seq(Nat), Unowned(t, b),
         NEW n, n = Len(t.buffers[b]), NEW text, Registered(t, text),
         ToSet(t.buffers[b]) \subseteq DOMAIN t.types
  PROVE  LET u   == TypeOf(t, StringOf(t, text), View(b, n)).tables
             ref == TypeOf(t, StringOf(t, text), View(b, n)).ref
         IN  /\ TablesOK(u) /\ Extends(t, u) /\ b \in DOMAIN u.buffers /\ Unowned(u, b)
             /\ ref \in DOMAIN u.types /\ u.types[ref].name = StringOf(t, text)
             /\ Content(u, u.types[ref].specs) = t.buffers[b] /\ u.strings = t.strings
<1> DEFINE view == View(b, n)
           content == t.buffers[b]
           name == StringOf(t, text)
           found == FindType(t, name, view)
<1>1. /\ view \in Views /\ view.size = n /\ Content(t, view) = content /\ n \in Nat /\ b \in Nat
  BY ViewFacts, LenProperties, Fields DEF TablesOK
<1> HIDE DEF view, content, name
<1>2. CASE found # {}
  <2>1. PICK r \in found : r = CHOOSE q \in found : TRUE
    BY <1>2
  <2>2. TypeOf(t, name, view) = [tables |-> t, ref |-> r]
    BY <1>2, <2>1 DEF TypeOf
  <2>3. r \in DOMAIN t.types /\ t.types[r].name = name /\ Content(t, t.types[r].specs) = content
    BY <1>1, <2>1 DEF FindType, TablesOK, TypesApart
  <2> QED
    BY <2>2, <2>3, ExtendsReflexive DEF view, content, name
<1>3. CASE found = {}
  <2> DEFINE w    == Store(t, content)
             at   == NextBuffer(t)
             specs == View(at, n)
             type == [name |-> name, specs |-> specs, key |-> specs]
  <2>1. /\ TablesOK(w) /\ Extends(t, w) /\ at \in DOMAIN w.buffers /\ w.buffers[at] = content
        /\ (b # at => b \in DOMAIN w.buffers) /\ w.types = t.types /\ w.strings = t.strings
        /\ Owned(w) = Owned(t)
    BY StoreFacts DEF content
  <2>2. TypeOf(t, name, view) = [tables |-> WithType(w, type), ref |-> Len(w.types) + 1]
    BY <1>1, <1>3, <2>1 DEF TypeOf, InsertType, WithType
  <2>3. at # b
    <3>1. content # Freed
      BY FreedIsNot DEF content
    <3> QED
      BY <3>1, NextBufferFacts DEF content
  <2>4. at \in Nat
    BY NextBufferFacts, Fields DEF TablesOK
  <2> HIDE DEF w, at
  <2>5. /\ specs \in Views /\ Live(w, specs) /\ Content(w, specs) = content
        /\ (specs.size # 0 => specs.at = at)
    BY <2>1, <2>4, ViewFacts DEF content
  <2>6. ASSUME NEW r \in DOMAIN w.types, w.types[r].name = name
        PROVE  Content(w, w.types[r].key) # Content(w, specs)
    <3>1. r \in DOMAIN t.types /\ t.types[r].key \in Owned(t) /\ w.types[r].key = t.types[r].key
      BY <2>1, <2>6 DEF Owned
    <3>2. /\ Content(w, t.types[r].key) = Content(t, t.types[r].key)
          /\ Len(Content(t, t.types[r].key)) = t.types[r].key.size
      BY <2>1, <3>1, OwnedViews, LiveContent DEF Extends
    <3>3. t.types[r].key.size = n => Content(t, t.types[r].key) # content
      BY <1>1, <1>3, <2>1, <2>6, <3>1 DEF FindType
    <3> QED
      BY <2>5, <3>1, <3>2, <3>3 DEF content
  <2>7. /\ StringOf(w, text) = name /\ Registered(w, text) /\ ToSet(Content(w, specs)) \subseteq DOMAIN w.types
    BY <2>1, <2>5 DEF name, StringOf, Registered, content
  <2>8. type \in [name : {StringOf(w, text)}, specs : {specs}, key : {specs}] /\ type.name = name /\ type.specs = specs
    BY <2>7
  <2> HIDE DEF specs, type
  <2> DEFINE u == WithType(w, type)
  <2>9. /\ TablesOK(u) /\ Extends(w, u) /\ u.buffers = w.buffers /\ u.strings = w.strings
        /\ Owned(u) = Owned(w) \cup {specs}
        /\ Len(w.types) + 1 \in DOMAIN u.types /\ u.types[Len(w.types) + 1] = type
    BY <2>1, <2>5, <2>6, <2>7, <2>8, WithTypeFacts
  <2> HIDE DEF u
  <2>10. Extends(t, u)
    BY <2>1, <2>9, ExtendsTransitive
  <2>11. Unowned(u, b) /\ b \in DOMAIN u.buffers
    BY <2>1, <2>3, <2>5, <2>9 DEF Unowned
  <2>12. Content(u, specs) = content
    <3>1. Content(u, specs) = Content(w, specs)
      BY <2>9 DEF Content
    <3> QED
      BY <2>5, <3>1
  <2> QED
    BY <2>1, <2>2, <2>8, <2>9, <2>10, <2>11, <2>12 DEF u, view, content, name
<1> QED
  BY <1>2, <1>3

LEMMA ReleasedType ==
  ASSUME NEW t, NEW name, NEW view, NEW b
  PROVE  /\ Released(TypeOf(t, name, view), b).tables = Drop(TypeOf(t, name, view).tables, b)
         /\ Released(TypeOf(t, name, view), b).ref = TypeOf(t, name, view).ref
<1>1. PICK u, ref : TypeOf(t, name, view) = [tables |-> u, ref |-> ref]
  BY DEF TypeOf
<1> QED
  BY <1>1 DEF Released

LEMMA ShortSeqs ==
  ASSUME NEW S, NEW x \in S, NEW y \in S, NEW z \in S
  PROVE  /\ <<x>> \in Seq(S) /\ <<x, y>> \in Seq(S) /\ <<x, y, z>> \in Seq(S)
         /\ Len(<<x>>) = 1 /\ Len(<<x, y>>) = 2 /\ Len(<<x, y, z>>) = 3
OBVIOUS

LEMMA OneText ==
  ASSUME NEW text
  PROVE  IsList(<<text>>) /\ DOMAIN <<text>> = {1} /\ <<text>>[1] = text
<1>1. ToSet(<<text>>) = {text}
  BY DEF ToSet
<1> QED
  BY <1>1 DEF IsList

\* register_str gives a text its address.
LEMMA RegisterStringFacts ==
  ASSUME NEW t, TablesOK(t), NEW text
  PROVE  /\ TablesOK(RegisterString(t, text)) /\ Extends(t, RegisterString(t, text))
         /\ Registered(RegisterString(t, text), text)
         /\ RegisterString(t, text).types = t.types
  BY OneText, RegisterStringsFacts DEF RegisterString

\* get_type_ref gives the type of the text and the specializations.
LEMMA GetTypeRefFacts ==
  ASSUME NEW t, TablesOK(t), NEW text, NEW specs \in Seq(Nat), ToSet(specs) \subseteq DOMAIN t.types
  PROVE  /\ TablesOK(GetTypeRef(t, text, specs).tables) /\ Extends(t, GetTypeRef(t, text, specs).tables)
         /\ IsType(GetTypeRef(t, text, specs).tables, GetTypeRef(t, text, specs).ref, text, specs)
<1> DEFINE u == RegisterString(t, text)
           b == NextBuffer(u)
           v == Store(u, specs)
           view == View(b, Len(specs))
           name == StringOf(u, text)
           w == TypeOf(v, name, view).tables
           ref == TypeOf(v, name, view).ref
           x == Drop(w, b)
<1>1. GetTypeRef(t, text, specs).tables = x /\ GetTypeRef(t, text, specs).ref = ref
  <2>1. GetTypeRef(t, text, specs) = TypeOver(u, text, specs)
    BY DEF GetTypeRef
  <2>2. TypeOver(u, text, specs) = Released(TypeOf(v, name, view), b)
    BY DEF TypeOver
  <2> QED
    BY <2>1, <2>2, ReleasedType
<1>2. /\ TablesOK(u) /\ Extends(t, u) /\ Registered(u, text) /\ u.types = t.types
  BY RegisterStringFacts
<1> HIDE DEF u
<1>3. TablesOK(v) /\ Extends(u, v) /\ b \in DOMAIN v.buffers /\ v.buffers[b] = specs /\ v.strings = u.strings
      /\ Owned(v) = Owned(u) /\ v.types = u.types
  BY <1>2, StoreFacts
<1>4. Unowned(v, b)
  BY <1>2, <1>3, NextBufferFacts DEF Unowned
<1>5. name = StringOf(v, text) /\ Registered(v, text)
  BY <1>2, <1>3 DEF Registered, StringOf
<1> HIDE DEF v, b, name
<1>6. /\ TablesOK(w) /\ Extends(v, w) /\ b \in DOMAIN w.buffers /\ Unowned(w, b)
      /\ ref \in DOMAIN w.types /\ w.types[ref].name = name
      /\ Content(w, w.types[ref].specs) = specs /\ w.strings = v.strings
  BY <1>2, <1>3, <1>4, <1>5, TypeOfFacts
<1> HIDE DEF w, ref, view
<1>7. /\ TablesOK(x) /\ Extends(w, x) /\ x.strings = w.strings /\ x.types = w.types
  BY <1>6, DropFacts
<1> HIDE DEF x
<1>8. w.types[ref].specs \in Owned(w)
  BY <1>6 DEF Owned, TablesOK, TypesApart
<1>9. Content(x, x.types[ref].specs) = specs
  BY <1>6, <1>7, <1>8 DEF Extends
<1>10. Extends(t, x)
  BY <1>2, <1>3, <1>6, <1>7, ExtendsTransitive
<1>11. Registered(x, text) /\ StringOf(x, text) = name
  BY <1>5, <1>6, <1>7 DEF Registered, StringOf
<1>12. IsType(x, ref, text, specs)
  BY <1>6, <1>7, <1>9, <1>11 DEF IsType
<1> QED
  BY <1>1, <1>7, <1>10, <1>12

\* A type stays what it is.
LEMMA TypeStays ==
  ASSUME NEW t, TablesOK(t), NEW u, TablesOK(u), Extends(t, u), NEW ref, NEW text, NEW specs,
         IsType(t, ref, text, specs)
  PROVE  IsType(u, ref, text, specs)
<1>1. /\ ref \in DOMAIN t.types /\ t.types[ref].specs = t.types[ref].key
      /\ ref \in DOMAIN u.types /\ u.types[ref] = t.types[ref]
  BY DEF IsType, TablesOK, TypesApart, Extends
<1>2. t.types[ref].specs \in Owned(t)
  BY <1>1 DEF Owned
<1>3. Content(u, u.types[ref].specs) = Content(t, t.types[ref].specs)
  BY <1>1, <1>2 DEF Extends
<1>4. Registered(u, text) /\ StringOf(u, text) = StringOf(t, text)
  BY StringsStay DEF IsType
<1> QED
  BY <1>1, <1>3, <1>4 DEF IsType

\* There is one type of a name and specializations, and a type has one of each.
LEMMA TypesAreOne ==
  ASSUME NEW t, TablesOK(t), NEW q, NEW r, NEW v, NEW w, NEW x, NEW y,
         IsType(t, q, v, x), IsType(t, r, w, y)
  PROVE  q = r <=> v = w /\ x = y
<1>1. /\ q \in DOMAIN t.types /\ t.types[q].name = StringOf(t, v) /\ Content(t, t.types[q].key) = x
      /\ Registered(t, v)
  BY DEF IsType, TablesOK, TypesApart
<1>2. /\ r \in DOMAIN t.types /\ t.types[r].name = StringOf(t, w) /\ Content(t, t.types[r].key) = y
      /\ Registered(t, w)
  BY DEF IsType, TablesOK, TypesApart
<1>3. StringOf(t, v) = StringOf(t, w) => v = w
  BY <1>1, <1>2, StringOfFacts
<1>4. v = w /\ x = y => q = r
  BY <1>1, <1>2 DEF TablesOK, TypesApart
<1> QED
  BY <1>1, <1>2, <1>3, <1>4

-----------------------------------------------------------------------------
(* What clients were handed.                                                *)

\* Where the tables grow, what was handed out before is as it was.
LEMMA HandedStays ==
  ASSUME TablesOK(tables), HandedOK, TablesOK(tables'), Extends(tables, tables')
  PROVE  /\ \A p \in handed.strings : Registered(tables', p[1]) /\ p[2] = StringOf(tables', p[1])
         /\ \A p \in handed.names : p[1] \in Seq(Texts) /\ IsName(tables', p[2], p[1])
         /\ \A p \in handed.types : p[1] \in TypeNames \X Seq(Nat) /\ IsType(tables', p[2], p[1][1], p[1][2])
<1>2. ASSUME NEW p \in handed.strings PROVE Registered(tables', p[1]) /\ p[2] = StringOf(tables', p[1])
  BY <1>2, StringsStay DEF HandedOK
<1>3. ASSUME NEW p \in handed.names PROVE p[1] \in Seq(Texts) /\ IsName(tables', p[2], p[1])
  BY <1>3, NameStays DEF HandedOK
<1>4. ASSUME NEW p \in handed.types PROVE p[1] \in TypeNames \X Seq(Nat) /\ IsType(tables', p[2], p[1][1], p[1][2])
  BY <1>4, TypeStays DEF HandedOK
<1> QED
  BY <1>2, <1>3, <1>4

LEMMA SeqIsList ==
  ASSUME NEW S, NEW texts \in Seq(S)
  PROVE  IsList(texts)
<1>1. PICK n \in Nat : n = Len(texts) /\ DOMAIN texts = 1 .. n
  BY LenProperties
<1>2. \A i \in 1 .. n : texts[i] \in ToSet(texts)
  BY <1>1 DEF ToSet
<1>3. texts = [i \in 1 .. n |-> texts[i]]
  BY <1>1
<1> QED
  BY <1>2, <1>3, IsASeq DEF IsList

\* What EqualIfSame and ReferencesLive say.
LEMMA HandedInterned ==
  ASSUME TablesOK(tables), HandedOK
  PROVE  EqualIfSame /\ ReferencesLive
<1>1. ASSUME NEW p \in handed.strings, NEW q \in handed.strings PROVE p[1] = q[1] <=> p[2] = q[2]
  BY StringOfFacts DEF HandedOK
<1>2. ASSUME NEW p \in handed.names, NEW q \in handed.names PROVE p[1] = q[1] <=> p[2] = q[2]
  <2>1. p[1] \in Seq(Texts) /\ q[1] \in Seq(Texts) /\ IsName(tables, p[2], p[1]) /\ IsName(tables, q[2], q[1])
    BY DEF HandedOK
  <2>2. IsList(p[1]) /\ IsList(q[1])
    BY <2>1, SeqIsList
  <2> QED
    BY <2>1, <2>2, NamesAreOne
<1>3. ASSUME NEW p \in handed.types, NEW q \in handed.types PROVE p[1] = q[1] <=> p[2] = q[2]
  <2>1. p[1] \in TypeNames \X Seq(Nat) /\ q[1] \in TypeNames \X Seq(Nat)
    BY DEF HandedOK
  <2>2. p[1] = q[1] <=> p[1][1] = q[1][1] /\ p[1][2] = q[1][2]
    <3>1. PICK v, w : p[1] = <<v, w>>
      BY <2>1
    <3>2. PICK x, y : q[1] = <<x, y>>
      BY <2>1
    <3> QED
      BY <3>1, <3>2
  <2>3. IsType(tables, p[2], p[1][1], p[1][2]) /\ IsType(tables, q[2], q[1][1], q[1][2])
    BY DEF HandedOK
  <2>4. p[2] = q[2] <=> p[1][1] = q[1][1] /\ p[1][2] = q[1][2]
    BY <2>3, TypesAreOne
  <2> QED
    BY <2>2, <2>4
<1>4. EqualIfSame
  BY <1>1, <1>2, <1>3 DEF EqualIfSame, Interned
<1>5. ReferencesLive
  BY DEF ReferencesLive, HandedOK, IsName, IsType
<1> QED
  BY <1>4, <1>5

-----------------------------------------------------------------------------
(* The steps of a compiler, as the tables see them.                         *)

\* The tables after a step: in order, and what was registered is as it was.
Grown(t, u) == TablesOK(u) /\ Extends(t, u)

LEMMA GrownTransitive ==
  ASSUME NEW t, NEW u, NEW v, Grown(t, u), Grown(u, v)
  PROVE  Grown(t, v)
  BY ExtendsTransitive DEF Grown

LEMMA NameGrows ==
  ASSUME NEW t, TablesOK(t), NEW text
  PROVE  /\ Grown(t, RegisterName(t, <<text>>).tables)
         /\ IsName(RegisterName(t, <<text>>).tables, RegisterName(t, <<text>>).ref, <<text>>)
  BY OneText, RegisterNameFacts DEF Grown

LEMMA BaseTypeGrows ==
  ASSUME NEW t, TablesOK(t), NEW text
  PROVE  /\ Grown(t, GetTypeRef(t, text, << >>).tables)
         /\ IsType(GetTypeRef(t, text, << >>).tables, GetTypeRef(t, text, << >>).ref, text, << >>)
<1>1. << >> \in Seq(Nat) /\ ToSet(<< >>) \subseteq DOMAIN t.types
  BY DEF ToSet
<1> QED
  BY <1>1, GetTypeRefFacts DEF Grown

LEMMA TypeGrows ==
  ASSUME NEW t, TablesOK(t), NEW text, NEW specs \in Seq(DOMAIN t.types)
  PROVE  /\ Grown(t, GetTypeRef(t, text, specs).tables)
         /\ IsType(GetTypeRef(t, text, specs).tables, GetTypeRef(t, text, specs).ref, text, specs)
<1>1. DOMAIN t.types = 1 .. Len(t.types) /\ Len(t.types) \in Nat
  BY Fields DEF TablesOK
<1>2. specs \in Seq(Nat) /\ ToSet(specs) \subseteq DOMAIN t.types
  BY <1>1 DEF ToSet
<1> QED
  BY <1>2, GetTypeRefFacts DEF Grown

LEMMA StringsGrow ==
  ASSUME NEW t, TablesOK(t), NEW S, NEW texts \in Seq(S)
  PROVE  Grown(t, RegisterStrings(t, texts))
  BY SeqIsList, RegisterStringsFacts DEF Grown

\* define_function names and types a function, and it is the last of all.
IsDefined(s, f, u, g) ==
  /\ Grown(s.tables, u.tables)
  /\ IsName(u.tables, g.name, <<f.op>>) /\ IsType(u.tables, g.type, "fn", f.args)
  /\ g.args = f.args /\ g.instr = f.instr
  /\ u.functions = Append(s.functions, g)
  /\ u.thrown <=> s.thrown \/ \E k \in DOMAIN s.functions : s.functions[k].name = g.name /\ s.functions[k].type = g.type

LEMMA DefineFacts ==
  ASSUME NEW s, TablesOK(s.tables), NEW f, f.args \in Seq(DOMAIN s.tables.types)
  PROVE  /\ \E g : IsDefined(s, f, Define(s, f), g)
         /\ Define(s, f) \in [tables : {Define(s, f).tables}, thrown : {Define(s, f).thrown}, functions : {Define(s, f).functions}]
<1> DEFINE name == RegisterName(s.tables, <<f.op>>)
           type == GetTypeRef(name.tables, "fn", f.args)
           g == [name |-> name.ref, type |-> type.ref, args |-> f.args, ret |-> f.ret, instr |-> f.instr]
           u == Define(s, f)
<1>1. Grown(s.tables, name.tables) /\ IsName(name.tables, name.ref, <<f.op>>)
  BY NameGrows
<1>2. /\ u.tables = type.tables /\ u.functions = Append(s.functions, g)
      /\ u.thrown = (s.thrown \/ \E k \in DOMAIN s.functions :
                                   s.functions[k].name = name.ref /\ s.functions[k].type = type.ref)
      /\ u \in [tables : {u.tables}, thrown : {u.thrown}, functions : {u.functions}]
  BY DEF Define
<1> HIDE DEF name, u
<1>3. f.args \in Seq(DOMAIN name.tables.types)
  <2>1. DOMAIN s.tables.types \subseteq DOMAIN name.tables.types
    BY <1>1 DEF Grown, Extends
  <2> QED
    BY <2>1
<1>4. Grown(name.tables, type.tables) /\ IsType(type.tables, type.ref, "fn", f.args)
  BY <1>1, <1>3, TypeGrows DEF Grown
<1> HIDE DEF type
<1>5. Grown(s.tables, type.tables) /\ IsName(type.tables, name.ref, <<f.op>>)
  BY <1>1, <1>4, GrownTransitive, NameStays DEF Grown
<1>6. g.name = name.ref /\ g.type = type.ref /\ g.args = f.args /\ g.instr = f.instr
  OBVIOUS
<1> HIDE DEF g
<1>7. IsDefined(s, f, u, g)
  BY <1>2, <1>4, <1>5, <1>6 DEF IsDefined
<1> QED
  BY <1>2, <1>7 DEF u

\* What register_binary_function adds.
IsBinary(registration, type, u, g) ==
  /\ Grown(tables, u.tables)
  /\ IsName(u.tables, g.name, <<registration.op>>) /\ IsType(u.tables, g.type, "fn", g.args)
  /\ \E r \in DOMAIN u.tables.types : g.args = <<r, r>> /\ IsType(u.tables, r, type, << >>)
  /\ g.instr = registration.instr
  /\ u.functions = Append(functions, g)
  /\ u.thrown <=> \E k \in DOMAIN functions : functions[k].name = g.name /\ functions[k].type = g.type

LEMMA RegisterBinaryFacts ==
  ASSUME TablesOK(tables), NEW registration, NEW type
  PROVE  \E g : IsBinary(registration, type, RegisterBinary(Defined(tables), registration, type), g)
<1> DEFINE bool == GetTypeRef(tables, "i1", << >>)
           item == GetTypeRef(bool.tables, type, << >>)
           strings == RegisterStrings(item.tables, <<"lhs", "rhs">>)
           s == [Defined(tables) EXCEPT !.tables = strings]
           f == Function(registration.op, <<item.ref, item.ref>>,
                         IF registration.bool THEN bool.ref ELSE item.ref, registration.instr)
           u == Define(s, f)
<1>1. RegisterBinary(Defined(tables), registration, type) = u
  BY DEF RegisterBinary, Defined
<1>2. Grown(tables, bool.tables)
  BY BaseTypeGrows
<1> HIDE DEF bool
<1>3. Grown(bool.tables, item.tables) /\ IsType(item.tables, item.ref, type, << >>)
  BY <1>2, BaseTypeGrows DEF Grown
<1> HIDE DEF item
<1>4. Grown(item.tables, strings)
  <2>1. <<"lhs", "rhs">> \in Seq({"lhs", "rhs"})
    OBVIOUS
  <2> QED
    BY <1>3, <2>1, StringsGrow DEF Grown
<1> HIDE DEF strings
<1>5. IsType(strings, item.ref, type, << >>)
  BY <1>3, <1>4, TypeStays DEF Grown
<1>6. s.tables = strings /\ s.functions = functions /\ s.thrown = FALSE
  BY DEF Defined
<1>7. f.op = registration.op /\ f.args = <<item.ref, item.ref>> /\ f.instr = registration.instr
  BY DEF Function
<1> HIDE DEF s, f
<1>8. item.ref \in DOMAIN strings.types /\ f.args \in Seq(DOMAIN s.tables.types)
  <2>1. PICK r : r = item.ref
    OBVIOUS
  <2>2. r \in DOMAIN strings.types
    BY <1>5, <2>1 DEF IsType
  <2>3. <<r, r>> \in Seq(DOMAIN strings.types)
    BY <2>2, ShortSeqs
  <2> QED
    BY <1>6, <1>7, <2>1, <2>2, <2>3
<1>9. PICK g : IsDefined(s, f, u, g)
  BY <1>4, <1>6, <1>8, DefineFacts DEF Grown
<1> HIDE DEF u
<1>10. Grown(tables, u.tables) /\ Grown(strings, u.tables)
  BY <1>2, <1>3, <1>4, <1>6, <1>9, GrownTransitive DEF IsDefined
<1>11. /\ IsType(u.tables, item.ref, type, << >>) /\ item.ref \in DOMAIN u.tables.types
  BY <1>4, <1>5, <1>10, TypeStays DEF Grown, IsType
<1>12. IsBinary(registration, type, u, g)
  <2>1. \E r \in DOMAIN u.tables.types : g.args = <<r, r>> /\ IsType(u.tables, r, type, << >>)
    BY <1>7, <1>9, <1>11 DEF IsDefined
  <2>2. IsName(u.tables, g.name, <<registration.op>>) /\ IsType(u.tables, g.type, "fn", g.args)
        /\ g.instr = registration.instr
    BY <1>7, <1>9 DEF IsDefined
  <2>3. u.functions = Append(functions, g)
        /\ (u.thrown <=> \E k \in DOMAIN functions : functions[k].name = g.name /\ functions[k].type = g.type)
    BY <1>6, <1>9 DEF IsDefined
  <2> QED
    BY <1>10, <2>1, <2>2, <2>3 DEF IsBinary
<1> QED
  BY <1>1, <1>12

\* define_function of arguments without names, of which there are at most three.
LEMMA DefineUnnamedFacts ==
  ASSUME NEW s, TablesOK(s.tables), NEW f, f.args \in Seq(DOMAIN s.tables.types), Len(f.args) \in 0 .. 3,
         s \in [tables : {s.tables}, thrown : {s.thrown}, functions : {s.functions}]
  PROVE  /\ \E g : IsDefined(s, f, DefineUnnamed(s, f), g)
         /\ DefineUnnamed(s, f) \in [tables : {DefineUnnamed(s, f).tables}, thrown : {DefineUnnamed(s, f).thrown},
                                     functions : {DefineUnnamed(s, f).functions}]
<1> DEFINE names == SubSeq(MadeUpNames, 1, Len(f.args))
           strings == RegisterStrings(s.tables, names)
           r == [s EXCEPT !.tables = strings]
           u == Define(r, f)
<1>1. DefineUnnamed(s, f) = u
  BY DEF DefineUnnamed
<1>2. names \in Seq({"arg0", "arg0arg1", "arg0arg1arg2"})
  <2>1. MadeUpNames \in Seq({"arg0", "arg0arg1", "arg0arg1arg2"}) /\ Len(MadeUpNames) = 3
    BY DEF MadeUpNames
  <2>2. PICK n \in 0 .. 3 : n = Len(f.args)
    OBVIOUS
  <2>3. n \in Nat /\ n <= Len(MadeUpNames)
    BY <2>1
  <2> QED
    BY <2>1, <2>2, <2>3, PrefixFacts
<1> HIDE DEF names
<1>3. Grown(s.tables, strings)
  BY <1>2, StringsGrow
<1>4. r.tables = strings /\ r.functions = s.functions /\ r.thrown = s.thrown
  OBVIOUS
<1> HIDE DEF strings, r
<1>5. f.args \in Seq(DOMAIN r.tables.types)
  <2>1. DOMAIN s.tables.types \subseteq DOMAIN r.tables.types
    BY <1>3, <1>4 DEF Grown, Extends
  <2> QED
    BY <2>1
<1>6. PICK g : IsDefined(r, f, u, g)
  BY <1>3, <1>4, <1>5, DefineFacts DEF Grown
<1>7. u \in [tables : {u.tables}, thrown : {u.thrown}, functions : {u.functions}]
  BY <1>3, <1>4, <1>5, DefineFacts DEF Grown
<1> HIDE DEF u
<1>8. IsDefined(s, f, u, g)
  <2>1. Grown(s.tables, u.tables)
    BY <1>3, <1>4, <1>6, GrownTransitive DEF IsDefined
  <2> QED
    BY <1>4, <1>6, <2>1 DEF IsDefined
<1> QED
  BY <1>1, <1>7, <1>8

\* What the runtime adds.
IsRuntime(u, g, h) ==
  /\ Grown(tables, u.tables)
  /\ IsName(u.tables, g.name, <<"malloc">>) /\ IsName(u.tables, h.name, <<"free">>)
  /\ u.functions = Append(Append(functions, g), h)
  /\ u.thrown <=> \/ \E k \in DOMAIN functions : functions[k].name = g.name /\ functions[k].type = g.type
                  \/ \E k \in DOMAIN Append(functions, g) :
                       Append(functions, g)[k].name = h.name /\ Append(functions, g)[k].type = h.type

LEMMA DefineRuntimeFacts ==
  ASSUME TablesOK(tables), DefineRuntime
  PROVE  \E u, g, h : /\ IsRuntime(u, g, h)
                      /\ tables' = u.tables /\ functions' = u.functions
                      /\ phase' = IF u.thrown THEN "failed" ELSE "use"
<1> DEFINE rt     == RegisterName(tables, <<"rt">>)
           i32    == GetTypeRef(rt.tables, "i32", << >>)
           rtPtr  == GetTypeRef(i32.tables, "ptr", <<i32.ref>>)
           u8     == GetTypeRef(rtPtr.tables, "u8", << >>)
           u8Ptr  == GetTypeRef(u8.tables, "ptr", <<u8.ref>>)
           u32    == GetTypeRef(u8Ptr.tables, "u32", << >>)
           void   == GetTypeRef(u32.tables, "void", << >>)
           unqual == GetTypeRef(void.tables, "unqual", << >>)
           ptr    == GetTypeRef(unqual.tables, "ptr", <<unqual.ref>>)
           mallocs == Function("malloc", <<rtPtr.ref, u32.ref, u8.ref>>, u8Ptr.ref, "rt_malloc")
           frees  == Function("free", <<rtPtr.ref, ptr.ref>>, void.ref, "rt_free")
           malloc == DefineUnnamed(Defined(ptr.tables), mallocs)
           free   == DefineUnnamed(malloc, frees)
<1>1. tables' = free.tables /\ functions' = free.functions
      /\ phase' = IF free.thrown THEN "failed" ELSE "use"
  BY DEF DefineRuntime
<1>2. Grown(tables, rt.tables)
  BY NameGrows
<1> HIDE DEF rt
<1>3. Grown(rt.tables, i32.tables) /\ i32.ref \in DOMAIN i32.tables.types
  BY <1>2, BaseTypeGrows DEF Grown, IsType
<1> HIDE DEF i32
<1>4. Grown(i32.tables, rtPtr.tables) /\ rtPtr.ref \in DOMAIN rtPtr.tables.types
  <2>1. <<i32.ref>> \in Seq(DOMAIN i32.tables.types)
    BY <1>3, ShortSeqs
  <2> QED
    BY <1>3, <2>1, TypeGrows DEF Grown, IsType
<1> HIDE DEF rtPtr
<1>5. Grown(rtPtr.tables, u8.tables) /\ u8.ref \in DOMAIN u8.tables.types
  BY <1>4, BaseTypeGrows DEF Grown, IsType
<1> HIDE DEF u8
<1>6. Grown(u8.tables, u8Ptr.tables)
  <2>1. <<u8.ref>> \in Seq(DOMAIN u8.tables.types)
    BY <1>5, ShortSeqs
  <2> QED
    BY <1>5, <2>1, TypeGrows DEF Grown
<1> HIDE DEF u8Ptr
<1>7. Grown(u8Ptr.tables, u32.tables) /\ u32.ref \in DOMAIN u32.tables.types
  BY <1>6, BaseTypeGrows DEF Grown, IsType
<1> HIDE DEF u32
<1>8. Grown(u32.tables, void.tables)
  BY <1>7, BaseTypeGrows DEF Grown
<1> HIDE DEF void
<1>9. Grown(void.tables, unqual.tables) /\ unqual.ref \in DOMAIN unqual.tables.types
  BY <1>8, BaseTypeGrows DEF Grown, IsType
<1> HIDE DEF unqual
<1>10. Grown(unqual.tables, ptr.tables) /\ ptr.ref \in DOMAIN ptr.tables.types
  <2>1. <<unqual.ref>> \in Seq(DOMAIN unqual.tables.types)
    BY <1>9, ShortSeqs
  <2> QED
    BY <1>9, <2>1, TypeGrows DEF Grown, IsType
<1> HIDE DEF ptr
<1>11. Grown(u32.tables, ptr.tables)
  BY <1>8, <1>9, <1>10, GrownTransitive
<1>12. Grown(u8.tables, ptr.tables)
  BY <1>6, <1>7, <1>11, GrownTransitive
<1>13. Grown(rtPtr.tables, ptr.tables)
  BY <1>5, <1>12, GrownTransitive
<1>14. Grown(tables, ptr.tables)
  BY <1>2, <1>3, <1>4, <1>13, GrownTransitive
<1>15. /\ rtPtr.ref \in DOMAIN ptr.tables.types /\ u32.ref \in DOMAIN ptr.tables.types
       /\ u8.ref \in DOMAIN ptr.tables.types
  BY <1>4, <1>5, <1>7, <1>11, <1>12, <1>13 DEF Grown, Extends
<1> DEFINE s == Defined(ptr.tables)
<1>16. /\ s.tables = ptr.tables /\ s.functions = functions /\ s.thrown = FALSE
       /\ s \in [tables : {s.tables}, thrown : {s.thrown}, functions : {s.functions}]
  BY DEF Defined
<1>17. mallocs.op = "malloc" /\ mallocs.args \in Seq(DOMAIN ptr.tables.types) /\ Len(mallocs.args) \in 0 .. 3
  <2>1. mallocs.op = "malloc" /\ mallocs.args = <<rtPtr.ref, u32.ref, u8.ref>>
    BY DEF Function
  <2> HIDE DEF mallocs
  <2>2. <<rtPtr.ref, u32.ref, u8.ref>> \in Seq(DOMAIN ptr.tables.types) /\ Len(<<rtPtr.ref, u32.ref, u8.ref>>) = 3
    BY <1>15, ShortSeqs
  <2>3. mallocs.args \in Seq(DOMAIN ptr.tables.types) /\ Len(mallocs.args) = 3
    BY <2>1, <2>2
  <2> QED
    BY <2>1, <2>3
<1>18. frees.op = "free" /\ frees.args \in Seq(DOMAIN ptr.tables.types) /\ Len(frees.args) \in 0 .. 3
  <2>1. frees.op = "free" /\ frees.args = <<rtPtr.ref, ptr.ref>>
    BY DEF Function
  <2> HIDE DEF frees
  <2>2. <<rtPtr.ref, ptr.ref>> \in Seq(DOMAIN ptr.tables.types) /\ Len(<<rtPtr.ref, ptr.ref>>) = 2
    BY <1>10, <1>15, ShortSeqs
  <2>3. frees.args \in Seq(DOMAIN ptr.tables.types) /\ Len(frees.args) = 2
    BY <2>1, <2>2
  <2> QED
    BY <2>1, <2>3
<1> HIDE DEF mallocs, frees
<1>19. /\ \E g : IsDefined(s, mallocs, malloc, g)
       /\ malloc \in [tables : {malloc.tables}, thrown : {malloc.thrown}, functions : {malloc.functions}]
  <2>1. TablesOK(s.tables) /\ mallocs.args \in Seq(DOMAIN s.tables.types)
    BY <1>14, <1>16, <1>17 DEF Grown
  <2> HIDE DEF s
  <2> SUFFICES /\ \E g : IsDefined(s, mallocs, DefineUnnamed(s, mallocs), g)
               /\ DefineUnnamed(s, mallocs) \in
                    [tables : {DefineUnnamed(s, mallocs).tables}, thrown : {DefineUnnamed(s, mallocs).thrown},
                     functions : {DefineUnnamed(s, mallocs).functions}]
    BY DEF s
  <2> QED
    BY <1>16, <1>17, <2>1, DefineUnnamedFacts
<1>20. PICK g : IsDefined(s, mallocs, malloc, g)
  BY <1>19
<1> HIDE DEF s, malloc
<1>21. Grown(ptr.tables, malloc.tables) /\ malloc.functions = Append(functions, g)
       /\ IsName(malloc.tables, g.name, <<"malloc">>)
       /\ (malloc.thrown <=> \E k \in DOMAIN functions : functions[k].name = g.name /\ functions[k].type = g.type)
  BY <1>16, <1>17, <1>20 DEF IsDefined
<1>22. TablesOK(malloc.tables) /\ frees.args \in Seq(DOMAIN malloc.tables.types)
  <2>1. DOMAIN ptr.tables.types \subseteq DOMAIN malloc.tables.types
    BY <1>21 DEF Grown, Extends
  <2> QED
    BY <1>18, <1>21, <2>1 DEF Grown
<1>23. PICK h : IsDefined(malloc, frees, free, h)
  BY <1>18, <1>19, <1>22, DefineUnnamedFacts
<1> HIDE DEF free
<1>24. IsRuntime(free, g, h)
  <2>1. Grown(tables, free.tables) /\ Grown(malloc.tables, free.tables)
    BY <1>14, <1>21, <1>23, GrownTransitive DEF IsDefined
  <2>2. IsName(free.tables, g.name, <<"malloc">>)
    BY <1>21, <2>1, NameStays DEF Grown
  <2> QED
    BY <1>18, <1>21, <1>23, <2>1, <2>2 DEF IsRuntime, IsDefined
<1> QED
  BY <1>1, <1>24

\* What a test of names compares with is a list.
LEMMA ComparedFacts ==
  ASSUME NEW r
  PROVE  \E S : Compared(r) \in Seq(S)
<1> DEFINE S == {"ptr", "tuple", "unqual", "void"} \cup ToSet(NumericNames)
           text == TextOf(r)
           upTo == IF text \in DOMAIN LLVMNumeric THEN CHOOSE i \in DOMAIN NumericNames : NumericNames[i] = text
                   ELSE Len(NumericNames)
           rest == IF SpecsOf(r) # << >> \/ text = "void" THEN << >> ELSE SubSeq(NumericNames, 1, upTo)
<1>1. /\ NumericNames \in Seq(ToSet(NumericNames)) /\ Len(NumericNames) = 11
      /\ DOMAIN LLVMNumeric = {NumericNames[i] : i \in 1 .. 11} /\ DOMAIN NumericNames = 1 .. 11
  <2>1. NumericNames \in Seq({"f32", "f64", "i1", "i8", "u8", "i16", "u16", "i32", "u32", "i64", "u64"})
        /\ Len(NumericNames) = 11
    BY DEF NumericNames
  <2>2. DOMAIN NumericNames = 1 .. 11
    BY <2>1
  <2>3. ToSet(NumericNames) = {NumericNames[i] : i \in 1 .. 11}
    BY <2>2 DEF ToSet
  <2>4. IsList(NumericNames)
    BY <2>1, SeqIsList
  <2> QED
    BY <2>1, <2>2, <2>3, <2>4 DEF IsList, LLVMNumeric
<1>2. upTo \in 1 .. 11
  <2>1. CASE text \in DOMAIN LLVMNumeric
    <3>1. \E i \in DOMAIN NumericNames : NumericNames[i] = text
      BY <1>1, <2>1
    <3> QED
      BY <1>1, <2>1, <3>1
  <2>2. CASE text \notin DOMAIN LLVMNumeric
    BY <1>1, <2>2
  <2> QED
    BY <2>1, <2>2
<1>3. SubSeq(NumericNames, 1, upTo) \in Seq(ToSet(NumericNames))
  <2> HIDE DEF upTo
  <2>1. upTo \in Nat /\ upTo <= Len(NumericNames)
    BY <1>1, <1>2
  <2> QED
    BY <1>1, <2>1, PrefixFacts
<1>4. Seq(ToSet(NumericNames)) \subseteq Seq(S)
  OBVIOUS
<1>5. rest \in Seq(S)
  BY <1>3, <1>4
<1>6. /\ <<"ptr">> \in Seq(S) /\ <<"ptr", "tuple", "void">> \in Seq(S) /\ <<"ptr", "tuple", "unqual">> \in Seq(S)
      /\ <<"ptr", "tuple", "unqual", "void">> \in Seq(S)
  OBVIOUS
<1>7. <<"ptr", "tuple", "unqual", "void">> \o rest \in Seq(S)
  BY <1>5, <1>6, ConcatProperties
<1>8. \/ Compared(r) = <<"ptr">> \/ Compared(r) = <<"ptr", "tuple", "void">>
      \/ Compared(r) = <<"ptr", "tuple", "unqual">>
      \/ Compared(r) = <<"ptr", "tuple", "unqual", "void">> \o rest
  <2>1. CASE IsPointer(r)
    BY <2>1 DEF Compared
  <2>2. CASE ~IsPointer(r) /\ text = "tuple"
    BY <2>2 DEF Compared
  <2>3. CASE ~IsPointer(r) /\ text = "unqual"
    BY <2>3 DEF Compared
  <2>4. CASE ~IsPointer(r) /\ text # "tuple" /\ text # "unqual"
    <3>1. Compared(r) = <<"ptr", "tuple", "unqual", "void">> \o rest
      BY <2>4 DEF Compared
    <3> QED
      BY <3>1
  <2> QED
    BY <2>1, <2>2, <2>3, <2>4
<1> QED
  BY <1>6, <1>7, <1>8

LEMMA HandedMore ==
  ASSUME TablesOK(tables), HandedOK, Grown(tables, tables'),
         handed' \in [strings : {handed'.strings}, names : {handed'.names}, types : {handed'.types}],
         \A p \in handed'.strings : p \in handed.strings \/ (Registered(tables', p[1]) /\ p[2] = StringOf(tables', p[1])),
         \A p \in handed'.names : p \in handed.names \/ (p[1] \in Seq(Texts) /\ IsName(tables', p[2], p[1])),
         \A p \in handed'.types :
           p \in handed.types \/ (p[1] \in TypeNames \X Seq(Nat) /\ IsType(tables', p[2], p[1][1], p[1][2]))
  PROVE  HandedOK'
<1>1. /\ \A p \in handed.strings : Registered(tables', p[1]) /\ p[2] = StringOf(tables', p[1])
      /\ \A p \in handed.names : p[1] \in Seq(Texts) /\ IsName(tables', p[2], p[1])
      /\ \A p \in handed.types : p[1] \in TypeNames \X Seq(Nat) /\ IsType(tables', p[2], p[1][1], p[1][2])
  BY HandedStays DEF Grown
<1> QED
  BY <1>1 DEF HandedOK

\* What a client asks for, it is handed.
LEMMA AskFacts ==
  ASSUME TablesOK(tables), HandedOK, Ask
  PROVE  Grown(tables, tables') /\ HandedOK' /\ Asking
<1>1. ASSUME NEW text \in Texts, AskString(text) PROVE Grown(tables, tables') /\ HandedOK' /\ Asking
  <2>1. /\ tables' = RegisterString(tables, text) /\ Asking
        /\ handed' = [handed EXCEPT !.strings = @ \cup {<<text, StringOf(tables', text)>>}]
    BY <1>1 DEF AskString
  <2>2. Grown(tables, tables') /\ Registered(tables', text)
    BY <2>1, RegisterStringFacts DEF Grown
  <2>3. /\ handed' \in [strings : {handed'.strings}, names : {handed'.names}, types : {handed'.types}]
        /\ handed'.strings = handed.strings \cup {<<text, StringOf(tables', text)>>}
        /\ handed'.names = handed.names /\ handed'.types = handed.types
    BY <2>1 DEF HandedOK
  <2> QED
    BY <2>1, <2>2, <2>3, HandedMore
<1>2. ASSUME NEW n \in 1 .. MaxSize, NEW texts \in [1 .. n -> Texts], AskName(texts)
      PROVE  Grown(tables, tables') /\ HandedOK' /\ Asking
  <2> DEFINE w == RegisterName(tables, texts)
  <2>1. /\ tables' = w.tables /\ Asking
        /\ handed' = [handed EXCEPT !.names = @ \cup {<<texts, w.ref>>}]
    BY <1>2 DEF AskName
  <2>2. texts \in Seq(Texts)
    BY SizesAssumption, SeqDef
  <2>3. Grown(tables, tables') /\ IsName(tables', w.ref, texts)
    BY <2>1, <2>2, SeqIsList, RegisterNameFacts DEF Grown
  <2> HIDE DEF w
  <2>4. /\ handed' \in [strings : {handed'.strings}, names : {handed'.names}, types : {handed'.types}]
        /\ handed'.names = handed.names \cup {<<texts, w.ref>>}
        /\ handed'.strings = handed.strings /\ handed'.types = handed.types
    BY <2>1 DEF HandedOK
  <2> QED
    BY <2>1, <2>2, <2>3, <2>4, HandedMore
<1>3. ASSUME NEW text \in TypeNames, NEW n \in 0 .. MaxSize, NEW specs \in [1 .. n -> TypeRefs], AskType(text, specs)
      PROVE  Grown(tables, tables') /\ HandedOK' /\ Asking
  <2> DEFINE w == GetTypeRef(tables, text, specs)
  <2>1. /\ tables' = w.tables /\ Asking
        /\ handed' = [handed EXCEPT !.types = @ \cup {<<<<text, specs>>, w.ref>>}]
    BY <1>3 DEF AskType
  <2>2. TypeRefs \subseteq DOMAIN tables.types /\ DOMAIN tables.types \subseteq Nat
    BY Fields DEF TypeRefs, HandedOK, IsType, TablesOK
  <2>3. specs \in Seq(DOMAIN tables.types) /\ specs \in Seq(Nat)
    <3>1. specs \in Seq(TypeRefs)
      BY SizesAssumption, SeqDef
    <3> QED
      BY <2>2, <3>1
  <2>4. Grown(tables, tables') /\ IsType(tables', w.ref, text, specs)
    BY <2>1, <2>3, TypeGrows
  <2> HIDE DEF w
  <2>5. /\ handed' \in [strings : {handed'.strings}, names : {handed'.names}, types : {handed'.types}]
        /\ handed'.types = handed.types \cup {<<<<text, specs>>, w.ref>>}
        /\ handed'.strings = handed.strings /\ handed'.names = handed.names
    BY <2>1 DEF HandedOK
  <2>6. <<text, specs>> \in TypeNames \X Seq(Nat)
    BY <2>3
  <2> QED
    BY <2>1, <2>4, <2>5, <2>6, HandedMore
<1> QED
  BY <1>1, <1>2, <1>3 DEF Ask

\* Every step leaves the tables in order, with what they had.
LEMMA StepGrows ==
  ASSUME TablesOK(tables), HandedOK, Next
  PROVE  Grown(tables, tables')
<1>0. Grown(tables, tables)
  BY ExtendsReflexive DEF Grown
<1>1. CASE RegisterOperator
  BY <1>1, RegisterBinaryFacts DEF RegisterOperator, IsBinary
<1>2. CASE DefineRuntime
  BY <1>2, DefineRuntimeFacts DEF IsRuntime
<1>3. CASE ClientStep
  BY <1>3, AskFacts DEF ClientStep
<1>4. CASE \E op \in Operators, type \in Integer \cup ToSet(Floats) : Evaluate(op, type)
  <2>1. PICK op \in Operators, type \in Integer \cup ToSet(Floats) : Evaluate(op, type)
    BY <1>4
  <2> DEFINE name == RegisterName(tables, <<op>>)
             item == GetTypeRef(name.tables, type, << >>)
  <2>2. tables' = item.tables
    BY <2>1 DEF Evaluate
  <2>3. Grown(tables, name.tables)
    BY NameGrows
  <2> HIDE DEF name
  <2>4. Grown(name.tables, item.tables)
    BY <2>3, BaseTypeGrows DEF Grown
  <2> QED
    BY <2>2, <2>3, <2>4, GrownTransitive
<1>5. CASE SecondPass
  <2> DEFINE fn   == GetTypeRef(tables, "fn", << >>)
             init == RegisterName(fn.tables, <<"module_init">>)
             lhs  == RegisterName(init.tables, <<"lhs">>)
             rhs  == RegisterName(lhs.tables, <<"rhs">>)
  <2>1. tables' = rhs.tables
    BY <1>5 DEF SecondPass
  <2>2. Grown(tables, fn.tables)
    BY BaseTypeGrows
  <2> HIDE DEF fn
  <2>3. Grown(fn.tables, init.tables)
    BY <2>2, NameGrows DEF Grown
  <2> HIDE DEF init
  <2>4. Grown(init.tables, lhs.tables)
    BY <2>3, NameGrows DEF Grown
  <2> HIDE DEF lhs
  <2>5. Grown(lhs.tables, rhs.tables)
    BY <2>4, NameGrows DEF Grown
  <2> HIDE DEF rhs
  <2> QED
    BY <2>1, <2>2, <2>3, <2>4, <2>5, GrownTransitive
<1>6. ASSUME NEW r, tables' = RegisterStrings(tables, Compared(r)) PROVE Grown(tables, tables')
  BY <1>6, ComparedFacts, StringsGrow
<1>7. CASE \E r \in TypeRefs : Lower(r)
  BY <1>0, <1>6, <1>7 DEF Lower, Enter
<1>8. CASE LowerPart
  BY <1>0, <1>6, <1>8 DEF LowerPart, Enter
<1>9. CASE NextRegistration \/ Return \/ BeginCompile \/ EndCompile \/ EndLower \/ LowerThrows
  BY <1>0, <1>9 DEF NextRegistration, Return, BeginCompile, EndCompile, EndLower, LowerThrows, internVars
<1> QED
  BY <1>1, <1>2, <1>3, <1>4, <1>5, <1>7, <1>8, <1>9 DEF Next

\* All steps but those of clients hand nothing out.
LEMMA NothingHanded ==
  ASSUME Next
  PROVE  (phase = "use" /\ Ask) \/ (handed' = handed /\ (calls' = calls \/ Asking))
  BY DEF Next, RegisterOperator, DefineRuntime, ClientStep, Evaluate, SecondPass, Lower, LowerPart,
         NextRegistration, Return, BeginCompile, EndCompile, EndLower, LowerThrows, internVars

LEMMA TablesInit ==
  ASSUME Init
  PROVE  TablesInv
<1>1. TablesOK(NoTables)
  <2>1. TablesTyped(NoTables)
    BY DEF TablesTyped, NoTables
  <2>2. DOMAIN NoTables.strings = {} /\ NoTables.strings = << >> /\ NoTables.names = {} /\ DOMAIN NoTables.types = {}
    BY DEF NoTables
  <2>3. << >> = [text \in {} |-> NoTables.strings[text]]
    OBVIOUS
  <2>4. StringsApart(NoTables)
    BY <2>2, <2>3 DEF StringsApart
  <2>5. NamesApart(NoTables) /\ TypesApart(NoTables)
    BY <2>2 DEF NamesApart, TypesApart
  <2> QED
    BY <2>1, <2>4, <2>5 DEF TablesOK
<1> DEFINE words == <<"defn", "defmacro", "if", "let", "for", "set">>
<1>2. words \in Seq({"defn", "defmacro", "if", "let", "for", "set"})
  OBVIOUS
<1> HIDE DEF words
<1>3. TablesOK(tables)
  <2>1. tables = RegisterStrings(NoTables, words)
    BY DEF Init, words
  <2> QED
    BY <1>1, <1>2, <2>1, StringsGrow DEF Grown
<1>4. HandedOK
  <2>1. /\ handed \in [strings : {handed.strings}, names : {handed.names}, types : {handed.types}]
        /\ handed.strings = {<<Empty, 0>>} /\ handed.names = {} /\ handed.types = {}
    BY DEF Init, InternInit
  <2>2. Registered(tables, Empty) /\ StringOf(tables, Empty) = 0
    BY <1>3 DEF Registered, StringOf, TablesOK, StringsApart
  <2> QED
    BY <2>1, <2>2 DEF HandedOK
<1>5. calls \in 0 .. MaxCalls
  BY SizesAssumption DEF Init, InternInit
<1> QED
  BY <1>3, <1>4, <1>5 DEF TablesInv

LEMMA TablesStep ==
  ASSUME TablesInv, [Next]_vars
  PROVE  TablesInv' /\ Grown(tables, tables')
<1>1. CASE Next
  <2>1. Grown(tables, tables')
    BY <1>1, StepGrows DEF TablesInv
  <2>2. CASE phase = "use" /\ Ask
    <3>1. HandedOK' /\ Asking
      BY <2>2, AskFacts DEF TablesInv
    <3>2. calls' \in 0 .. MaxCalls
      BY <3>1, SizesAssumption DEF Asking, TablesInv
    <3> QED
      BY <2>1, <3>1, <3>2 DEF TablesInv, Grown
  <2>3. CASE handed' = handed /\ (calls' = calls \/ Asking)
    <3>1. calls' \in 0 .. MaxCalls
      BY <2>3, SizesAssumption DEF Asking, TablesInv
    <3>2. HandedOK'
      BY <2>1, <2>3, HandedMore DEF TablesInv, HandedOK
    <3> QED
      BY <2>1, <3>1, <3>2 DEF TablesInv, Grown
  <2> QED
    BY <1>1, <2>2, <2>3, NothingHanded
<1>2. CASE UNCHANGED vars
  <2>1. tables' = tables /\ handed' = handed /\ calls' = calls
    BY <1>2 DEF vars, internVars
  <2>2. Grown(tables, tables')
    BY <2>1, ExtendsReflexive DEF Grown, TablesInv
  <2>3. HandedOK'
    BY <2>1, <2>2, HandedMore DEF TablesInv, HandedOK
  <2> QED
    BY <2>1, <2>2, <2>3 DEF TablesInv, Grown
<1> QED
  BY <1>1, <1>2

\* The tables are always in order, and what clients were handed is what they asked for.
THEOREM TablesInvariance == Spec => []TablesInv
<1>1. Init => TablesInv
  BY TablesInit
<1>2. TablesInv /\ [Next]_vars => TablesInv'
  BY TablesStep
<1> QED
  BY <1>1, <1>2, PTL DEF Spec

\* References that were handed out are equal exactly if what they were asked for is.
THEOREM SameContentSameReference == Spec => []EqualIfSame
<1>1. TablesInv => EqualIfSame
  BY HandedInterned DEF TablesInv
<1> QED
  BY <1>1, TablesInvariance, PTL

\* A reference that was handed out reads for ever as what was asked for.
THEOREM ReferencesStayLive == Spec => []ReferencesLive
<1>1. TablesInv => ReferencesLive
  BY HandedInterned DEF TablesInv
<1> QED
  BY <1>1, TablesInvariance, PTL

-----------------------------------------------------------------------------
(* The operators that are registered.                                       *)

LEMMA ListsFacts ==
  /\ DOMAIN Floats = 1 .. Len(Floats) /\ Len(Floats) \in Nat
  /\ DOMAIN Signed = 1 .. Len(Signed) /\ Len(Signed) \in Nat
  /\ DOMAIN Unsigned = 1 .. Len(Unsigned) /\ Len(Unsigned) \in Nat
  /\ DOMAIN AnyInteger = 1 .. Len(AnyInteger) /\ Len(AnyInteger) \in Nat
  /\ ToSet(AnyInteger) = Integer
  /\ \A list \in {Floats, Signed, Unsigned, AnyInteger} : \A i, j \in DOMAIN list : list[i] = list[j] => i = j
<1>1. /\ DOMAIN Floats = 1 .. Len(Floats) /\ Len(Floats) \in Nat
      /\ DOMAIN Signed = 1 .. Len(Signed) /\ Len(Signed) \in Nat
      /\ DOMAIN Unsigned = 1 .. Len(Unsigned) /\ Len(Unsigned) \in Nat
  BY ListsAssumption
<1>2. PICK m \in Nat : m = Len(Signed)
  BY <1>1
<1>3. PICK n \in Nat : n = Len(Unsigned)
  BY <1>1
<1>4. /\ Len(AnyInteger) = m + n /\ DOMAIN AnyInteger = 1 .. m + n
      /\ \A i \in 1 .. m : AnyInteger[i] = Signed[i]
      /\ \A i \in 1 .. n : AnyInteger[m + i] = Unsigned[i]
  <2>1. Signed \in Seq(Integer) /\ Unsigned \in Seq(Integer)
    BY ListsAssumption DEF Integer
  <2>2. AnyInteger \in Seq(Integer) /\ Len(AnyInteger) = m + n
    BY <1>2, <1>3, <2>1, ConcatProperties DEF AnyInteger
  <2>3. DOMAIN AnyInteger = 1 .. m + n
    BY <2>2, LenProperties
  <2>4. \A i \in 1 .. m : AnyInteger[i] = Signed[i]
    BY <1>2, <1>3, <2>1, ConcatProperties DEF AnyInteger
  <2>5. \A i \in 1 .. n : AnyInteger[m + i] = Unsigned[i]
    BY <1>2, <1>3, <2>1, ConcatProperties DEF AnyInteger
  <2> QED
    BY <2>2, <2>3, <2>4, <2>5
<1>5. \A i \in 1 .. m + n : i \in 1 .. m \/ \E j \in 1 .. n : i = m + j
  <2> TAKE i \in 1 .. m + n
  <2>1. CASE i <= m
    BY <2>1
  <2>2. CASE i > m
    <3>1. i - m \in 1 .. n /\ i = m + (i - m)
      BY <2>2
    <3> QED
      BY <3>1
  <2> QED
    BY <2>1, <2>2
<1>6. /\ \A i \in 1 .. m : Signed[i] \in ToSet(Signed)
      /\ \A i \in 1 .. n : Unsigned[i] \in ToSet(Unsigned)
  BY <1>1, <1>2, <1>3 DEF ToSet
<1>7. ToSet(AnyInteger) = Integer
  <2>1. \A x \in ToSet(AnyInteger) : x \in Integer
    BY <1>4, <1>5, <1>6 DEF ToSet, Integer
  <2>2. \A x \in ToSet(Signed) : x \in ToSet(AnyInteger)
    BY <1>1, <1>2, <1>4 DEF ToSet
  <2>3. \A x \in ToSet(Unsigned) : x \in ToSet(AnyInteger)
    <3>1. ASSUME NEW i \in 1 .. n PROVE m + i \in DOMAIN AnyInteger /\ AnyInteger[m + i] = Unsigned[i]
      BY <1>4
    <3> QED
      BY <1>1, <1>3, <3>1 DEF ToSet
  <2> QED
    BY <2>1, <2>2, <2>3 DEF Integer
<1>8. \A i, j \in DOMAIN AnyInteger : AnyInteger[i] = AnyInteger[j] => i = j
  <2>1. SUFFICES ASSUME NEW i \in DOMAIN AnyInteger, NEW j \in DOMAIN AnyInteger, AnyInteger[i] = AnyInteger[j]
                 PROVE  i = j
    OBVIOUS
  <2>2. \A k, l \in 1 .. m : Signed[k] = Signed[l] => k = l
    BY <1>1, <1>2, ListsAssumption
  <2>3. \A k, l \in 1 .. n : Unsigned[k] = Unsigned[l] => k = l
    BY <1>1, <1>3, ListsAssumption
  <2>4. \A k \in 1 .. m, l \in 1 .. n : Signed[k] # Unsigned[l]
    BY <1>6, ListsAssumption
  <2>5. CASE i \in 1 .. m /\ j \in 1 .. m
    BY <1>4, <2>1, <2>2, <2>5
  <2>6. ASSUME NEW k \in 1 .. n, i = m + k PROVE i = j
    <3>1. j \notin 1 .. m
      BY <1>4, <2>1, <2>4, <2>6
    <3>2. PICK l \in 1 .. n : j = m + l
      BY <1>4, <1>5, <3>1
    <3>3. Unsigned[k] = Unsigned[l]
      BY <1>4, <2>1, <2>6, <3>2
    <3> QED
      BY <2>3, <2>6, <3>2, <3>3
  <2>7. CASE i \in 1 .. m /\ j \notin 1 .. m
    BY <1>4, <1>5, <2>1, <2>4, <2>7
  <2> QED
    BY <1>4, <1>5, <2>5, <2>6, <2>7
<1> QED
  BY <1>1, <1>4, <1>7, <1>8, ListsAssumption

LEMMA ListOfTen ==
  ASSUME NEW a, NEW b, NEW c, NEW d, NEW e, NEW f, NEW g, NEW h, NEW i, NEW j
  PROVE  /\ IsList(<<a, b, c, d>>) /\ IsList(<<a, b, c, d, e>>) /\ IsList(<<a, b, c, d, e, f>>)
         /\ IsList(<<a, b, c, d, e, f, g, h, i, j>>)
<1>1. /\ <<a, b, c, d>> \in Seq({a, b, c, d, e, f, g, h, i, j})
      /\ <<a, b, c, d, e>> \in Seq({a, b, c, d, e, f, g, h, i, j})
      /\ <<a, b, c, d, e, f>> \in Seq({a, b, c, d, e, f, g, h, i, j})
      /\ <<a, b, c, d, e, f, g, h, i, j>> \in Seq({a, b, c, d, e, f, g, h, i, j})
  OBVIOUS
<1> QED
  BY <1>1, SeqIsList
\* A list of n elements; and the m elements of s before the n of t.
IsLong(s, n) == IsList(s) /\ Len(s) = n
IsJoined(u, s, m, t, n) ==
  /\ IsList(u) /\ Len(u) = m + n
  /\ \A i \in 1 .. m : u[i] = s[i]
  /\ \A i \in 1 .. n : u[m + i] = t[i]

LEMMA ConcatLists ==
  ASSUME NEW s, NEW t, NEW m \in Nat, NEW n \in Nat, IsLong(s, m), IsLong(t, n)
  PROVE  IsJoined(s \o t, s, m, t, n)
<1> DEFINE S == ToSet(s) \cup ToSet(t)
<1>1. s \in Seq(S) /\ t \in Seq(S)
  BY DEF IsLong, IsList
<1>2. m = Len(s) /\ n = Len(t)
  BY DEF IsLong
<1> HIDE DEF S
<1>3. s \o t \in Seq(S) /\ Len(s \o t) = m + n
  BY <1>1, <1>2, ConcatProperties
<1>4. \A i \in 1 .. m : (s \o t)[i] = s[i]
  BY <1>1, <1>2, ConcatProperties
<1>5. \A i \in 1 .. n : (s \o t)[m + i] = t[i]
  BY <1>1, <1>2, ConcatProperties
<1> QED
  BY <1>3, <1>4, <1>5, SeqIsList DEF IsJoined

\* Which of Registrations are for which list.
FloatCalls    == (1 .. 4) \cup (10 .. 15)
AnyCalls      == {5, 6, 7, 16, 17}
SignedCalls   == {8} \cup (22 .. 25)
UnsignedCalls == {9} \cup (18 .. 21)

OpsInOrder ==
  <<"+", "-", "*", "/", "+", "-", "*", "/", "/", "<", ">", "==", "!=", ">=", "<=",
    "==", "!=", "<", "<=", ">", ">=", "<", "<=", ">", ">=">>
InstrsInOrder ==
  <<"FAdd", "FSub", "FMul", "FDiv", "Add", "Sub", "Mul", "SDiv", "UDiv",
    "FCmpULT", "FCmpUGT", "FCmpUEQ", "FCmpUNE", "FCmpUGE", "FCmpULE", "ICmpEQ", "ICmpNE",
    "ICmpULT", "ICmpULE", "ICmpUGT", "ICmpUGE", "ICmpSLT", "ICmpSLE", "ICmpSGT", "ICmpSGE">>


LEMMA RegistrationsInOrder ==
  /\ DOMAIN Registrations = 1 .. 25 /\ Len(Registrations) = 25
  /\ \A k \in 1 .. 4 : Registrations[k] = FloatArithmetic[k]
  /\ \A k \in 1 .. 5 : Registrations[4 + k] = IntegerArithmetic[k]
  /\ \A k \in 1 .. 6 : Registrations[9 + k] = FloatComparisons[k]
  /\ \A k \in 1 .. 10 : Registrations[15 + k] = IntegerComparisons[k]
<1> DEFINE F == FloatArithmetic
           I == IntegerArithmetic
           G == FloatComparisons
           J == IntegerComparisons
<1>1. IsLong(F, 4) /\ IsLong(I, 5) /\ IsLong(G, 6) /\ IsLong(J, 10)
  <2>1. Len(F) = 4 /\ Len(I) = 5 /\ Len(G) = 6 /\ Len(J) = 10
    BY DEF FloatArithmetic, IntegerArithmetic, FloatComparisons, IntegerComparisons
  <2>2. IsList(F) /\ IsList(I) /\ IsList(G) /\ IsList(J)
    BY ListOfTen DEF FloatArithmetic, IntegerArithmetic, FloatComparisons, IntegerComparisons
  <2> QED
    BY <2>1, <2>2 DEF IsLong
<1> HIDE DEF F, I, G, J
<1> DEFINE H == F \o I
           K == H \o G
           L == K \o J
<1>2. IsJoined(H, F, 4, I, 5)
  BY <1>1, ConcatLists
<1> HIDE DEF H
<1>3. IsJoined(K, H, 9, G, 6)
  <2>1. IsLong(H, 9)
    BY <1>2 DEF IsJoined, IsLong
  <2> QED
    BY <1>1, <2>1, ConcatLists
<1> HIDE DEF K
<1>4. IsJoined(L, K, 15, J, 10)
  <2>1. IsLong(K, 15)
    BY <1>3 DEF IsJoined, IsLong
  <2> QED
    BY <1>1, <2>1, ConcatLists
<1>5. Registrations = L
  BY DEF Registrations, F, I, G, J, H, K
<1> HIDE DEF L
<1>6. Len(Registrations) = 25 /\ DOMAIN Registrations = 1 .. 25
  <2>1. Len(L) = 25 /\ L \in Seq(ToSet(L))
    BY <1>4 DEF IsList, IsJoined
  <2>2. DOMAIN L = 1 .. 25
    BY <2>1
  <2> QED
    BY <1>5, <2>1, <2>2
<1>7. \A k \in 1 .. 4 : Registrations[k] = F[k]
  BY <1>2, <1>3, <1>4, <1>5 DEF IsJoined
<1>8. \A k \in 1 .. 5 : Registrations[4 + k] = I[k]
  <2> TAKE k \in 1 .. 5
  <2>1. 4 + k \in 1 .. 9 /\ 4 + k \in 1 .. 15
    OBVIOUS
  <2> QED
    BY <1>2, <1>3, <1>4, <1>5, <2>1 DEF IsJoined
<1>9. \A k \in 1 .. 6 : Registrations[9 + k] = G[k]
  <2> TAKE k \in 1 .. 6
  <2>1. 9 + k \in 1 .. 15
    OBVIOUS
  <2> QED
    BY <1>3, <1>4, <1>5, <2>1 DEF IsJoined
<1>10. \A k \in 1 .. 10 : Registrations[15 + k] = J[k]
  BY <1>4, <1>5 DEF IsJoined
<1> QED
  BY <1>6, <1>7, <1>8, <1>9, <1>10 DEF F, I, G, J

LEMMA RegistrationsFacts ==
  /\ DOMAIN Registrations = 1 .. 25 /\ Len(Registrations) = 25
  /\ \A c \in 1 .. 25 : Registrations[c].op = OpsInOrder[c] /\ Registrations[c].instr = InstrsInOrder[c]
  /\ \A c \in FloatCalls : Registrations[c].types = Floats
  /\ \A c \in AnyCalls : Registrations[c].types = AnyInteger
  /\ \A c \in SignedCalls : Registrations[c].types = Signed
  /\ \A c \in UnsignedCalls : Registrations[c].types = Unsigned
<1>1. /\ FloatArithmetic[1].op = "+" /\ FloatArithmetic[1].instr = "FAdd" /\ FloatArithmetic[1].types = Floats
      /\ FloatArithmetic[2].op = "-" /\ FloatArithmetic[2].instr = "FSub" /\ FloatArithmetic[2].types = Floats
      /\ FloatArithmetic[3].op = "*" /\ FloatArithmetic[3].instr = "FMul" /\ FloatArithmetic[3].types = Floats
      /\ FloatArithmetic[4].op = "/" /\ FloatArithmetic[4].instr = "FDiv" /\ FloatArithmetic[4].types = Floats
  BY DEF FloatArithmetic, Registration
<1>2. /\ IntegerArithmetic[1].op = "+" /\ IntegerArithmetic[1].instr = "Add" /\ IntegerArithmetic[1].types = AnyInteger
      /\ IntegerArithmetic[2].op = "-" /\ IntegerArithmetic[2].instr = "Sub" /\ IntegerArithmetic[2].types = AnyInteger
      /\ IntegerArithmetic[3].op = "*" /\ IntegerArithmetic[3].instr = "Mul" /\ IntegerArithmetic[3].types = AnyInteger
      /\ IntegerArithmetic[4].op = "/" /\ IntegerArithmetic[4].instr = "SDiv" /\ IntegerArithmetic[4].types = Signed
      /\ IntegerArithmetic[5].op = "/" /\ IntegerArithmetic[5].instr = "UDiv" /\ IntegerArithmetic[5].types = Unsigned
  BY DEF IntegerArithmetic, Registration
<1>3. /\ FloatComparisons[1].op = "<" /\ FloatComparisons[1].instr = "FCmpULT" /\ FloatComparisons[1].types = Floats
      /\ FloatComparisons[2].op = ">" /\ FloatComparisons[2].instr = "FCmpUGT" /\ FloatComparisons[2].types = Floats
      /\ FloatComparisons[3].op = "==" /\ FloatComparisons[3].instr = "FCmpUEQ" /\ FloatComparisons[3].types = Floats
      /\ FloatComparisons[4].op = "!=" /\ FloatComparisons[4].instr = "FCmpUNE" /\ FloatComparisons[4].types = Floats
      /\ FloatComparisons[5].op = ">=" /\ FloatComparisons[5].instr = "FCmpUGE" /\ FloatComparisons[5].types = Floats
      /\ FloatComparisons[6].op = "<=" /\ FloatComparisons[6].instr = "FCmpULE" /\ FloatComparisons[6].types = Floats
  BY DEF FloatComparisons, Registration
<1>4. /\ IntegerComparisons[1].op = "==" /\ IntegerComparisons[1].instr = "ICmpEQ" /\ IntegerComparisons[1].types = AnyInteger
      /\ IntegerComparisons[2].op = "!=" /\ IntegerComparisons[2].instr = "ICmpNE" /\ IntegerComparisons[2].types = AnyInteger
      /\ IntegerComparisons[3].op = "<" /\ IntegerComparisons[3].instr = "ICmpULT" /\ IntegerComparisons[3].types = Unsigned
      /\ IntegerComparisons[4].op = "<=" /\ IntegerComparisons[4].instr = "ICmpULE" /\ IntegerComparisons[4].types = Unsigned
      /\ IntegerComparisons[5].op = ">" /\ IntegerComparisons[5].instr = "ICmpUGT" /\ IntegerComparisons[5].types = Unsigned
      /\ IntegerComparisons[6].op = ">=" /\ IntegerComparisons[6].instr = "ICmpUGE" /\ IntegerComparisons[6].types = Unsigned
      /\ IntegerComparisons[7].op = "<" /\ IntegerComparisons[7].instr = "ICmpSLT" /\ IntegerComparisons[7].types = Signed
      /\ IntegerComparisons[8].op = "<=" /\ IntegerComparisons[8].instr = "ICmpSLE" /\ IntegerComparisons[8].types = Signed
      /\ IntegerComparisons[9].op = ">" /\ IntegerComparisons[9].instr = "ICmpSGT" /\ IntegerComparisons[9].types = Signed
      /\ IntegerComparisons[10].op = ">=" /\ IntegerComparisons[10].instr = "ICmpSGE" /\ IntegerComparisons[10].types = Signed
  BY DEF IntegerComparisons, Registration
<1>5. /\ Registrations[1] = FloatArithmetic[1]
      /\ Registrations[2] = FloatArithmetic[2]
      /\ Registrations[3] = FloatArithmetic[3]
      /\ Registrations[4] = FloatArithmetic[4]
  BY RegistrationsInOrder
<1>6. /\ Registrations[5] = IntegerArithmetic[1]
      /\ Registrations[6] = IntegerArithmetic[2]
      /\ Registrations[7] = IntegerArithmetic[3]
      /\ Registrations[8] = IntegerArithmetic[4]
      /\ Registrations[9] = IntegerArithmetic[5]
  BY RegistrationsInOrder
<1>7. /\ Registrations[10] = FloatComparisons[1]
      /\ Registrations[11] = FloatComparisons[2]
      /\ Registrations[12] = FloatComparisons[3]
      /\ Registrations[13] = FloatComparisons[4]
      /\ Registrations[14] = FloatComparisons[5]
      /\ Registrations[15] = FloatComparisons[6]
  BY RegistrationsInOrder
<1>8. /\ Registrations[16] = IntegerComparisons[1]
      /\ Registrations[17] = IntegerComparisons[2]
      /\ Registrations[18] = IntegerComparisons[3]
      /\ Registrations[19] = IntegerComparisons[4]
      /\ Registrations[20] = IntegerComparisons[5]
      /\ Registrations[21] = IntegerComparisons[6]
      /\ Registrations[22] = IntegerComparisons[7]
      /\ Registrations[23] = IntegerComparisons[8]
      /\ Registrations[24] = IntegerComparisons[9]
      /\ Registrations[25] = IntegerComparisons[10]
  BY RegistrationsInOrder
<1>9. \A c \in 1 .. 25 : Registrations[c].op = OpsInOrder[c] /\ Registrations[c].instr = InstrsInOrder[c]
  BY <1>1, <1>2, <1>3, <1>4, <1>5, <1>6, <1>7, <1>8 DEF OpsInOrder, InstrsInOrder
<1>10. \A c \in FloatCalls : Registrations[c].types = Floats
  BY <1>1, <1>3, <1>5, <1>7 DEF FloatCalls
<1>11. \A c \in AnyCalls : Registrations[c].types = AnyInteger
  BY <1>2, <1>4, <1>6, <1>8 DEF AnyCalls
<1>12. \A c \in SignedCalls : Registrations[c].types = Signed
  BY <1>2, <1>4, <1>6, <1>8 DEF SignedCalls
<1>13. \A c \in UnsignedCalls : Registrations[c].types = Unsigned
  BY <1>2, <1>4, <1>6, <1>8 DEF UnsignedCalls
<1> QED
  BY <1>9, <1>10, <1>11, <1>12, <1>13, RegistrationsInOrder

LEMMA CallsFacts ==
  /\ 1 .. 25 = FloatCalls \cup AnyCalls \cup SignedCalls \cup UnsignedCalls
  /\ \A c \in 1 .. 25 : Registrations[c].types \in {Floats, Signed, Unsigned, AnyInteger}
<1>1. 1 .. 25 = FloatCalls \cup AnyCalls \cup SignedCalls \cup UnsignedCalls
  BY DEF FloatCalls, AnyCalls, SignedCalls, UnsignedCalls
<1> QED
  BY <1>1, RegistrationsFacts

\* In one class of calls, each operator comes once.
LEMMA OpsOnce ==
  /\ \A c, d \in FloatCalls : OpsInOrder[c] = OpsInOrder[d] => c = d
  /\ \A c, d \in AnyCalls : OpsInOrder[c] = OpsInOrder[d] => c = d
  /\ \A c, d \in SignedCalls : OpsInOrder[c] = OpsInOrder[d] => c = d
  /\ \A c, d \in UnsignedCalls : OpsInOrder[c] = OpsInOrder[d] => c = d
  /\ \A c \in AnyCalls, d \in SignedCalls \cup UnsignedCalls : OpsInOrder[c] # OpsInOrder[d]
<1>1. \A c, d \in FloatCalls : OpsInOrder[c] = OpsInOrder[d] => c = d
  BY DEF FloatCalls, OpsInOrder
<1>2. \A c, d \in AnyCalls : OpsInOrder[c] = OpsInOrder[d] => c = d
  BY DEF AnyCalls, OpsInOrder
<1>3. \A c, d \in SignedCalls : OpsInOrder[c] = OpsInOrder[d] => c = d
  BY DEF SignedCalls, OpsInOrder
<1>4. \A c, d \in UnsignedCalls : OpsInOrder[c] = OpsInOrder[d] => c = d
  BY DEF UnsignedCalls, OpsInOrder
<1>5. \A c \in AnyCalls, d \in SignedCalls \cup UnsignedCalls : OpsInOrder[c] # OpsInOrder[d]
  BY DEF AnyCalls, SignedCalls, UnsignedCalls, OpsInOrder
<1> QED
  BY <1>1, <1>2, <1>3, <1>4, <1>5

\* An operator is registered for a type once.
LEMMA OverloadsApart ==
  ASSUME NEW c \in DOMAIN Registrations, NEW d \in DOMAIN Registrations,
         NEW i \in DOMAIN Registrations[c].types, NEW j \in DOMAIN Registrations[d].types,
         Registrations[c].op = Registrations[d].op, Registrations[c].types[i] = Registrations[d].types[j]
  PROVE  c = d /\ i = j
<1>1. Registrations[c].types[i] \in ToSet(Registrations[c].types) /\ Registrations[d].types[j] \in ToSet(Registrations[d].types)
  BY DEF ToSet
<1>2. ToSet(Registrations[c].types) \cap ToSet(Registrations[d].types) # {}
  BY <1>1
<1>3. /\ ToSet(Floats) \cap ToSet(AnyInteger) = {} /\ ToSet(Floats) \cap ToSet(Signed) = {}
      /\ ToSet(Floats) \cap ToSet(Unsigned) = {} /\ ToSet(Signed) \cap ToSet(Unsigned) = {}
  BY ListsFacts, ListsAssumption DEF Integer
<1>4. OpsInOrder[c] = OpsInOrder[d] /\ c \in 1 .. 25 /\ d \in 1 .. 25
  BY RegistrationsFacts
<1>5. \/ c \in FloatCalls /\ d \in FloatCalls
      \/ c \in AnyCalls /\ d \in AnyCalls
      \/ c \in SignedCalls /\ d \in SignedCalls
      \/ c \in UnsignedCalls /\ d \in UnsignedCalls
      \/ c \in AnyCalls /\ d \in SignedCalls \cup UnsignedCalls
      \/ d \in AnyCalls /\ c \in SignedCalls \cup UnsignedCalls
  <2>1. /\ c \in FloatCalls \/ c \in AnyCalls \/ c \in SignedCalls \/ c \in UnsignedCalls
        /\ d \in FloatCalls \/ d \in AnyCalls \/ d \in SignedCalls \/ d \in UnsignedCalls
    BY <1>4, CallsFacts
  <2> QED
    BY <1>2, <1>3, <2>1, RegistrationsFacts
<1>6. c = d
  BY <1>4, <1>5, OpsOnce
<1>7. Registrations[c].types \in {Floats, Signed, Unsigned, AnyInteger}
  BY <1>4, CallsFacts
<1> QED
  BY <1>6, <1>7, ListsFacts

\* malloc and free are no operators.
LEMMA NoOperators ==
  \A c \in DOMAIN Registrations : Registrations[c].op # "malloc" /\ Registrations[c].op # "free"
<1>1. \A c \in 1 .. 25 : OpsInOrder[c] # "malloc" /\ OpsInOrder[c] # "free"
  BY DEF OpsInOrder
<1> QED
  BY <1>1, RegistrationsFacts

\* Which instruction an operator has for a type.
IntegerInstr(op, type, instr) ==
  \/ <<op, instr>> \in {<<"+", "Add">>, <<"-", "Sub">>, <<"*", "Mul">>, <<"==", "ICmpEQ">>, <<"!=", "ICmpNE">>}
  \/ /\ type \in ToSet(Signed)
     /\ <<op, instr>> \in {<<"/", "SDiv">>, <<"<", "ICmpSLT">>, <<"<=", "ICmpSLE">>,
                           <<">", "ICmpSGT">>, <<">=", "ICmpSGE">>}
  \/ /\ type \in ToSet(Unsigned)
     /\ <<op, instr>> \in {<<"/", "UDiv">>, <<"<", "ICmpULT">>, <<"<=", "ICmpULE">>,
                           <<">", "ICmpUGT">>, <<">=", "ICmpUGE">>}
FloatInstr(op, instr) ==
  \/ op \in {"+", "-", "*", "/"}
  \/ <<op, instr>> \in {<<"==", "FCmpUEQ">>, <<"!=", "FCmpUNE">>, <<"<", "FCmpULT">>, <<"<=", "FCmpULE">>,
                        <<">", "FCmpUGT">>, <<">=", "FCmpUGE">>}

LEMMA InstrFacts ==
  ASSUME NEW c \in DOMAIN Registrations, NEW type \in ToSet(Registrations[c].types)
  PROVE  /\ type \in Integer => IntegerInstr(Registrations[c].op, type, Registrations[c].instr)
         /\ type \notin Integer => FloatInstr(Registrations[c].op, Registrations[c].instr)
<1>1. c \in 1 .. 25 /\ Registrations[c].op = OpsInOrder[c] /\ Registrations[c].instr = InstrsInOrder[c]
  BY RegistrationsFacts
<1>2. CASE c \in FloatCalls
  <2>1. type \notin Integer
    BY <1>2, RegistrationsFacts, ListsAssumption
  <2>2. FloatInstr(OpsInOrder[c], InstrsInOrder[c])
    BY <1>2 DEF FloatCalls, FloatInstr, OpsInOrder, InstrsInOrder
  <2> QED
    BY <1>1, <2>1, <2>2
<1>3. CASE c \in AnyCalls
  <2>1. type \in Integer
    BY <1>3, RegistrationsFacts, ListsFacts
  <2>2. IntegerInstr(OpsInOrder[c], type, InstrsInOrder[c])
    BY <1>3 DEF AnyCalls, IntegerInstr, OpsInOrder, InstrsInOrder
  <2> QED
    BY <1>1, <2>1, <2>2
<1>4. CASE c \in SignedCalls
  <2>1. type \in Integer /\ type \in ToSet(Signed)
    BY <1>4, RegistrationsFacts DEF Integer
  <2>2. IntegerInstr(OpsInOrder[c], type, InstrsInOrder[c])
    BY <1>4, <2>1 DEF SignedCalls, IntegerInstr, OpsInOrder, InstrsInOrder
  <2> QED
    BY <1>1, <2>1, <2>2
<1>5. CASE c \in UnsignedCalls
  <2>1. type \in Integer /\ type \in ToSet(Unsigned)
    BY <1>5, RegistrationsFacts DEF Integer
  <2>2. IntegerInstr(OpsInOrder[c], type, InstrsInOrder[c])
    BY <1>5, <2>1 DEF UnsignedCalls, IntegerInstr, OpsInOrder, InstrsInOrder
  <2> QED
    BY <1>1, <2>1, <2>2
<1> QED
  BY <1>1, <1>2, <1>3, <1>4, <1>5, CallsFacts

\* Each operator has an overload for each type.
LEMMA OverloadExists ==
  ASSUME NEW op \in Operators, NEW type \in Integer \cup ToSet(Floats)
  PROVE  \E c \in DOMAIN Registrations : \E j \in DOMAIN Registrations[c].types :
           Registrations[c].op = op /\ Registrations[c].types[j] = type
<1>1. \E c \in 1 .. 25 : OpsInOrder[c] = op
  BY RegistrationsFacts DEF Operators
<1>2. \E c \in FloatCalls : OpsInOrder[c] = op
  BY <1>1 DEF FloatCalls, OpsInOrder
<1>3. \/ \E c \in AnyCalls : OpsInOrder[c] = op
      \/ (\E c \in SignedCalls : OpsInOrder[c] = op) /\ (\E c \in UnsignedCalls : OpsInOrder[c] = op)
  BY <1>1 DEF AnyCalls, SignedCalls, UnsignedCalls, OpsInOrder
<1>4. \E c \in 1 .. 25 : OpsInOrder[c] = op /\ type \in ToSet(Registrations[c].types)
  <2>1. CASE type \in ToSet(Floats)
    BY <1>2, <2>1, CallsFacts, RegistrationsFacts
  <2>2. CASE type \in Integer
    <3>1. CASE \E c \in AnyCalls : OpsInOrder[c] = op
      <4>1. PICK c \in AnyCalls : OpsInOrder[c] = op
        BY <3>1
      <4>2. Registrations[c].types = AnyInteger /\ c \in 1 .. 25
        BY CallsFacts, RegistrationsFacts
      <4> QED
        BY <2>2, <4>1, <4>2, ListsFacts
    <3>2. CASE type \in ToSet(Signed) /\ \E c \in SignedCalls : OpsInOrder[c] = op
      BY <3>2, CallsFacts, RegistrationsFacts
    <3>3. CASE type \in ToSet(Unsigned) /\ \E c \in UnsignedCalls : OpsInOrder[c] = op
      BY <3>3, CallsFacts, RegistrationsFacts
    <3> QED
      BY <1>3, <2>2, <3>1, <3>2, <3>3 DEF Integer
  <2> QED
    BY <2>1, <2>2
<1>5. PICK c \in DOMAIN Registrations : Registrations[c].op = op /\ type \in ToSet(Registrations[c].types)
  BY <1>4, RegistrationsFacts
<1>6. \E j \in DOMAIN Registrations[c].types : Registrations[c].types[j] = type
  BY <1>5 DEF ToSet
<1> QED
  BY <1>5, <1>6

-----------------------------------------------------------------------------
(* What the instructions compute.                                           *)

LEMMA Division ==
  ASSUME NEW M \in Nat \ {0}, NEW x \in Int
  PROVE  x \div M \in Int /\ x % M \in 0 .. M - 1 /\ x = M * (x \div M) + (x % M)
OBVIOUS

\* Numbers that differ by a multiple of M have one rest.
LEMMA RestUnique ==
  ASSUME NEW M \in Nat \ {0}, NEW q \in Int, NEW r \in 0 .. M - 1
  PROVE  (M * q + r) % M = r
<1>1. PICK x \in Int : x = M * q + r
  OBVIOUS
<1>2. PICK d \in Int, s \in 0 .. M - 1 : x = M * d + s /\ s = x % M
  BY <1>1, Division
<1>3. M * q + r = M * d + s
  BY <1>1, <1>2
<1>4. d - q >= 1 => M * (d - q) >= M
  OBVIOUS
<1>5. q - d >= 1 => M * (q - d) >= M
  OBVIOUS
<1>6. M * (d - q) = r - s /\ M * (q - d) = s - r
  BY <1>3
<1>7. d = q
  BY <1>4, <1>5, <1>6
<1>8. r = s
  BY <1>6, <1>7
<1> QED
  BY <1>1, <1>2, <1>8

LEMMA SameRest ==
  ASSUME NEW M \in Nat \ {0}, NEW y \in Int, NEW k \in Int
  PROVE  (y + M * k) % M = y % M
<1>1. PICK d \in Int, s \in 0 .. M - 1 : y = M * d + s /\ s = y % M
  BY Division
<1>2. y + M * k = M * (d + k) + s
  BY <1>1
<1>3. (M * (d + k) + s) % M = s
  BY RestUnique
<1> QED
  BY <1>1, <1>2, <1>3

LEMMA Expansions ==
  ASSUME NEW M \in Int, NEW p \in Int, NEW a \in Int, NEW q \in Int, NEW b \in Int
  PROVE  /\ (M * p + a) + (M * q + b) = (a + b) + M * (p + q)
         /\ (M * p + a) - (M * q + b) = (a - b) + M * (p - q)
         /\ (M * p + a) * (M * q + b) = (a * b) + M * (M * p * q + p * b + a * q)
<1>1. (M * p + a) + (M * q + b) = (a + b) + M * (p + q)
  OBVIOUS
<1>2. (M * p + a) - (M * q + b) = (a - b) + M * (p - q)
  OBVIOUS
<1>3. (M * p + a) * (M * q + b) = (a * b) + M * (M * p * q + p * b + a * q)
  OBVIOUS
<1> QED
  BY <1>1, <1>2, <1>3

\* That a sum, a difference and a product of x and y have the rests those of a and b have.
RestsAgree(M, x, y, a, b) ==
  /\ (x + y) % M = (a + b) % M
  /\ (x - y) % M = (a - b) % M
  /\ (x * y) % M = (a * b) % M

LEMMA RestsOfExpansions ==
  ASSUME NEW M \in Nat \ {0}, NEW p \in Int, NEW a \in Int, NEW q \in Int, NEW b \in Int
  PROVE  RestsAgree(M, M * p + a, M * q + b, a, b)
<1>1. a + b \in Int /\ a - b \in Int /\ a * b \in Int /\ p + q \in Int /\ p - q \in Int
      /\ M * p * q + p * b + a * q \in Int
  OBVIOUS
<1>2. /\ ((a + b) + M * (p + q)) % M = (a + b) % M
      /\ ((a - b) + M * (p - q)) % M = (a - b) % M
      /\ ((a * b) + M * (M * p * q + p * b + a * q)) % M = (a * b) % M
  BY <1>1, SameRest
<1>3. /\ (M * p + a) + (M * q + b) = (a + b) + M * (p + q)
      /\ (M * p + a) - (M * q + b) = (a - b) + M * (p - q)
      /\ (M * p + a) * (M * q + b) = (a * b) + M * (M * p * q + p * b + a * q)
  BY Expansions
<1> QED
  BY <1>2, <1>3, Zenon DEF RestsAgree

\* They have those of their rests.
LEMMA RestsCompute ==
  ASSUME NEW M \in Nat \ {0}, NEW m \in Int, NEW n \in Int
  PROVE  RestsAgree(M, m, n, m % M, n % M)
<1>1. PICK p \in Int, a \in 0 .. M - 1 : m = M * p + a /\ a = m % M
  BY Division
<1>2. PICK q \in Int, b \in 0 .. M - 1 : n = M * q + b /\ b = n % M
  BY Division
<1>3. a \in Int /\ b \in Int
  OBVIOUS
<1>4. RestsAgree(M, M * p + a, M * q + b, a, b)
  BY <1>3, RestsOfExpansions
<1> QED
  BY <1>1, <1>2, <1>4, Zenon

\* The width of a type.
LEMMA WidthFacts ==
  ASSUME NEW type \in Integer
  PROVE  \E H \in Nat \ {0} : 2 ^ (Bits[type] - 1) = H /\ 2 ^ Bits[type] = 2 * H
<1>1. Bits[type] \in 1 .. LongBits
  BY WidthsAssumption
<1> QED
  BY <1>1, PowersAssumption

\* What is written is read back from its bits.
LEMMA RepresentedSigned ==
  ASSUME NEW type \in Integer, type \in ToSet(Signed), NEW m \in Int, Represents(type, m)
  PROVE  SignedValue(Bits[type], ConstantBits(type, m)) = m
<1>1. PICK H \in Nat \ {0} : 2 ^ (Bits[type] - 1) = H /\ 2 ^ Bits[type] = 2 * H
  BY WidthFacts
<1>2. m \in -H .. H - 1
  BY <1>1 DEF Represents
<1>3. PICK M \in Nat \ {0} : M = 2 * H
  OBVIOUS
<1>4. CASE m >= 0
  <2>1. (M * 0 + m) % M = m
    BY <1>2, <1>3, <1>4, RestUnique
  <2>2. m % M = m
    BY <2>1, <1>3
  <2> QED
    BY <1>1, <1>2, <1>3, <1>4, <2>2 DEF SignedValue, ConstantBits
<1>5. CASE m < 0
  <2>1. m + M \in 0 .. M - 1 /\ m = M * (-1) + (m + M)
    BY <1>2, <1>3, <1>5
  <2>2. (M * (-1) + (m + M)) % M = m + M
    BY <2>1, RestUnique
  <2>3. m % M = m + M
    BY <2>1, <2>2
  <2> QED
    BY <1>1, <1>2, <1>3, <1>5, <2>3 DEF SignedValue, ConstantBits
<1> QED
  BY <1>4, <1>5

LEMMA RepresentedUnsigned ==
  ASSUME NEW type \in Integer, type \notin ToSet(Signed), NEW m \in Int, Represents(type, m)
  PROVE  m >= 0 /\ ConstantBits(type, m) = m
<1>1. PICK H \in Nat \ {0} : 2 ^ (Bits[type] - 1) = H /\ 2 ^ Bits[type] = 2 * H
  BY WidthFacts
<1>2. PICK M \in Nat \ {0} : M = 2 * H
  OBVIOUS
<1>3. m \in 0 .. M - 1
  BY <1>1, <1>2 DEF Represents
<1>4. (M * 0 + m) % M = m
  BY <1>3, RestUnique
<1>5. m % M = m
  BY <1>3, <1>4
<1> QED
  BY <1>1, <1>2, <1>3, <1>5 DEF ConstantBits

LEMMA ExecuteFacts ==
  ASSUME NEW w, NEW a, NEW b
  PROVE  /\ ExecuteInteger("Add", w, a, b) = (a + b) % 2 ^ w
         /\ ExecuteInteger("Sub", w, a, b) = (a - b) % 2 ^ w
         /\ ExecuteInteger("Mul", w, a, b) = (a * b) % 2 ^ w
         /\ ExecuteInteger("UDiv", w, a, b) = a \div b
         /\ ExecuteInteger("SDiv", w, a, b) = Quotient(SignedValue(w, a), SignedValue(w, b)) % 2 ^ w
         /\ ExecuteInteger("ICmpEQ", w, a, b) = (a = b)
         /\ ExecuteInteger("ICmpNE", w, a, b) = (a # b)
         /\ ExecuteInteger("ICmpULT", w, a, b) = (a < b)
         /\ ExecuteInteger("ICmpULE", w, a, b) = (a <= b)
         /\ ExecuteInteger("ICmpUGT", w, a, b) = (a > b)
         /\ ExecuteInteger("ICmpUGE", w, a, b) = (a >= b)
         /\ ExecuteInteger("ICmpSLT", w, a, b) = (SignedValue(w, a) < SignedValue(w, b))
         /\ ExecuteInteger("ICmpSLE", w, a, b) = (SignedValue(w, a) <= SignedValue(w, b))
         /\ ExecuteInteger("ICmpSGT", w, a, b) = (SignedValue(w, a) > SignedValue(w, b))
         /\ ExecuteInteger("ICmpSGE", w, a, b) = (SignedValue(w, a) >= SignedValue(w, b))
  BY DEF ExecuteInteger, Arithmetic, Comparison

LEMMA MeaningFacts ==
  ASSUME NEW m, NEW n
  PROVE  /\ Meaning("+", m, n) = m + n /\ Meaning("-", m, n) = m - n
         /\ Meaning("*", m, n) = m * n /\ Meaning("/", m, n) = Quotient(m, n)
         /\ Meaning("<", m, n) = (m < n) /\ Meaning(">", m, n) = (m > n)
         /\ Meaning("<=", m, n) = (m <= n) /\ Meaning(">=", m, n) = (m >= n)
         /\ Meaning("==", m, n) = (m = n) /\ Meaning("!=", m, n) = (m # n)
  BY DEF Meaning

\* What an operator should give.
Expected(type, op, m, n) ==
  IF op \in {"+", "-", "*", "/"} THEN Meaning(op, m, n) % 2 ^ Bits[type] ELSE Meaning(op, m, n)

LEMMA ExpectedFacts ==
  ASSUME NEW type, NEW m, NEW n
  PROVE  /\ Expected(type, "+", m, n) = (m + n) % 2 ^ Bits[type]
         /\ Expected(type, "-", m, n) = (m - n) % 2 ^ Bits[type]
         /\ Expected(type, "*", m, n) = (m * n) % 2 ^ Bits[type]
         /\ Expected(type, "/", m, n) = Quotient(m, n) % 2 ^ Bits[type]
         /\ Expected(type, "==", m, n) = (m = n) /\ Expected(type, "!=", m, n) = (m # n)
         /\ Expected(type, "<", m, n) = (m < n) /\ Expected(type, ">", m, n) = (m > n)
         /\ Expected(type, "<=", m, n) = (m <= n) /\ Expected(type, ">=", m, n) = (m >= n)
  BY MeaningFacts DEF Expected

\* Whatever the type, these compute with the bits.
LEMMA AnyComputes ==
  ASSUME NEW type \in Integer, NEW m \in Int, NEW n \in Int, Represents(type, m), Represents(type, n), NEW op, NEW instr,
         <<op, instr>> \in {<<"+", "Add">>, <<"-", "Sub">>, <<"*", "Mul">>, <<"==", "ICmpEQ">>, <<"!=", "ICmpNE">>}
  PROVE  ExecuteInteger(instr, Bits[type], ConstantBits(type, m), ConstantBits(type, n)) = Expected(type, op, m, n)
<1> DEFINE w == Bits[type]
           a == ConstantBits(type, m)
           b == ConstantBits(type, n)
<1>1. RestsAgree(2 ^ w, m, n, a, b)
  <2>1. PICK H \in Nat \ {0} : 2 ^ w = 2 * H
    BY WidthFacts
  <2>2. 2 ^ w \in Nat \ {0}
    BY <2>1
  <2> QED
    BY <2>2, RestsCompute DEF ConstantBits
<1>2. m = n <=> a = b
  <2>1. CASE type \in ToSet(Signed)
    BY <2>1, RepresentedSigned
  <2>2. CASE type \notin ToSet(Signed)
    BY <2>2, RepresentedUnsigned
  <2> QED
    BY <2>1, <2>2
<1>3. /\ Expected(type, "+", m, n) = (m + n) % 2 ^ w /\ Expected(type, "-", m, n) = (m - n) % 2 ^ w
      /\ Expected(type, "*", m, n) = (m * n) % 2 ^ w
  BY ExpectedFacts
<1> HIDE DEF w, a, b
<1>4. CASE op = "+" /\ instr = "Add"
  <2>1. ExecuteInteger("Add", w, a, b) = Expected(type, "+", m, n)
    BY <1>1, <1>3, ExecuteFacts DEF RestsAgree
  <2> QED
    BY <1>4, <2>1 DEF w, a, b
<1>5. CASE op = "-" /\ instr = "Sub"
  <2>1. ExecuteInteger("Sub", w, a, b) = Expected(type, "-", m, n)
    BY <1>1, <1>3, ExecuteFacts DEF RestsAgree
  <2> QED
    BY <1>5, <2>1 DEF w, a, b
<1>6. CASE op = "*" /\ instr = "Mul"
  <2>1. ExecuteInteger("Mul", w, a, b) = Expected(type, "*", m, n)
    BY <1>1, <1>3, ExecuteFacts DEF RestsAgree
  <2> QED
    BY <1>6, <2>1 DEF w, a, b
<1>7. CASE op = "==" /\ instr = "ICmpEQ"
  <2>1. ExecuteInteger("ICmpEQ", w, a, b) = (a = b) /\ Expected(type, "==", m, n) = (m = n)
    BY ExecuteFacts, ExpectedFacts
  <2>2. ExecuteInteger("ICmpEQ", w, a, b) = Expected(type, "==", m, n)
    BY <1>2, <2>1
  <2> QED
    BY <1>7, <2>2 DEF w, a, b
<1>8. CASE op = "!=" /\ instr = "ICmpNE"
  <2>1. ExecuteInteger("ICmpNE", w, a, b) = (a # b) /\ Expected(type, "!=", m, n) = (m # n)
    BY ExecuteFacts, ExpectedFacts
  <2>2. ExecuteInteger("ICmpNE", w, a, b) = Expected(type, "!=", m, n)
    BY <1>2, <2>1
  <2> QED
    BY <1>8, <2>2 DEF w, a, b
<1> QED
  BY <1>4, <1>5, <1>6, <1>7, <1>8

\* Of signed types.
LEMMA SignedComputes ==
  ASSUME NEW type \in Integer, type \in ToSet(Signed), NEW m \in Int, NEW n \in Int,
         Represents(type, m), Represents(type, n), NEW op, NEW instr,
         <<op, instr>> \in {<<"/", "SDiv">>, <<"<", "ICmpSLT">>, <<"<=", "ICmpSLE">>, <<">", "ICmpSGT">>, <<">=", "ICmpSGE">>}
  PROVE  ExecuteInteger(instr, Bits[type], ConstantBits(type, m), ConstantBits(type, n)) = Expected(type, op, m, n)
<1> DEFINE w == Bits[type]
           a == ConstantBits(type, m)
           b == ConstantBits(type, n)
<1>1. SignedValue(w, a) = m /\ SignedValue(w, b) = n
  BY RepresentedSigned
<1>2. /\ Expected(type, "/", m, n) = Quotient(m, n) % 2 ^ w
      /\ Expected(type, "<", m, n) = (m < n) /\ Expected(type, ">", m, n) = (m > n)
      /\ Expected(type, "<=", m, n) = (m <= n) /\ Expected(type, ">=", m, n) = (m >= n)
  BY ExpectedFacts
<1> HIDE DEF w, a, b
<1>3. /\ ExecuteInteger("SDiv", w, a, b) = Quotient(SignedValue(w, a), SignedValue(w, b)) % 2 ^ w
      /\ ExecuteInteger("ICmpSLT", w, a, b) = (SignedValue(w, a) < SignedValue(w, b))
      /\ ExecuteInteger("ICmpSLE", w, a, b) = (SignedValue(w, a) <= SignedValue(w, b))
      /\ ExecuteInteger("ICmpSGT", w, a, b) = (SignedValue(w, a) > SignedValue(w, b))
      /\ ExecuteInteger("ICmpSGE", w, a, b) = (SignedValue(w, a) >= SignedValue(w, b))
  BY ExecuteFacts
<1>4. /\ ExecuteInteger("SDiv", w, a, b) = Expected(type, "/", m, n)
      /\ ExecuteInteger("ICmpSLT", w, a, b) = Expected(type, "<", m, n)
      /\ ExecuteInteger("ICmpSLE", w, a, b) = Expected(type, "<=", m, n)
      /\ ExecuteInteger("ICmpSGT", w, a, b) = Expected(type, ">", m, n)
      /\ ExecuteInteger("ICmpSGE", w, a, b) = Expected(type, ">=", m, n)
  BY <1>1, <1>2, <1>3
<1>5. ExecuteInteger(instr, w, a, b) = Expected(type, op, m, n)
  BY <1>4
<1> QED
  BY <1>5 DEF w, a, b

\* A quotient of numbers of the type is one.
LEMMA UnsignedQuotient ==
  ASSUME NEW M \in Nat \ {0}, NEW m \in 0 .. M - 1, NEW n \in 0 .. M - 1, n # 0
  PROVE  Quotient(m, n) % M = m \div n
<1>1. Quotient(m, n) = m \div n
  BY DEF Quotient
<1>2. PICK q \in Int, r \in 0 .. n - 1 : m = n * q + r /\ q = m \div n
  BY Division
<1>3. q \in 0 .. M - 1
  <2>1. q < 0 => n * q <= -n
    OBVIOUS
  <2>2. q >= 0
    BY <1>2, <2>1
  <2>3. n * q >= q
    BY <2>2
  <2> QED
    BY <1>2, <2>2, <2>3
<1>4. (M * 0 + q) % M = q
  BY <1>3, RestUnique
<1>5. q % M = q
  BY <1>3, <1>4
<1> QED
  BY <1>1, <1>2, <1>5

\* Of unsigned types.
LEMMA UnsignedComputes ==
  ASSUME NEW type \in Integer, type \notin ToSet(Signed), NEW m \in Int, NEW n \in Int,
         Represents(type, m), Represents(type, n), NEW op, NEW instr, instr = "UDiv" => n # 0,
         <<op, instr>> \in {<<"/", "UDiv">>, <<"<", "ICmpULT">>, <<"<=", "ICmpULE">>, <<">", "ICmpUGT">>, <<">=", "ICmpUGE">>}
  PROVE  ExecuteInteger(instr, Bits[type], ConstantBits(type, m), ConstantBits(type, n)) = Expected(type, op, m, n)
<1> DEFINE w == Bits[type]
<1>1. ConstantBits(type, m) = m /\ ConstantBits(type, n) = n
  BY RepresentedUnsigned
<1>2. /\ Expected(type, "/", m, n) = Quotient(m, n) % 2 ^ w
      /\ Expected(type, "<", m, n) = (m < n) /\ Expected(type, ">", m, n) = (m > n)
      /\ Expected(type, "<=", m, n) = (m <= n) /\ Expected(type, ">=", m, n) = (m >= n)
  BY ExpectedFacts
<1>3. /\ ExecuteInteger("UDiv", w, m, n) = m \div n
      /\ ExecuteInteger("ICmpULT", w, m, n) = (m < n)
      /\ ExecuteInteger("ICmpULE", w, m, n) = (m <= n)
      /\ ExecuteInteger("ICmpUGT", w, m, n) = (m > n)
      /\ ExecuteInteger("ICmpUGE", w, m, n) = (m >= n)
  BY ExecuteFacts
<1>4. n # 0 => Quotient(m, n) % 2 ^ w = m \div n
  <2>1. PICK H \in Nat \ {0} : 2 ^ w = 2 * H
    BY WidthFacts
  <2>2. PICK M \in Nat \ {0} : M = 2 ^ w
    BY <2>1
  <2>3. m \in 0 .. M - 1 /\ n \in 0 .. M - 1
    BY <2>2 DEF Represents
  <2> QED
    BY <2>2, <2>3, UnsignedQuotient
<1> HIDE DEF w
<1>5. /\ n # 0 => ExecuteInteger("UDiv", w, m, n) = Expected(type, "/", m, n)
      /\ ExecuteInteger("ICmpULT", w, m, n) = Expected(type, "<", m, n)
      /\ ExecuteInteger("ICmpULE", w, m, n) = Expected(type, "<=", m, n)
      /\ ExecuteInteger("ICmpUGT", w, m, n) = Expected(type, ">", m, n)
      /\ ExecuteInteger("ICmpUGE", w, m, n) = Expected(type, ">=", m, n)
  BY <1>2, <1>3, <1>4
<1>6. ExecuteInteger(instr, w, m, n) = Expected(type, op, m, n)
  BY <1>5
<1> QED
  BY <1>1, <1>6 DEF w

LEMMA IntegersCompute ==
  ASSUME NEW type \in Integer, NEW m \in Int, NEW n \in Int, Represents(type, m), Represents(type, n),
         NEW op, NEW instr, IntegerInstr(op, type, instr),
         ~Traps(instr, Bits[type], ConstantBits(type, m), ConstantBits(type, n))
  PROVE  ExecuteInteger(instr, Bits[type], ConstantBits(type, m), ConstantBits(type, n)) = Expected(type, op, m, n)
<1>1. CASE <<op, instr>> \in {<<"+", "Add">>, <<"-", "Sub">>, <<"*", "Mul">>, <<"==", "ICmpEQ">>, <<"!=", "ICmpNE">>}
  BY <1>1, AnyComputes
<1>2. CASE /\ type \in ToSet(Signed)
           /\ <<op, instr>> \in {<<"/", "SDiv">>, <<"<", "ICmpSLT">>, <<"<=", "ICmpSLE">>,
                                 <<">", "ICmpSGT">>, <<">=", "ICmpSGE">>}
  BY <1>2, SignedComputes
<1>3. CASE /\ type \in ToSet(Unsigned)
           /\ <<op, instr>> \in {<<"/", "UDiv">>, <<"<", "ICmpULT">>, <<"<=", "ICmpULE">>,
                                 <<">", "ICmpUGT">>, <<">=", "ICmpUGE">>}
  <2>1. type \notin ToSet(Signed)
    BY <1>3, ListsAssumption
  <2>2. instr = "UDiv" => n # 0
    BY <2>1, RepresentedUnsigned DEF Traps
  <2> QED
    BY <1>3, <2>1, <2>2, UnsignedComputes
<1> QED
  BY <1>1, <1>2, <1>3 DEF IntegerInstr

LEMMA FloatsCompute ==
  ASSUME NEW x, NEW y, x # << >>, y # << >>, NEW op, NEW instr, FloatInstr(op, instr),
         op \notin {"+", "-", "*", "/"}
  PROVE  ExecuteFloat(instr, x, y) = Meaning(op, x[1], y[1])
<1>1. PICK p, q : p = x[1] /\ q = y[1]
  OBVIOUS
<1>2. /\ ExecuteFloat("FCmpUEQ", x, y) = (p = q) /\ ExecuteFloat("FCmpUNE", x, y) = (p # q)
      /\ ExecuteFloat("FCmpULT", x, y) = (p < q) /\ ExecuteFloat("FCmpULE", x, y) = (p <= q)
      /\ ExecuteFloat("FCmpUGT", x, y) = (p > q) /\ ExecuteFloat("FCmpUGE", x, y) = (p >= q)
  BY <1>1 DEF ExecuteFloat, Comparison
<1>3. /\ ExecuteFloat("FCmpUEQ", x, y) = Meaning("==", p, q) /\ ExecuteFloat("FCmpUNE", x, y) = Meaning("!=", p, q)
      /\ ExecuteFloat("FCmpULT", x, y) = Meaning("<", p, q) /\ ExecuteFloat("FCmpULE", x, y) = Meaning("<=", p, q)
      /\ ExecuteFloat("FCmpUGT", x, y) = Meaning(">", p, q) /\ ExecuteFloat("FCmpUGE", x, y) = Meaning(">=", p, q)
  BY <1>2, MeaningFacts
<1> QED
  BY <1>1, <1>3 DEF FloatInstr

-----------------------------------------------------------------------------
(* The operators: each is registered for each type once, and computes.      *)

LEMMA AppendList ==
  ASSUME NEW s, IsList(s), NEW e
  PROVE  /\ IsList(Append(s, e)) /\ DOMAIN s = 1 .. Len(s) /\ Len(s) \in Nat
         /\ DOMAIN Append(s, e) = 1 .. Len(s) + 1
         /\ \A i \in 1 .. Len(s) : Append(s, e)[i] = s[i]
         /\ Append(s, e)[Len(s) + 1] = e
<1> DEFINE S == ToSet(s) \cup {e}
<1>1. s \in Seq(S) /\ e \in S
  BY DEF IsList
<1> HIDE DEF S
<1>2. /\ Append(s, e) \in Seq(S) /\ Len(Append(s, e)) = Len(s) + 1
      /\ \A i \in 1 .. Len(s) : Append(s, e)[i] = s[i]
      /\ Append(s, e)[Len(s) + 1] = e
  BY <1>1, AppendProperties
<1>3. DOMAIN s = 1 .. Len(s) /\ Len(s) \in Nat /\ DOMAIN Append(s, e) = 1 .. Len(s) + 1
  BY <1>1, <1>2, LenProperties
<1> QED
  BY <1>2, <1>3, SeqIsList

LEMMA OverloadStays ==
  ASSUME NEW t, TablesOK(t), NEW u, Grown(t, u), NEW f, NEW c, NEW j, IsOverload(t, f, c, j)
  PROVE  IsOverload(u, f, c, j)
<1>1. IsName(u, f.name, <<Registrations[c].op>>) /\ IsType(u, f.type, "fn", f.args)
  BY NameStays, TypeStays DEF IsOverload, Grown
<1>2. PICK r \in DOMAIN t.types : f.args = <<r, r>> /\ IsType(t, r, Registrations[c].types[j], << >>)
  BY DEF IsOverload
<1>3. IsType(u, r, Registrations[c].types[j], << >>)
  BY <1>2, TypeStays DEF Grown
<1>4. r \in DOMAIN u.types
  BY <1>3 DEF IsType
<1> QED
  BY <1>1, <1>2, <1>3, <1>4 DEF IsOverload

\* Two overloads of one name and type are one.
LEMMA OverloadsOne ==
  ASSUME NEW t, TablesOK(t), NEW f, NEW g, NEW c \in DOMAIN Registrations, NEW d \in DOMAIN Registrations,
         NEW i \in DOMAIN Registrations[c].types, NEW j \in DOMAIN Registrations[d].types,
         IsOverload(t, f, c, i), IsOverload(t, g, d, j), f.name = g.name, f.args = g.args
  PROVE  c = d /\ i = j
<1>1. Registrations[c].op = Registrations[d].op
  <2>1. <<Registrations[c].op>> = <<Registrations[d].op>>
    BY OneText, NamesAreOne DEF IsOverload
  <2> QED
    BY <2>1
<1>2. PICK q : f.args = <<q, q>> /\ IsType(t, q, Registrations[c].types[i], << >>)
  BY DEF IsOverload
<1>3. PICK r : g.args = <<r, r>> /\ IsType(t, r, Registrations[d].types[j], << >>)
  BY DEF IsOverload
<1>4. q = r
  <2>1. <<q, q>> = <<r, r>>
    BY <1>2, <1>3
  <2>2. <<q, q>>[1] = q /\ <<r, r>>[1] = r
    OBVIOUS
  <2> QED
    BY <2>1, <2>2
<1>5. Registrations[c].types[i] = Registrations[d].types[j]
  BY <1>2, <1>3, <1>4, TypesAreOne
<1> QED
  BY <1>1, <1>5, OverloadsApart

\* malloc and free are no overloads.
LEMMA OverloadsNamed ==
  ASSUME NEW t, TablesOK(t), NEW f, NEW c \in DOMAIN Registrations, NEW j, IsOverload(t, f, c, j),
         NEW op \in {"malloc", "free"}
  PROVE  ~IsName(t, f.name, <<op>>)
<1>1. SUFFICES ASSUME IsName(t, f.name, <<op>>) PROVE FALSE
  OBVIOUS
<1>2. <<Registrations[c].op>> = <<op>>
  BY <1>1, OneText, NamesAreOne DEF IsOverload
<1>3. Registrations[c].op = op
  BY <1>2
<1> QED
  BY <1>3, NoOperators

\* The functions of a new compiler.
LEMMA RegisterOperatorStep ==
  ASSUME TablesInv, OperatorsInv, RegisterOperator
  PROVE  OperatorsOnce'
<1> DEFINE c0 == registered.call
           j0 == registered.type
           reg == Registrations[c0]
           u == RegisterBinary(Defined(tables), reg, reg.types[j0])
<1>1. /\ phase = "create" /\ c0 \in DOMAIN Registrations /\ j0 \in DOMAIN reg.types
      /\ tables' = u.tables /\ functions' = u.functions
      /\ phase' = IF u.thrown THEN "failed" ELSE "create"
      /\ registered' = [registered EXCEPT !.type = @ + 1]
  BY DEF RegisterOperator
<1>2. PICK g : IsBinary(reg, reg.types[j0], u, g)
  BY RegisterBinaryFacts DEF TablesInv
<1> HIDE DEF u
<1>3. IsOverload(tables', g, c0, j0)
  BY <1>1, <1>2 DEF IsBinary, IsOverload
<1>4. Grown(tables, tables') /\ functions' = Append(functions, g)
  BY <1>1, <1>2 DEF IsBinary
<1>5. IsList(functions)
  BY DEF OperatorsInv, OperatorsOnce, IsList
<1>6. \A k \in DOMAIN functions :
        \E c \in DOMAIN Registrations : \E j \in DOMAIN Registrations[c].types :
          IsDone(c, j) /\ IsOverload(tables', functions[k], c, j)
  BY <1>1, <1>4, OverloadStays DEF OperatorsInv, OperatorsOnce, TablesInv
<1>7. ~IsDone(c0, j0) /\ c0 \in Nat /\ j0 \in Nat
  BY DEF IsDone, OperatorsInv, OperatorsOnce
<1>8. ~u.thrown
  <2>1. SUFFICES ASSUME NEW k \in DOMAIN functions, functions[k].name = g.name, functions[k].type = g.type
                 PROVE  FALSE
    BY <1>2 DEF IsBinary
  <2>2. PICK c \in DOMAIN Registrations : \E j \in DOMAIN Registrations[c].types :
          IsDone(c, j) /\ IsOverload(tables', functions[k], c, j)
    BY <1>6
  <2>3. PICK j \in DOMAIN Registrations[c].types : IsDone(c, j) /\ IsOverload(tables', functions[k], c, j)
    BY <2>2
  <2>4. functions[k].args = g.args
    BY <1>3, <1>4, <2>1, <2>3, TypesAreOne DEF IsOverload, Grown
  <2>5. c = c0 /\ j = j0
    BY <1>1, <1>3, <1>4, <2>1, <2>3, <2>4, OverloadsOne DEF Grown
  <2> QED
    BY <1>7, <2>3, <2>5
<1>9. registered' \in [call : 1 .. Len(Registrations) + 1, type : Nat \ {0}] /\ registered'.call = c0 /\ registered'.type = j0 + 1
  <2>1. PICK D : D = 1 .. Len(Registrations) + 1
    OBVIOUS
  <2>2. registered \in [call : D, type : Nat \ {0}]
    BY <2>1 DEF OperatorsInv, OperatorsOnce
  <2>3. registered.type + 1 \in Nat \ {0}
    BY <2>2
  <2>4. registered' \in [call : D, type : Nat \ {0}] /\ registered'.call = registered.call /\ registered'.type = registered.type + 1
    BY <1>1, <2>2, <2>3
  <2> QED
    BY <2>1, <2>4
<1>10. \A c \in DOMAIN Registrations : \A j \in DOMAIN Registrations[c].types :
         IsDone(c, j)' <=> IsDone(c, j) \/ (c = c0 /\ j = j0)
  <2>1. SUFFICES ASSUME NEW c \in DOMAIN Registrations, NEW j \in DOMAIN Registrations[c].types
                 PROVE  IsDone(c, j)' <=> IsDone(c, j) \/ (c = c0 /\ j = j0)
    OBVIOUS
  <2>2. c \in Nat /\ j \in Nat
    <3>1. c \in 1 .. 25
      BY RegistrationsFacts
    <3>2. Registrations[c].types \in {Floats, Signed, Unsigned, AnyInteger}
      BY <3>1, CallsFacts
    <3>3. DOMAIN Registrations[c].types \subseteq Nat
      BY <3>2, ListsFacts
    <3> QED
      BY <3>1, <3>3
  <2> QED
    BY <1>7, <1>9, <2>2 DEF IsDone
<1> HIDE DEF c0, j0, reg
<1>11. /\ IsList(functions') /\ DOMAIN functions = 1 .. Len(functions) /\ Len(functions) \in Nat
       /\ DOMAIN functions' = 1 .. Len(functions) + 1
       /\ \A i \in 1 .. Len(functions) : functions'[i] = functions[i]
       /\ functions'[Len(functions) + 1] = g
  BY <1>4, <1>5, AppendList
<1>12. \A k \in DOMAIN functions' :
         \E c \in DOMAIN Registrations : \E j \in DOMAIN Registrations[c].types :
           IsDone(c, j)' /\ IsOverload(tables', functions'[k], c, j)
  <2> TAKE k \in DOMAIN functions'
  <2>1. CASE k \in DOMAIN functions
    BY <1>6, <1>10, <1>11, <2>1
  <2>2. CASE functions'[k] = g
    BY <1>1, <1>3, <1>10, <2>2 DEF c0, j0, reg
  <2> QED
    BY <1>11, <2>1, <2>2
<1>13. \A c \in DOMAIN Registrations : \A j \in DOMAIN Registrations[c].types :
         IsDone(c, j)' => \E k \in DOMAIN functions' : IsOverload(tables', functions'[k], c, j)
  <2> TAKE c \in DOMAIN Registrations
  <2> TAKE j \in DOMAIN Registrations[c].types
  <2> HAVE IsDone(c, j)'
  <2>1. CASE IsDone(c, j)
    <3>1. PICK k \in DOMAIN functions : IsOverload(tables, functions[k], c, j)
      BY <2>1 DEF OperatorsInv, OperatorsOnce
    <3>2. IsOverload(tables', functions[k], c, j)
      BY <1>4, <3>1, OverloadStays DEF TablesInv
    <3> QED
      BY <1>11, <3>1, <3>2
  <2>2. CASE c = c0 /\ j = j0
    <3>1. Len(functions) + 1 \in DOMAIN functions' /\ functions'[Len(functions) + 1] = g
      BY <1>11
    <3> QED
      BY <1>3, <2>2, <3>1
  <2> QED
    BY <1>10, <2>1, <2>2
<1>14. phase' = "create"
  BY <1>1, <1>8
<1> QED
  BY <1>9, <1>11, <1>12, <1>13, <1>14 DEF OperatorsOnce, IsList

\* What OperatorsOnce says of functions and tables, of other steps.
LEMMA FunctionsStay ==
  ASSUME TablesInv, OperatorsInv, Grown(tables, tables'), UNCHANGED functions, phase' # "failed",
         registered' \in [call : 1 .. Len(Registrations) + 1, type : Nat \ {0}],
         phase' # "create" => registered'.call = Len(Registrations) + 1,
         phase # "create" => phase' # "create",
         \A c \in DOMAIN Registrations : \A j \in DOMAIN Registrations[c].types : IsDone(c, j)' <=> IsDone(c, j)
  PROVE  OperatorsOnce'
<1>1. functions' = functions /\ functions' \in Seq(ToSet(functions'))
  BY DEF OperatorsInv, OperatorsOnce
<1>2. ASSUME NEW k \in DOMAIN functions
      PROVE  \/ \E c \in DOMAIN Registrations : \E j \in DOMAIN Registrations[c].types :
                  IsDone(c, j)' /\ IsOverload(tables', functions[k], c, j)
             \/ phase' # "create" /\ \E op \in {"malloc", "free"} : IsName(tables', functions[k].name, <<op>>)
  <2>1. CASE \E c \in DOMAIN Registrations : \E j \in DOMAIN Registrations[c].types :
               IsDone(c, j) /\ IsOverload(tables, functions[k], c, j)
    BY <2>1, OverloadStays DEF TablesInv
  <2>2. CASE phase # "create" /\ \E op \in {"malloc", "free"} : IsName(tables, functions[k].name, <<op>>)
    BY <2>2, NameStays DEF TablesInv, Grown
  <2> QED
    BY <1>2, <2>1, <2>2 DEF OperatorsInv, OperatorsOnce
<1>3. ASSUME NEW c \in DOMAIN Registrations, NEW j \in DOMAIN Registrations[c].types, IsDone(c, j)'
      PROVE  \E k \in DOMAIN functions : IsOverload(tables', functions[k], c, j)
  <2>1. PICK k \in DOMAIN functions : IsOverload(tables, functions[k], c, j)
    BY <1>3 DEF OperatorsInv, OperatorsOnce
  <2> QED
    BY <2>1, OverloadStays DEF TablesInv
<1> QED
  BY <1>1, <1>2, <1>3 DEF OperatorsOnce

LEMMA NextRegistrationStep ==
  ASSUME TablesInv, OperatorsInv, NextRegistration
  PROVE  OperatorsOnce'
<1>1. /\ phase = "create" /\ phase' = phase /\ tables' = tables /\ functions' = functions
      /\ registered.call \in DOMAIN Registrations
      /\ registered.type > Len(Registrations[registered.call].types)
      /\ registered' = [call |-> registered.call + 1, type |-> 1]
  BY DEF NextRegistration, internVars
<1>2. PICK c0 \in 1 .. 25 : c0 = registered.call
  BY <1>1, RegistrationsFacts
<1>3. PICK j0 \in Nat : j0 = registered.type
  BY DEF OperatorsInv, OperatorsOnce
<1>4. \A c \in DOMAIN Registrations : DOMAIN Registrations[c].types = 1 .. Len(Registrations[c].types)
                                      /\ Len(Registrations[c].types) \in Nat
  BY RegistrationsFacts, CallsFacts, ListsFacts
<1>5. registered.call = c0 /\ registered.type = j0 /\ j0 # 0 /\ registered'.call = c0 + 1 /\ registered'.type = 1
  BY <1>1, <1>2, <1>3 DEF OperatorsInv, OperatorsOnce
<1>50. registered' \in [call : 1 .. 26, type : Nat \ {0}]
  <2>1. \A d \in 1 .. 26 : [call |-> d, type |-> 1] \in [call : 1 .. 26, type : Nat \ {0}]
    OBVIOUS
  <2>2. registered.call + 1 \in 1 .. 26
    BY <1>2
  <2> QED
    BY <1>1, <2>1, <2>2
<1>6. \A c \in DOMAIN Registrations : \A j \in DOMAIN Registrations[c].types : IsDone(c, j)' <=> IsDone(c, j)
  <2>1. SUFFICES ASSUME NEW c \in DOMAIN Registrations, NEW j \in DOMAIN Registrations[c].types
                 PROVE  IsDone(c, j)' <=> IsDone(c, j)
    OBVIOUS
  <2>2. PICK n \in Nat : n = Len(Registrations[c].types)
    BY <1>4
  <2>3. j \in 1 .. n /\ c \in 1 .. 25
    BY <1>4, <2>2, RegistrationsFacts
  <2>4. c = c0 => j0 > n
    BY <1>1, <1>2, <1>3, <2>2
  <2>5. IsDone(c, j) <=> c < c0 \/ (c = c0 /\ j < j0)
    BY <1>5 DEF IsDone
  <2>6. IsDone(c, j)' <=> c < c0 + 1 \/ (c = c0 + 1 /\ j < 1)
    BY <1>5 DEF IsDone
  <2> HIDE DEF IsDone
  <2>7. c < c0 + 1 \/ (c = c0 + 1 /\ j < 1) <=> c < c0 \/ (c = c0 /\ j < j0)
    BY <1>2, <1>3, <2>3, <2>4
  <2> QED
    BY <2>5, <2>6, <2>7
<1>7. Grown(tables, tables')
  BY <1>1, ExtendsReflexive DEF Grown, TablesInv
<1>8. registered' \in [call : 1 .. Len(Registrations) + 1, type : Nat \ {0}]
  BY <1>50, RegistrationsFacts
<1> QED
  BY <1>1, <1>6, <1>7, <1>8, FunctionsStay

LEMMA DefineRuntimeStep ==
  ASSUME TablesInv, OperatorsInv, DefineRuntime
  PROVE  OperatorsOnce' /\ phase' = "use"
<1>1. phase = "create" /\ registered' = registered /\ registered.call > Len(Registrations)
  BY DEF DefineRuntime
<1>2. PICK u, g, h : /\ IsRuntime(u, g, h) /\ tables' = u.tables /\ functions' = u.functions
                     /\ phase' = IF u.thrown THEN "failed" ELSE "use"
  BY DefineRuntimeFacts DEF TablesInv
<1>3. /\ Grown(tables, tables') /\ functions' = Append(Append(functions, g), h)
      /\ IsName(tables', g.name, <<"malloc">>) /\ IsName(tables', h.name, <<"free">>)
  BY <1>2 DEF IsRuntime
<1>4. registered.call = Len(Registrations) + 1
  <2>1. registered \in [call : 1 .. 26, type : Nat \ {0}]
    BY RegistrationsFacts DEF OperatorsInv, OperatorsOnce
  <2>2. registered.call > 25
    BY <1>1, RegistrationsFacts
  <2>3. registered.call = 26
    BY <2>1, <2>2
  <2> QED
    BY <2>3, RegistrationsFacts
<1>5. IsList(functions)
  BY DEF OperatorsInv, OperatorsOnce, IsList
<1>6. PICK n \in Nat : n = Len(functions) /\ DOMAIN functions = 1 .. n
  BY <1>5, AppendList
<1>7. /\ IsList(Append(functions, g)) /\ DOMAIN Append(functions, g) = 1 .. n + 1
      /\ \A i \in 1 .. n : Append(functions, g)[i] = functions[i]
      /\ Append(functions, g)[n + 1] = g
  BY <1>5, <1>6, AppendList
<1>8. Len(Append(functions, g)) = n + 1
  BY <1>7, ListFacts
<1>9. /\ IsList(functions') /\ DOMAIN functions' = 1 .. (n + 1) + 1
      /\ \A i \in 1 .. n + 1 : functions'[i] = Append(functions, g)[i]
      /\ functions'[(n + 1) + 1] = h
  BY <1>3, <1>7, <1>8, AppendList
<1>10. ASSUME NEW k \in DOMAIN functions
       PROVE  \E c \in DOMAIN Registrations : \E j \in DOMAIN Registrations[c].types :
                IsDone(c, j) /\ IsOverload(tables', functions[k], c, j)
  BY <1>1, <1>3, <1>10, OverloadStays DEF OperatorsInv, OperatorsOnce, TablesInv
<1>11. ~u.thrown
  <2>1. ASSUME NEW k \in DOMAIN functions PROVE functions[k].name # g.name /\ functions[k].name # h.name
    BY <1>3, <1>10, OverloadsNamed DEF Grown
  <2>2. g.name # h.name
    <3>1. SUFFICES ASSUME g.name = h.name PROVE <<"malloc">> = <<"free">>
      OBVIOUS
    <3> QED
      BY <1>3, <3>1, OneText, NamesAreOne DEF Grown
  <2>3. \A k \in 1 .. n + 1 : k \in 1 .. n \/ k = n + 1
    BY TopOrBelow
  <2>4. \A k \in DOMAIN Append(functions, g) : Append(functions, g)[k].name # h.name
    BY <1>6, <1>7, <2>1, <2>2, <2>3
  <2> QED
    BY <1>2, <2>1, <2>4 DEF IsRuntime
<1>12. phase' = "use"
  BY <1>2, <1>11
<1>13. \A c, j : IsDone(c, j)' <=> IsDone(c, j)
  BY <1>1 DEF IsDone
<1>14. \A k \in 1 .. n : k \in DOMAIN functions' /\ functions'[k] = functions[k]
  BY <1>7, <1>9
<1>15. functions'[n + 1] = g
  BY <1>7, <1>9
<1>16. \A k \in 1 .. (n + 1) + 1 : k \in 1 .. n \/ k = n + 1 \/ k = (n + 1) + 1
  OBVIOUS
<1>17. ASSUME NEW k \in DOMAIN functions'
       PROVE  \/ \E c \in DOMAIN Registrations : \E j \in DOMAIN Registrations[c].types :
                   IsDone(c, j)' /\ IsOverload(tables', functions'[k], c, j)
              \/ phase' # "create" /\ \E op \in {"malloc", "free"} : IsName(tables', functions'[k].name, <<op>>)
  <2>1. CASE k \in 1 .. n
    BY <1>6, <1>10, <1>13, <1>14, <2>1
  <2>2. CASE k = n + 1
    BY <1>3, <1>12, <1>15, <2>2
  <2>3. CASE k = (n + 1) + 1
    BY <1>3, <1>9, <1>12, <2>3
  <2> QED
    BY <1>9, <1>16, <2>1, <2>2, <2>3
<1>18. ASSUME NEW c \in DOMAIN Registrations, NEW j \in DOMAIN Registrations[c].types, IsDone(c, j)'
       PROVE  \E k \in DOMAIN functions' : IsOverload(tables', functions'[k], c, j)
  <2>1. PICK k \in DOMAIN functions : IsOverload(tables, functions[k], c, j)
    BY <1>13, <1>18 DEF OperatorsInv, OperatorsOnce
  <2>2. IsOverload(tables', functions[k], c, j)
    BY <1>3, <2>1, OverloadStays DEF TablesInv
  <2> QED
    BY <1>6, <1>14, <2>1, <2>2
<1>19. /\ registered' \in [call : 1 .. Len(Registrations) + 1, type : Nat \ {0}]
       /\ registered'.call = Len(Registrations) + 1
  BY <1>1, <1>4 DEF OperatorsInv, OperatorsOnce
<1> QED
  BY <1>9, <1>12, <1>17, <1>18, <1>19 DEF OperatorsOnce, IsList

\* A call of an operator gets its overload for the type of the arguments.
LEMMA ResolveFacts ==
  ASSUME TablesInv, OperatorsInv, phase # "create", NEW u, Grown(tables, u),
         NEW op \in Operators, NEW type \in Integer \cup ToSet(Floats),
         NEW name, IsName(u, name, <<op>>), NEW item, IsType(u, item, type, << >>)
  PROVE  \E c \in DOMAIN Registrations :
           /\ Registrations[c].op = op /\ type \in ToSet(Registrations[c].types)
           /\ Resolve(name, <<item, item>>).instr = Registrations[c].instr
<1>1. PICK c \in DOMAIN Registrations : \E j \in DOMAIN Registrations[c].types :
        Registrations[c].op = op /\ Registrations[c].types[j] = type
  BY OverloadExists
<1>2. PICK j \in DOMAIN Registrations[c].types : Registrations[c].op = op /\ Registrations[c].types[j] = type
  BY <1>1
<1>3. IsDone(c, j)
  <2>1. c \in 1 .. 25 /\ registered.call = 25 + 1
    BY RegistrationsFacts DEF OperatorsInv, OperatorsOnce
  <2> QED
    BY <2>1 DEF IsDone
<1>4. PICK k \in DOMAIN functions : IsOverload(tables, functions[k], c, j)
  BY <1>3 DEF OperatorsInv, OperatorsOnce
<1>5. IsOverload(u, functions[k], c, j)
  BY <1>4, OverloadStays DEF TablesInv
<1>6. functions[k].name = name
  BY <1>2, <1>5, OneText, NamesAreOne DEF IsOverload, Grown
<1>7. functions[k].args = <<item, item>>
  BY <1>2, <1>5, TypesAreOne DEF IsOverload, Grown
<1> DEFINE named == {m \in DOMAIN functions : functions[m].name = name}
           fits == {m \in named : functions[m].args = <<item, item>>}
<1>8. fits # {} /\ fits \in SUBSET Nat
  <2>1. k \in fits
    BY <1>6, <1>7
  <2>2. DOMAIN functions = 1 .. Len(functions)
    BY DEF OperatorsInv, OperatorsOnce
  <2> QED
    BY <2>1, <2>2
<1>9. PICK m \in fits : m = Min(fits)
  BY <1>8, MinFacts
<1>10. Resolve(name, <<item, item>>) = functions[m]
  BY <1>8, <1>9 DEF Resolve
<1>11. m \in DOMAIN functions /\ functions[m].name = name /\ functions[m].args = <<item, item>>
  OBVIOUS
<1> HIDE DEF fits, named
<1>12. ~ \E free \in {"malloc", "free"} : IsName(tables, functions[m].name, <<free>>)
  <2>1. SUFFICES ASSUME NEW free \in {"malloc", "free"}, IsName(tables, functions[m].name, <<free>>) PROVE FALSE
    OBVIOUS
  <2>2. IsName(u, functions[m].name, <<free>>)
    BY <2>1, NameStays DEF TablesInv, Grown
  <2> QED
    BY <1>5, <1>6, <1>11, <2>2, OverloadsNamed DEF Grown
<1>13. PICK d \in DOMAIN Registrations : \E i \in DOMAIN Registrations[d].types : IsOverload(tables, functions[m], d, i)
  BY <1>11, <1>12 DEF OperatorsInv, OperatorsOnce
<1>14. PICK i \in DOMAIN Registrations[d].types : IsOverload(u, functions[m], d, i)
  BY <1>13, OverloadStays DEF TablesInv
<1>15. d = c
  BY <1>5, <1>6, <1>7, <1>11, <1>14, OverloadsOne DEF Grown
<1>16. functions[m].instr = Registrations[c].instr
  BY <1>14, <1>15 DEF IsOverload
<1>17. type \in ToSet(Registrations[c].types)
  BY <1>2 DEF ToSet
<1> QED
  BY <1>2, <1>10, <1>16, <1>17

LEMMA EvaluateStep ==
  ASSUME TablesInv, OperatorsInv, NEW op \in Operators, NEW type \in Integer \cup ToSet(Floats), Evaluate(op, type)
  PROVE  OperatorsCompute'
<1> DEFINE name == RegisterName(tables, <<op>>)
           item == GetTypeRef(name.tables, type, << >>)
           instr == Resolve(name.ref, <<item.ref, item.ref>>).instr
<1>1. /\ phase = "use" /\ phase' = "return"
      /\ \E call \in IF type \in Integer THEN IntegerOperands(type) ELSE FloatOperands :
           /\ type \in Integer => ~Traps(instr, Bits[type], call.a, call.b)
           /\ result' = [op |-> op, type |-> type, lhs |-> call.lhs, rhs |-> call.rhs,
                         value |-> IF type \in Integer THEN ExecuteInteger(instr, Bits[type], call.a, call.b)
                                   ELSE ExecuteFloat(instr, call.a, call.b)]
  BY DEF Evaluate
<1>2. Grown(tables, name.tables) /\ IsName(name.tables, name.ref, <<op>>)
  BY NameGrows DEF TablesInv
<1> HIDE DEF name
<1>3. Grown(name.tables, item.tables) /\ IsType(item.tables, item.ref, type, << >>)
  BY <1>2, BaseTypeGrows DEF Grown
<1> HIDE DEF item
<1>4. Grown(tables, item.tables) /\ IsName(item.tables, name.ref, <<op>>)
  BY <1>2, <1>3, GrownTransitive, NameStays DEF Grown
<1>5. PICK c \in DOMAIN Registrations :
        Registrations[c].op = op /\ type \in ToSet(Registrations[c].types) /\ instr = Registrations[c].instr
  BY <1>1, <1>3, <1>4, ResolveFacts
<1> HIDE DEF instr
<1>6. CASE type \in Integer
  <2>1. PICK call \in IntegerOperands(type) :
          /\ ~Traps(instr, Bits[type], call.a, call.b)
          /\ result' = [op |-> op, type |-> type, lhs |-> call.lhs, rhs |-> call.rhs,
                        value |-> ExecuteInteger(instr, Bits[type], call.a, call.b)]
    BY <1>1, <1>6
  <2>2. PICK m \in Int, n \in Int : /\ call.lhs = m /\ call.rhs = n
                                    /\ call.a = ConstantBits(type, m) /\ call.b = ConstantBits(type, n)
    BY NumbersAssumption DEF IntegerOperands
  <2>3. IntegerInstr(op, type, instr)
    BY <1>5, <1>6, InstrFacts
  <2>4. Represents(type, m) /\ Represents(type, n) =>
          ExecuteInteger(instr, Bits[type], call.a, call.b) = Expected(type, op, m, n)
    BY <1>6, <2>1, <2>2, <2>3, IntegersCompute
  <2>5. /\ result'.op = op /\ result'.type = type /\ result'.lhs = m /\ result'.rhs = n
        /\ result'.value = ExecuteInteger(instr, Bits[type], call.a, call.b)
    BY <2>1, <2>2
  <2> QED
    BY <1>1, <1>6, <2>4, <2>5 DEF OperatorsCompute, Expected
<1>7. CASE type \notin Integer
  <2>1. PICK call \in FloatOperands :
          result' = [op |-> op, type |-> type, lhs |-> call.lhs, rhs |-> call.rhs,
                     value |-> ExecuteFloat(instr, call.a, call.b)]
    BY <1>1, <1>7
  <2>2. PICK x, y : call.lhs = x /\ call.rhs = y /\ call.a = x /\ call.b = y
    BY DEF FloatOperands
  <2>3. FloatInstr(op, instr)
    BY <1>5, <1>7, InstrFacts
  <2>4. op \notin {"+", "-", "*", "/"} /\ x # << >> /\ y # << >> =>
          ExecuteFloat(instr, x, y) = Meaning(op, x[1], y[1])
    BY <2>3, FloatsCompute
  <2>5. /\ result'.op = op /\ result'.type = type /\ result'.lhs = x /\ result'.rhs = y
        /\ result'.value = ExecuteFloat(instr, x, y)
    BY <2>1, <2>2
  <2> QED
    BY <1>1, <1>7, <2>4, <2>5 DEF OperatorsCompute
<1> QED
  BY <1>6, <1>7

\* What the other steps leave alone.
LEMMA OtherSteps ==
  ASSUME TablesInv, OperatorsInv, Grown(tables, tables'), UNCHANGED <<functions, registered>>,
         phase = "create" => phase' = "create", phase # "create" => phase' # "create",
         phase' \in {"create", "use", "compile", "second", "return"}
  PROVE  OperatorsOnce'
<1>1. \A c, j : IsDone(c, j)' <=> IsDone(c, j)
  BY DEF IsDone
<1>2. /\ registered' \in [call : 1 .. Len(Registrations) + 1, type : Nat \ {0}]
      /\ phase' # "create" => registered'.call = Len(Registrations) + 1
  BY DEF OperatorsInv, OperatorsOnce
<1> QED
  BY <1>1, <1>2, FunctionsStay

LEMMA OperatorsInit ==
  ASSUME Init
  PROVE  OperatorsInv
<1>1. phase = "create" /\ functions = << >> /\ result = NoResult
  BY DEF Init
<1>2. registered \in [call : 1 .. 26, type : Nat \ {0}] /\ registered.call = 1 /\ registered.type = 1
  BY DEF Init
<1>3. registered \in [call : 1 .. Len(Registrations) + 1, type : Nat \ {0}]
  BY <1>2, RegistrationsFacts
<1>4. functions \in Seq(ToSet(functions)) /\ DOMAIN functions = {}
  <2>1. << >> \in Seq(ToSet(<< >>)) /\ DOMAIN << >> = {}
    OBVIOUS
  <2> QED
    BY <1>1, <2>1
<1>5. ASSUME NEW c \in DOMAIN Registrations, NEW j \in DOMAIN Registrations[c].types
      PROVE  ~IsDone(c, j)
  <2>1. c \in 1 .. 25
    BY RegistrationsFacts
  <2>2. Registrations[c].types \in {Floats, Signed, Unsigned, AnyInteger}
    BY <2>1, CallsFacts
  <2>3. PICK n \in Nat : j \in 1 .. n
    BY <2>2, ListsFacts
  <2> QED
    BY <1>2, <2>1, <2>3 DEF IsDone
<1>6. OperatorsOnce
  BY <1>1, <1>3, <1>4, <1>5 DEF OperatorsOnce
<1> QED
  BY <1>1, <1>6 DEF OperatorsInv, OperatorsCompute

LEMMA OperatorsStep ==
  ASSUME TablesInv, OperatorsInv, [Next]_vars
  PROVE  OperatorsInv'
<1> DEFINE Phases == {"create", "use", "compile", "second", "return"}
<1>1. Grown(tables, tables')
  BY TablesStep
<1>2. phase \in Phases /\ OperatorsOnce /\ OperatorsCompute
  BY DEF OperatorsInv, OperatorsOnce
<1>3. ASSUME OperatorsOnce', phase' \in Phases, result' = result \/ result' = NoResult
      PROVE  OperatorsInv'
  BY <1>2, <1>3 DEF OperatorsInv, OperatorsCompute
<1>4. ASSUME UNCHANGED <<functions, registered>>, phase # "create", phase' \in Phases \ {"create"},
             result' = result \/ result' = NoResult
      PROVE  OperatorsInv'
  BY <1>1, <1>3, <1>4, OtherSteps
<1>5. CASE RegisterOperator
  <2>1. phase' \in {"failed", "create"} /\ result' = result
    BY <1>5 DEF RegisterOperator
  <2>2. OperatorsOnce'
    BY <1>5, RegisterOperatorStep
  <2>3. phase' \in Phases
    BY <2>1, <2>2 DEF OperatorsOnce
  <2> QED
    BY <1>3, <2>1, <2>2, <2>3
<1>6. CASE NextRegistration
  <2>1. phase' = phase /\ result' = result
    BY <1>6 DEF NextRegistration
  <2> QED
    BY <1>2, <1>3, <1>6, <2>1, NextRegistrationStep
<1>7. CASE DefineRuntime
  <2>1. result' = result
    BY <1>7 DEF DefineRuntime
  <2> QED
    BY <1>3, <1>7, <2>1, DefineRuntimeStep
<1>8. CASE ClientStep
  BY <1>4, <1>8 DEF ClientStep
<1>9. ASSUME NEW op \in Operators, NEW type \in Integer \cup ToSet(Floats), Evaluate(op, type)
      PROVE  OperatorsInv'
  <2>1. phase = "use" /\ phase' = "return" /\ UNCHANGED <<functions, registered>>
    BY <1>9 DEF Evaluate
  <2>2. OperatorsOnce'
    BY <1>1, <2>1, OtherSteps
  <2>3. OperatorsCompute'
    BY <1>9, EvaluateStep
  <2> QED
    BY <2>1, <2>2, <2>3 DEF OperatorsInv
<1>10. CASE Return
  BY <1>4, <1>10 DEF Return
<1>11. CASE BeginCompile
  BY <1>4, <1>11 DEF BeginCompile
<1>12. CASE SecondPass
  BY <1>4, <1>12 DEF SecondPass
<1>13. CASE EndCompile
  BY <1>4, <1>13 DEF EndCompile
<1>14. CASE \E r \in TypeRefs : Lower(r)
  <2>1. phase \in {"compile", "second"} /\ UNCHANGED <<functions, registered, phase, result>>
    BY <1>14 DEF Lower, Compiling
  <2> QED
    BY <1>4, <2>1
<1>15. CASE LowerPart
  <2>1. phase \in {"compile", "second"} /\ UNCHANGED <<functions, registered, phase, result>>
    BY <1>15 DEF LowerPart, Compiling
  <2> QED
    BY <1>4, <2>1
<1>16. CASE EndLower
  <2>1. phase \in {"compile", "second"} /\ UNCHANGED <<functions, registered, phase, result>>
    BY <1>16 DEF EndLower, PartsLowered, Compiling
  <2> QED
    BY <1>4, <2>1
<1>17. CASE LowerThrows
  <2>1. phase \in {"compile", "second"} /\ UNCHANGED <<functions, registered, result>> /\ phase' = "use"
    BY <1>17 DEF LowerThrows, PartsLowered, Compiling
  <2> QED
    BY <1>4, <2>1
<1>18. CASE UNCHANGED vars
  <2>1. UNCHANGED <<functions, registered, phase, result>>
    BY <1>18 DEF vars
  <2>2. OperatorsOnce'
    BY <1>1, <1>2, <2>1, OtherSteps
  <2> QED
    BY <1>2, <1>3, <2>1, <2>2
<1> QED
  BY <1>5, <1>6, <1>7, <1>8, <1>9, <1>10, <1>11, <1>12, <1>13, <1>14, <1>15, <1>16, <1>17, <1>18 DEF Next

\* Each operator is registered once for each of its types, and the compiler is made without a
\* throw; each function is such an overload, or one of the runtime.
THEOREM OperatorsInvariance == Spec => []OperatorsInv
<1>1. Init => OperatorsInv
  BY OperatorsInit
<1>2. TablesInv /\ OperatorsInv /\ [Next]_vars => OperatorsInv'
  BY OperatorsStep
<1> QED
  BY <1>1, <1>2, TablesInvariance, PTL DEF Spec

\* Whatever clients interned before, and however types and names came by their references, a
\* call of an operator runs the overload for the types of its operands, and computes what it says.
THEOREM OperatorsAlwaysCompute == Spec => []OperatorsCompute
<1>1. OperatorsInv => OperatorsCompute
  BY DEF OperatorsInv
<1> QED
  BY <1>1, OperatorsInvariance, PTL

-----------------------------------------------------------------------------
(* The lowering of types.                                                   *)

\* What is counted up to a number, and up to the next.
LEMMA CountFacts ==
  ASSUME NEW S, NEW i \in Nat
  PROVE  /\ Cardinality({j \in 1 .. i : j \in S}) \in Nat
         /\ Cardinality({j \in 1 .. i + 1 : j \in S}) = Cardinality({j \in 1 .. i : j \in S}) + (IF i + 1 \in S THEN 1 ELSE 0)
<1> DEFINE C == {j \in 1 .. i : j \in S}
           D == {j \in 1 .. i + 1 : j \in S}
<1>1. IsFiniteSet(1 .. i)
  BY FS_Interval
<1>2. IsFiniteSet(C)
  BY <1>1, FS_Subset
<1>3. Cardinality(C) \in Nat
  BY <1>2, FS_CardinalityType
<1>4. CASE i + 1 \in S
  <2>1. D = C \cup {i + 1} /\ i + 1 \notin C
    BY <1>4
  <2>2. Cardinality(C \cup {i + 1}) = Cardinality(C) + 1
    BY <1>2, <2>1, FS_AddElement
  <2> QED
    BY <1>3, <1>4, <2>1, <2>2
<1>5. CASE i + 1 \notin S
  <2>1. D = C
    BY <1>5
  <2> HIDE DEF C, D
  <2>2. Cardinality(D) = Cardinality(C) + 0
    BY <1>3, <2>1
  <2> QED
    BY <1>3, <1>5, <2>2 DEF C, D
<1> QED
  BY <1>4, <1>5

LEMMA PositionFacts ==
  ASSUME NEW r, NEW i \in Nat
  PROVE  /\ Position(r, 0) = 0 /\ Position(r, i) \in Nat
         /\ Position(r, i + 1) = Position(r, i) + (IF Kept(r, i + 1) THEN 1 ELSE 0)
<1> DEFINE S == {j \in Nat : Kept(r, j)}
           C(n) == {j \in 1 .. n : j \in S}
<1>1. \A n \in Nat : {j \in 1 .. n : Kept(r, j)} = C(n)
  OBVIOUS
<1>2. \A n \in Nat : Position(r, n) = Cardinality(C(n))
  BY <1>1 DEF Position
<1>3. Cardinality(C(i)) \in Nat /\ Cardinality(C(i + 1)) = Cardinality(C(i)) + (IF i + 1 \in S THEN 1 ELSE 0)
  BY CountFacts
<1>4. C(0) = {}
  OBVIOUS
<1>5. Position(r, 0) = 0
  BY <1>2, <1>4, FS_EmptySet
<1>6. i + 1 \in S <=> Kept(r, i + 1)
  OBVIOUS
<1> HIDE DEF C, S
<1> QED
  BY <1>2, <1>3, <1>5, <1>6

\* A list of elements of a set is one of a larger set.
LEMMA SeqOfMore ==
  ASSUME NEW S, NEW T, S \subseteq T, NEW s \in Seq(S)
  PROVE  s \in Seq(T) /\ DOMAIN s = 1 .. Len(s) /\ Len(s) \in Nat /\ \A i \in DOMAIN s : s[i] \in S
<1>1. Len(s) \in Nat /\ DOMAIN s = 1 .. Len(s) /\ \A i \in 1 .. Len(s) : s[i] \in S
  BY LenProperties, ElementOfSeq
<1> QED
  BY <1>1

\* How the references of a type are read: its text, and the older types it is made of.
LEMMA TypeReads ==
  ASSUME TablesOK(tables), NEW r \in DOMAIN tables.types
  PROVE  /\ Registered(tables, TextOf(r)) /\ StringOf(tables, TextOf(r)) = tables.types[r].name
         /\ tables.types[r].specs = tables.types[r].key /\ tables.types[r].specs \in Owned(tables)
         /\ SpecsOf(r) \in Seq(1 .. r - 1) /\ r \in Nat
<1>1. /\ tables.types[r].specs = tables.types[r].key /\ Live(tables, tables.types[r].key)
      /\ ToSet(Content(tables, tables.types[r].key)) \subseteq 1 .. r - 1
      /\ \E text \in {Empty} \cup DOMAIN tables.strings : StringOf(tables, text) = tables.types[r].name
  BY DEF TablesOK, TypesApart
<1>2. tables.types[r].key \in Views /\ r \in Nat
  BY Fields DEF TablesOK
<1>3. Content(tables, tables.types[r].key) \in Seq(Nat)
  BY <1>1, <1>2, LiveContent
<1>4. IsList(Content(tables, tables.types[r].key))
  BY <1>3, SeqIsList
<1>5. PICK s : s = SpecsOf(r) /\ IsList(s) /\ ToSet(s) \subseteq 1 .. r - 1
  BY <1>1, <1>4 DEF SpecsOf
<1>6. s \in Seq(1 .. r - 1)
  <2>1. PICK S, T : S = ToSet(s) /\ T = 1 .. r - 1 /\ S \subseteq T /\ s \in Seq(S)
    BY <1>5 DEF IsList
  <2>2. s \in Seq(T)
    BY <2>1, SeqOfMore
  <2> QED
    BY <2>1, <2>2
<1>7. TextOf(r) \in DOMAIN tables.strings \cup {Empty} /\ StringOf(tables, TextOf(r)) = tables.types[r].name
  BY <1>1 DEF TextOf
<1> QED
  BY <1>1, <1>2, <1>5, <1>6, <1>7 DEF Registered, Owned

LEMMA PartsFacts ==
  ASSUME TablesOK(tables), NEW r \in DOMAIN tables.types
  PROVE  /\ DOMAIN Parts(r) = 1 .. Len(Parts(r)) /\ Len(Parts(r)) \in Nat
         /\ \A i \in DOMAIN Parts(r) : Parts(r)[i] \in DOMAIN tables.types /\ Parts(r)[i] < r
<1>1. SpecsOf(r) \in Seq(1 .. r - 1) /\ r \in Nat
  BY TypeReads
<1>2. PICK s \in Seq(1 .. r - 1) : s = Parts(r)
  <2>1. << >> \in Seq(1 .. r - 1)
    OBVIOUS
  <2>2. Parts(r) \in Seq(1 .. r - 1)
    BY <1>1, <2>1, Zenon DEF Parts
  <2> QED
    BY <2>2
<1>3. DOMAIN s = 1 .. Len(s) /\ Len(s) \in Nat /\ \A i \in DOMAIN s : s[i] \in 1 .. r - 1
  BY SeqOfMore
<1>4. PICK n \in Nat : DOMAIN tables.types = 1 .. n
  BY Fields DEF TablesOK
<1>5. \A q \in 1 .. r - 1 : q \in DOMAIN tables.types /\ q < r
  BY <1>1, <1>4
<1> QED
  BY <1>2, <1>3, <1>5

\* A type stays what it is.
LEMMA TypesRead ==
  ASSUME TablesOK(tables), Grown(tables, tables'), NEW r \in DOMAIN tables.types
  PROVE  r \in DOMAIN tables'.types /\ TextOf(r)' = TextOf(r) /\ SpecsOf(r)' = SpecsOf(r)
<1>1. TablesOK(tables') /\ Extends(tables, tables')
  BY DEF Grown
<1>2. r \in DOMAIN tables'.types /\ tables'.types[r] = tables.types[r]
  BY <1>1 DEF Extends
<1>3. Content(tables', tables.types[r].specs) = Content(tables, tables.types[r].specs)
  BY <1>1, TypeReads DEF Extends
<1>4. SpecsOf(r)' = SpecsOf(r)
  BY <1>2, <1>3 DEF SpecsOf
<1>5. Registered(tables, TextOf(r)) /\ StringOf(tables, TextOf(r)) = tables.types[r].name
  BY TypeReads
<1>6. Registered(tables', TextOf(r)) /\ StringOf(tables', TextOf(r)) = tables'.types[r].name
  BY <1>1, <1>2, <1>5, StringsStay
<1>7. \E text \in DOMAIN tables'.strings \cup {Empty} : StringOf(tables', text) = tables'.types[r].name
  BY <1>6 DEF Registered
<1>8. PICK text : /\ text = TextOf(r)' /\ Registered(tables', text)
                  /\ StringOf(tables', text) = tables'.types[r].name
  BY <1>7 DEF TextOf, Registered
<1>9. TextOf(r)' = TextOf(r)
  BY <1>1, <1>6, <1>8, StringOfFacts
<1> QED
  BY <1>2, <1>4, <1>9

LEMMA PartsStay ==
  ASSUME TablesOK(tables), Grown(tables, tables'), NEW r \in DOMAIN tables.types
  PROVE  /\ r \in DOMAIN tables'.types /\ Parts(r)' = Parts(r) /\ (IsTuple(r)' <=> IsTuple(r))
         /\ \A i \in DOMAIN Parts(r) : Kept(r, i)' <=> Kept(r, i)
         /\ \A i \in 0 .. Len(Parts(r)) : Position(r, i)' = Position(r, i)
<1>1. r \in DOMAIN tables'.types /\ TextOf(r)' = TextOf(r) /\ SpecsOf(r)' = SpecsOf(r)
  BY TypesRead
<1>2. Parts(r)' = Parts(r) /\ (IsTuple(r)' <=> IsTuple(r))
  BY <1>1 DEF Parts, IsPointer, IsTuple
<1>3. ASSUME NEW i \in DOMAIN Parts(r) PROVE Kept(r, i)' <=> Kept(r, i)
  <2>1. PICK q \in DOMAIN tables.types : q = Parts(r)[i]
    BY PartsFacts
  <2>2. TextOf(q)' = TextOf(q) /\ SpecsOf(q)' = SpecsOf(q)
    BY TypesRead
  <2>3. IsVoid(q)' <=> IsVoid(q)
    BY <2>2 DEF IsVoid
  <2>4. q = Parts(r)'[i]
    BY <1>2, <2>1
  <2> QED
    BY <1>2, <2>1, <2>3, <2>4 DEF Kept
<1>4. ASSUME NEW i \in 0 .. Len(Parts(r)) PROVE Position(r, i)' = Position(r, i)
  <2>1. \A j \in 1 .. i : j \in DOMAIN Parts(r)
    BY PartsFacts
  <2>2. {j \in 1 .. i : Kept(r, j)'} = {j \in 1 .. i : Kept(r, j)}
    BY <1>3, <2>1
  <2> QED
    BY <2>2 DEF Position
<1> QED
  BY <1>1, <1>2, <1>3, <1>4

\* The names of numeric types are none of the others, nor are those of LLVM's.
LEMMA NumericFacts ==
  \A text \in DOMAIN LLVMNumeric :
    /\ text \notin {"ptr", "tuple", "unqual", "void"}
    /\ LLVMNumeric[text] \notin {"null", "struct"}
<1>1. DOMAIN NumericNames = 1 .. 11
  BY DEF NumericNames
<1>2. \A i \in 1 .. 11 : NumericNames[i] \notin {"ptr", "tuple", "unqual", "void"}
  BY DEF NumericNames
<1>3. \A i \in 1 .. 11 : LLVMNames[i] \notin {"null", "struct"}
  BY DEF LLVMNames
<1> TAKE text \in DOMAIN LLVMNumeric
<1>4. text \in ToSet(NumericNames) /\ LLVMNumeric[text] = LLVMNames[CHOOSE i \in DOMAIN NumericNames : NumericNames[i] = text]
  BY DEF LLVMNumeric
<1>5. \E i \in DOMAIN NumericNames : NumericNames[i] = text
  BY <1>4 DEF ToSet
<1>6. PICK i \in DOMAIN NumericNames : NumericNames[i] = text /\ LLVMNumeric[text] = LLVMNames[i]
  BY <1>4, <1>5
<1> QED
  BY <1>1, <1>2, <1>3, <1>6

\* What a type is lowered to: no null, a new struct if it is a tuple, made of its parts.
LEMMA LoweredFacts ==
  ASSUME NEW r, Lowerable(r), NEW parts
  PROVE  /\ Lowered(r, parts).kind # "null"
         /\ Lowered(r, parts).kind = "struct" <=> IsTuple(r)
         /\ IsTuple(r) => Lowered(r, parts).number = lowering.structs + 1
         /\ IsPointer(r) \/ IsTuple(r) => Lowered(r, parts).parts = parts
<1>1. CASE TextOf(r) = "ptr"
  <2>1. Lowered(r, parts) = LLVM("ptr", 0, parts)
    BY <1>1 DEF Lowered
  <2> QED
    BY <1>1, <2>1 DEF LLVM, IsTuple
<1>2. CASE TextOf(r) = "tuple"
  <2>1. Lowered(r, parts) = LLVM("struct", lowering.structs + 1, parts)
    BY <1>2 DEF Lowered
  <2> QED
    BY <1>2, <2>1 DEF LLVM, IsTuple, IsPointer
<1>3. CASE TextOf(r) = "unqual"
  <2>1. Lowered(r, parts) = LLVM("ptr", 0, <<Basic("int32")>>)
    BY <1>3 DEF Lowered
  <2> QED
    BY <1>3, <2>1 DEF LLVM, IsTuple, IsPointer
<1>4. CASE TextOf(r) = "void"
  <2>1. Lowered(r, parts) = Basic("void")
    BY <1>4 DEF Lowered
  <2> QED
    BY <1>4, <2>1 DEF LLVM, Basic, IsTuple, IsPointer
<1>5. CASE TextOf(r) \notin {"ptr", "tuple", "unqual", "void"}
  <2>1. Lowered(r, parts) = Basic(LLVMNumeric[TextOf(r)])
    BY <1>5 DEF Lowered
  <2>2. TextOf(r) \in DOMAIN LLVMNumeric
    BY <1>5 DEF Lowerable, IsPointer, IsTuple, IsVoid
  <2>3. LLVMNumeric[TextOf(r)] \notin {"null", "struct"}
    BY <2>2, NumericFacts
  <2>4. Lowered(r, parts).kind = LLVMNumeric[TextOf(r)]
    BY <2>1 DEF LLVM, Basic
  <2> QED
    BY <1>5, <2>3, <2>4 DEF IsTuple, IsPointer
<1> QED
  BY <1>1, <1>2, <1>3, <1>4, <1>5

\* That the cache still has what was whole.
WholeStays == \A q \in DOMAIN Cache : Cache[q] # Null => q \in DOMAIN Cache' /\ Cache'[q] = Cache[q]

\* What has its parts goes on having them.
LEMMA PartsInStays ==
  ASSUME TablesOK(tables), Grown(tables, tables'), WholeStays, NEW r \in DOMAIN tables.types,
         NEW i, NEW parts, PartsIn(r, i, parts)
  PROVE  PartsIn(r, i, parts)'
<1>1. Parts(r)' = Parts(r) /\ (\A k \in DOMAIN Parts(r) : Kept(r, k)' <=> Kept(r, k))
  BY PartsStay
<1>2. \A k \in DOMAIN Parts(r) : Position(r, k)' = Position(r, k)
  <2>1. \A k \in DOMAIN Parts(r) : k \in 0 .. Len(Parts(r))
    BY PartsFacts
  <2> QED
    BY <2>1, PartsStay
<1>3. SUFFICES ASSUME NEW k \in DOMAIN Parts(r)', k < i, Kept(r, k)'
               PROVE  /\ Parts(r)'[k] \in DOMAIN Cache' /\ Cache'[Parts(r)'[k]] # Null
                      /\ Position(r, k)' \in DOMAIN parts /\ parts[Position(r, k)'] = Cache'[Parts(r)'[k]]
  BY DEF PartsIn, Null, Basic, LLVM
<1>4. k \in DOMAIN Parts(r) /\ Kept(r, k)
  BY <1>1, <1>3
<1>5. /\ Parts(r)[k] \in DOMAIN Cache /\ Cache[Parts(r)[k]] # Null
      /\ Position(r, k) \in DOMAIN parts /\ parts[Position(r, k)] = Cache[Parts(r)[k]]
  BY <1>3, <1>4 DEF PartsIn
<1>6. Parts(r)[k] \in DOMAIN Cache' /\ Cache'[Parts(r)[k]] = Cache[Parts(r)[k]]
  BY <1>5 DEF WholeStays
<1> QED
  BY <1>1, <1>2, <1>4, <1>5, <1>6

LEMMA PartlyStays ==
  ASSUME TablesOK(tables), Grown(tables, tables'), WholeStays, NEW frame \in Frames,
         DOMAIN Cache \subseteq DOMAIN tables.types, IsPartly(frame)
  PROVE  IsPartly(frame)'
<1>1. frame.type \in DOMAIN tables.types /\ frame.next \in Nat \ {0}
  BY DEF Frames
<1>2. PICK r, i, parts : r = frame.type /\ i = frame.next /\ parts = frame.parts
  OBVIOUS
<1>3. i <= Len(Parts(r)) + 1 /\ Len(parts) = Position(r, i - 1) /\ PartsIn(r, i, parts)
  BY <1>2 DEF IsPartly
<1>4. PartsIn(r, i, parts)'
  BY <1>1, <1>2, <1>3, PartsInStays
<1>5. Parts(r)' = Parts(r) /\ Position(r, i - 1)' = Position(r, i - 1)
  <2>1. i - 1 \in 0 .. Len(Parts(r))
    BY <1>1, <1>2, <1>3, PartsFacts
  <2> QED
    BY <1>1, <1>2, <2>1, PartsStay
<1> QED
  BY <1>2, <1>3, <1>4, <1>5 DEF IsPartly

\* What is whole stays so; what comes into the cache in its place is to be whole.
LEMMA EntriesStay ==
  ASSUME TablesOK(tables), Grown(tables, tables'), WholeStays, CachedWhole, DOMAIN Cache \subseteq DOMAIN tables.types,
         NEW q \in DOMAIN Cache, Cache[q] # Null
  PROVE  (PartsIn(q, Len(Parts(q)) + 1, Cache[q].parts))'
<1>1. PICK n, parts : n = Len(Parts(q)) + 1 /\ parts = Cache[q].parts /\ PartsIn(q, n, parts)
  BY DEF CachedWhole
<1>2. PartsIn(q, n, parts)'
  BY <1>1, PartsInStays
<1>3. Parts(q)' = Parts(q) /\ Cache'[q] = Cache[q]
  BY PartsStay DEF WholeStays
<1>4. n = Len(Parts(q)') + 1 /\ parts = Cache'[q].parts
  BY <1>1, <1>3
<1> QED
  BY <1>2, <1>4

\* While nothing happens to the cache.
LEMMA LoweringStays ==
  ASSUME TablesInv, LoweringOK, Grown(tables, tables'), UNCHANGED lowering, answers' \subseteq answers,
         Compiling' => Compiling, ~Compiling' => Open = << >> /\ answers' = {}
  PROVE  LoweringOK'
<1>1. Cache' = Cache /\ Open' = Open
  BY DEF Cache, Open
<1>2. TablesOK(tables) /\ LoweringTyped
  BY DEF TablesInv, LoweringOK
<1>3. WholeStays
  BY <1>1 DEF WholeStays
<1>4. DOMAIN tables.types \subseteq DOMAIN tables'.types
  BY DEF Grown, Extends
<1>5. LoweringTyped'
  BY <1>1, <1>2, <1>4 DEF LoweringTyped, Frames, Null, Basic, LLVM
<1>6. ASSUME Compiling' PROVE NullsOpen' /\ OpenPartly' /\ CachedWhole' /\ AnswersCached'
  <2>1. NullsOpen /\ OpenPartly /\ CachedWhole /\ AnswersCached
    BY <1>6 DEF LoweringOK
  <2>2. NullsOpen'
    BY <1>1, <2>1 DEF NullsOpen, Null, Basic, LLVM
  <2>3. OpenPartly'
    <3>1. \A k \in DOMAIN Open : Open[k] \in Frames
      BY <1>2, SeqOfMore DEF LoweringTyped
    <3>2. \A frame \in Frames : IsPartly(frame) => IsPartly(frame)'
      BY <1>2, <1>3, PartlyStays DEF LoweringTyped
    <3> QED
      BY <1>1, <2>1, <3>1, <3>2 DEF OpenPartly
  <2>4. CachedWhole'
    <3>1. \A q \in DOMAIN Cache : Cache[q] # Null => (PartsIn(q, Len(Parts(q)) + 1, Cache[q].parts))'
      BY <1>2, <1>3, <2>1, EntriesStay DEF LoweringTyped
    <3> QED
      BY <1>1, <2>1, <3>1 DEF CachedWhole, Null, Basic, LLVM
  <2>5. AnswersCached'
    BY <1>1, <2>1 DEF AnswersCached, Null, Basic, LLVM
  <2> QED
    BY <2>2, <2>3, <2>4, <2>5
<1> QED
  BY <1>5, <1>6 DEF LoweringOK

\* The call that is under way innermost, and its type.
LEMMA InnerFacts ==
  ASSUME TablesInv, LoweringOK, Compiling, Open # << >>
  PROVE  /\ Inner \in Frames /\ Inner = Open[Len(Open)] /\ IsPartly(Inner) /\ Len(Open) \in Nat \ {0}
         /\ DOMAIN Open = 1 .. Len(Open) /\ Inner.type \in DOMAIN tables.types /\ Inner.type \in DOMAIN Cache
         /\ Inner.type \in Nat
         /\ \A k \in DOMAIN Open : Open[k].type \in Nat
         /\ \A k \in 1 .. Len(Open) - 1 : k \in DOMAIN Open /\ Inner.type < Open[k].type
<1>1. Open \in Seq(Frames) /\ DOMAIN Cache \subseteq DOMAIN tables.types /\ NullsOpen /\ OpenPartly
  BY DEF LoweringOK, LoweringTyped
<1>2. Inner = Last(Open) /\ Inner \in Frames /\ Inner = Open[Len(Open)]
  BY <1>1, FrontFacts DEF Inner, Open
<1>3. Len(Open) \in Nat \ {0} /\ DOMAIN Open = 1 .. Len(Open)
  BY <1>1, EmptySeq, SeqOfMore
<1>4. Inner.type \in DOMAIN Cache /\ \A k \in DOMAIN Open : Open[k].type \in DOMAIN Cache
  <2>1. \A k \in DOMAIN Open : Open[k] \in Frames
    BY <1>1, SeqOfMore
  <2>2. \A f \in Frames : f.type \in DOMAIN Cache
    BY DEF Frames
  <2> QED
    BY <1>2, <2>1, <2>2
<1>5. \A r \in DOMAIN tables.types : r \in Nat
  BY Fields DEF TablesInv, TablesOK
<1>6. Len(Open) \in DOMAIN Open /\ \A k \in 1 .. Len(Open) - 1 : k \in DOMAIN Open /\ k < Len(Open)
  BY <1>3
<1>7. \A k \in 1 .. Len(Open) - 1 : Inner.type < Open[k].type
  BY <1>1, <1>2, <1>6 DEF NullsOpen
<1>8. IsPartly(Inner)
  BY <1>1, <1>2, <1>6 DEF OpenPartly
<1> QED
  BY <1>1, <1>2, <1>3, <1>4, <1>5, <1>6, <1>7, <1>8

\* What type_ref_type begins with: a null that is open, for a type older than all that are.
LEMMA EnterStep ==
  ASSUME TablesInv, LoweringOK, Grown(tables, tables'), Compiling, Compiling', UNCHANGED answers,
         NEW r \in DOMAIN tables.types, ~Known(r), Enter(r), \A k \in DOMAIN Open : r < Open[k].type
  PROVE  LoweringOK'
<1> DEFINE frame == [type |-> r, next |-> 1, parts |-> << >>]
<1>1. TablesOK(tables) /\ LoweringTyped /\ NullsOpen /\ OpenPartly /\ CachedWhole /\ AnswersCached
  BY DEF TablesInv, LoweringOK
<1>2. r \notin DOMAIN Cache
  BY DEF Known, Cache
<1>3. Cache' = Caching(r, Null) /\ Open' = Append(Open, frame) /\ lowering'.structs = lowering.structs
      /\ lowering' \in [cache : {Cache'}, structs : Nat, open : {Open'}]
  BY <1>1 DEF Enter, LoweringTyped, Cache, Open
<1>4. /\ DOMAIN Cache' = DOMAIN Cache \cup {r} /\ Cache'[r] = Null
      /\ \A q \in DOMAIN Cache : q \in DOMAIN Cache' /\ q # r /\ Cache'[q] = Cache[q]
  BY <1>2, <1>3 DEF Caching, Cache
<1>5. WholeStays
  BY <1>4 DEF WholeStays
<1>6. Frames \subseteq Frames' /\ frame \in Frames'
  <2>1. Range(Cache) \ {Null} \subseteq Range(Cache') \ {Null}
    BY <1>4 DEF Range
  <2>2. Seq(Range(Cache) \ {Null}) \subseteq Seq(Range(Cache') \ {Null})
    BY <2>1, SeqOfMore
  <2>3. << >> \in Seq(Range(Cache') \ {Null})
    OBVIOUS
  <2>4. Frames' = [type : DOMAIN Cache', next : Nat \ {0}, parts : Seq(Range(Cache') \ {Null})]
    BY DEF Frames, Null, Basic, LLVM
  <2>5. PICK D, E, P, Q : /\ D = DOMAIN Cache /\ E = DOMAIN Cache' /\ D \subseteq E /\ r \in E
                          /\ P = Seq(Range(Cache) \ {Null}) /\ Q = Seq(Range(Cache') \ {Null})
                          /\ P \subseteq Q /\ << >> \in Q
    BY <1>4, <2>2, <2>3
  <2>6. [type : D, next : Nat \ {0}, parts : P] \subseteq [type : E, next : Nat \ {0}, parts : Q]
    BY <2>5, Zenon
  <2>7. frame \in [type : E, next : Nat \ {0}, parts : Q]
    BY <2>5
  <2> QED
    BY <2>4, <2>5, <2>6, <2>7 DEF Frames
<1>7. /\ Open \in Seq(Frames') /\ Open' \in Seq(Frames') /\ DOMAIN Open = 1 .. Len(Open) /\ Len(Open) \in Nat
      /\ DOMAIN Open' = 1 .. Len(Open) + 1
      /\ \A k \in DOMAIN Open : Open[k] \in Frames /\ Open'[k] = Open[k]
      /\ Open'[Len(Open) + 1] = frame
  <2>1. Open \in Seq(Frames') /\ DOMAIN Open = 1 .. Len(Open) /\ Len(Open) \in Nat /\ \A k \in DOMAIN Open : Open[k] \in Frames
    BY <1>1, <1>6, SeqOfMore DEF LoweringTyped
  <2>2. PICK F : F = Frames'
    OBVIOUS
  <2>3. /\ Append(Open, frame) \in Seq(F) /\ Len(Append(Open, frame)) = Len(Open) + 1
        /\ \A i \in 1 .. Len(Open) : Append(Open, frame)[i] = Open[i]
        /\ Append(Open, frame)[Len(Open) + 1] = frame
    BY <1>6, <2>1, <2>2, AppendProperties
  <2>4. DOMAIN Append(Open, frame) = 1 .. Len(Open) + 1
    BY <2>3, SeqOfMore
  <2> QED
    BY <1>3, <2>1, <2>2, <2>3, <2>4
<1>8. \A k \in DOMAIN Open' : k \in DOMAIN Open \/ k = Len(Open) + 1
  BY <1>7
<1> HIDE DEF frame
<1>9. frame.type = r /\ frame.next = 1 /\ frame.parts = << >>
  BY DEF frame
<1>10. LoweringTyped'
  <2>1. DOMAIN tables.types \subseteq DOMAIN tables'.types
    BY DEF Grown, Extends
  <2> QED
    BY <1>1, <1>3, <1>4, <1>7, <2>1 DEF LoweringTyped
<1>11. NullsOpen'
  <2>1. ASSUME NEW k \in DOMAIN Open', NEW m \in DOMAIN Open', k < m
        PROVE  Open'[m].type < Open'[k].type
    <3>1. k \in DOMAIN Open
      BY <1>7, <2>1
    <3>2. CASE m \in DOMAIN Open
      BY <1>1, <1>7, <2>1, <3>1, <3>2 DEF NullsOpen
    <3>3. CASE m = Len(Open) + 1
      BY <1>7, <1>9, <3>1, <3>3
    <3> QED
      BY <1>8, <3>2, <3>3
  <2>2. ASSUME NEW q \in DOMAIN Cache' PROVE Cache'[q] = Null <=> \E k \in DOMAIN Open' : Open'[k].type = q
    <3>1. CASE q = r
      <4>1. Len(Open) + 1 \in DOMAIN Open' /\ Open'[Len(Open) + 1].type = r
        BY <1>7, <1>9
      <4> QED
        BY <1>4, <3>1, <4>1
    <3>2. CASE q \in DOMAIN Cache
      <4>1. Cache[q] = Null <=> \E k \in DOMAIN Open : Open[k].type = q
        BY <1>1, <3>2 DEF NullsOpen
      <4>2. (\E k \in DOMAIN Open : Open[k].type = q) <=> \E k \in DOMAIN Open' : Open'[k].type = q
        BY <1>4, <1>7, <1>8, <1>9, <3>2
      <4> QED
        BY <1>4, <3>2, <4>1, <4>2
    <3> QED
      BY <1>4, <3>1, <3>2
  <2> QED
    BY <2>1, <2>2 DEF NullsOpen, Null, Basic, LLVM
<1>12. OpenPartly'
  <2>1. \A f \in Frames : IsPartly(f) => IsPartly(f)'
    BY <1>1, <1>5, PartlyStays DEF LoweringTyped
  <2>2. IsPartly(frame)'
    <3>1. PICK f : f = frame
      OBVIOUS
    <3>2. f.type = r /\ f.next = 1 /\ f.parts = << >>
      BY <1>9, <3>1
    <3>3. Parts(r)' = Parts(r) /\ Len(Parts(r)) \in Nat /\ DOMAIN Parts(r) = 1 .. Len(Parts(r))
      BY <1>1, PartsStay, PartsFacts
    <3>4. Position(r, 0)' = 0
      <4>1. Position(r, 0)' = Position(r, 0)
        BY <1>1, <3>3, PartsStay
      <4>2. Position(r, 0) = 0
        BY PositionFacts
      <4> QED
        BY <4>1, <4>2
    <3>5. f.next <= Len(Parts(r)') + 1 /\ f.next - 1 = 0 /\ Len(f.parts) = 0
      BY <3>2, <3>3
    <3>6. PartsIn(r, 1, << >>)'
      BY <3>3 DEF PartsIn
    <3>7. IsPartly(f)'
      BY <3>2, <3>4, <3>5, <3>6 DEF IsPartly
    <3> QED
      BY <3>1, <3>7 DEF frame
  <2>3. ASSUME NEW k \in DOMAIN Open' PROVE IsPartly(Open[k])' \/ Open'[k] = frame
    BY <1>1, <1>7, <1>8, <2>1 DEF OpenPartly
  <2> QED
    BY <1>1, <1>7, <1>8, <2>1, <2>2 DEF OpenPartly
<1>13. CachedWhole'
  <2>1. \A q \in DOMAIN Cache : Cache[q] # Null => (PartsIn(q, Len(Parts(q)) + 1, Cache[q].parts))'
    BY <1>1, <1>5, EntriesStay DEF LoweringTyped
  <2>2. Null.kind # "struct"
    BY DEF Null, Basic, LLVM
  <2>3. \A q \in DOMAIN Cache' : Cache'[q].kind = "struct" => q \in DOMAIN Cache /\ Cache'[q] = Cache[q]
    BY <1>4, <2>2
  <2>4. \A q \in DOMAIN Cache' : Cache'[q] # Null => q \in DOMAIN Cache /\ Cache'[q] = Cache[q]
    BY <1>4
  <2> QED
    BY <1>1, <1>3, <2>1, <2>3, <2>4 DEF CachedWhole, Null, Basic, LLVM
<1>14. AnswersCached'
  BY <1>1, <1>4 DEF AnswersCached, Null, Basic, LLVM
<1> QED
  BY <1>10, <1>11, <1>12, <1>13, <1>14 DEF LoweringOK

\* The innermost call on a stack gives way to g, which is of the same type.
LEMMA Replaced ==
  ASSUME TablesInv, LoweringOK, Compiling, Open # << >>, NEW g \in Frames
  PROVE  LET s == Append(Front(Open), g) IN
         /\ s \in Seq(Frames) /\ DOMAIN s = DOMAIN Open /\ s[Len(Open)] = g
         /\ \A k \in DOMAIN Open : k # Len(Open) => s[k] = Open[k]
<1>1. Open \in Seq(Frames)
  BY DEF LoweringOK, LoweringTyped
<1>2. PICK n \in Nat : n = Len(Open) - 1 /\ Len(Open) = n + 1 /\ DOMAIN Open = 1 .. n + 1
  <2>1. PICK m \in Nat \ {0} : m = Len(Open) /\ DOMAIN Open = 1 .. m
    BY InnerFacts
  <2>2. PICK n \in Nat : n = m - 1 /\ m = n + 1
    BY <2>1
  <2>3. n = Len(Open) - 1 /\ Len(Open) = n + 1 /\ DOMAIN Open = 1 .. n + 1
    BY <2>1, <2>2
  <2> QED
    BY <2>3
<1>3. PICK f \in Seq(Frames) : f = Front(Open) /\ Len(f) = n /\ \A k \in 1 .. n : f[k] = Open[k]
  BY <1>1, <1>2, FrontFacts
<1>4. PICK s \in Seq(Frames) : /\ s = Append(f, g) /\ Len(s) = n + 1
                               /\ \A k \in 1 .. n : s[k] = f[k]
                               /\ s[n + 1] = g
  <2>1. /\ Append(f, g) \in Seq(Frames) /\ Len(Append(f, g)) = Len(f) + 1
        /\ \A k \in 1 .. Len(f) : Append(f, g)[k] = f[k]
        /\ Append(f, g)[Len(f) + 1] = g
    BY AppendProperties
  <2> QED
    BY <1>3, <2>1
<1>5. DOMAIN s = 1 .. n + 1
  BY <1>4, SeqOfMore
<1>6. \A k \in 1 .. n + 1 : k # n + 1 => k \in 1 .. n
  BY <1>2
<1> QED
  BY <1>2, <1>3, <1>4, <1>5, <1>6

\* A part that is in the cache is whole: what is open is no older than the innermost call.
LEMMA PartIsWhole ==
  ASSUME TablesInv, LoweringOK, Compiling, Open # << >>, NEW i \in DOMAIN Parts(Inner.type),
         Known(Parts(Inner.type)[i])
  PROVE  Parts(Inner.type)[i] \in DOMAIN Cache /\ Cache[Parts(Inner.type)[i]] # Null
<1>1. PICK r : r = Inner.type /\ r \in DOMAIN tables.types /\ r \in Nat
  BY InnerFacts
<1>2. PICK q \in Nat : q = Parts(r)[i] /\ q < r /\ q \in DOMAIN Cache
  <2>1. Parts(r)[i] \in DOMAIN tables.types /\ Parts(r)[i] < r
    BY <1>1, PartsFacts DEF TablesInv
  <2>2. Parts(r)[i] \in Nat
    BY <2>1, Fields DEF TablesInv, TablesOK
  <2> QED
    BY <1>1, <2>1, <2>2 DEF Known, Cache
<1>3. \A k \in DOMAIN Open : Open[k].type # q
  <2> TAKE k \in DOMAIN Open
  <2>1. k = Len(Open) \/ k \in 1 .. Len(Open) - 1
    BY InnerFacts
  <2>2. Open[k].type = r \/ (Open[k].type > r /\ Open[k].type \in Nat)
    BY <1>1, <2>1, InnerFacts
  <2> QED
    BY <1>1, <1>2, <2>2
<1>4. Cache[q] # Null
  BY <1>2, <1>3 DEF LoweringOK, NullsOpen
<1> QED
  BY <1>1, <1>2, <1>4

\* The innermost call has one more part.
Advanced(add) == [type |-> Inner.type, next |-> Inner.next + 1, parts |-> Inner.parts \o add]

LEMMA AdvancedFacts ==
  ASSUME TablesInv, LoweringOK, Compiling, Open # << >>, Inner.next \in DOMAIN Parts(Inner.type),
         Kept(Inner.type, Inner.next) => Known(Parts(Inner.type)[Inner.next]),
         NEW add, add = IF Kept(Inner.type, Inner.next) THEN <<Cache[Parts(Inner.type)[Inner.next]]>> ELSE << >>
  PROVE  Advanced(add) \in Frames /\ IsPartly(Advanced(add)) /\ Advanced(add).type = Inner.type
<1>1. PICK r, i, parts : r = Inner.type /\ i = Inner.next /\ parts = Inner.parts
  OBVIOUS
<1>2. /\ r \in DOMAIN Cache /\ r \in DOMAIN tables.types /\ i \in Nat \ {0} /\ i \in DOMAIN Parts(r)
      /\ parts \in Seq(Range(Cache) \ {Null})
  BY <1>1, InnerFacts DEF Frames
<1>3. Len(parts) = Position(r, i - 1) /\ PartsIn(r, i, parts)
  BY <1>1, InnerFacts DEF IsPartly
<1>4. /\ Kept(r, i) => Parts(r)[i] \in DOMAIN Cache /\ Cache[Parts(r)[i]] \in Range(Cache) \ {Null}
      /\ add = IF Kept(r, i) THEN <<Cache[Parts(r)[i]]>> ELSE << >>
  BY <1>1, <1>2, PartIsWhole DEF Range
<1>5. /\ add \in Seq(Range(Cache) \ {Null})
      /\ Len(add) = IF Kept(r, i) THEN 1 ELSE 0
      /\ Kept(r, i) => add[1] = Cache[Parts(r)[i]]
  <2>1. CASE Kept(r, i)
    <3>1. PICK c \in Range(Cache) \ {Null} : c = Cache[Parts(r)[i]] /\ add = <<c>>
      BY <1>4, <2>1
    <3>2. <<c>> \in Seq(Range(Cache) \ {Null}) /\ Len(<<c>>) = 1 /\ <<c>>[1] = c
      BY ShortSeqs
    <3> QED
      BY <2>1, <3>1, <3>2
  <2>2. CASE ~Kept(r, i)
    <3>1. << >> \in Seq(Range(Cache) \ {Null}) /\ Len(<< >>) = 0
      OBVIOUS
    <3> QED
      BY <1>4, <2>2, <3>1
  <2> QED
    BY <2>1, <2>2
<1>6. PICK S : S = Range(Cache) \ {Null}
  OBVIOUS
<1>7. PICK all \in Seq(S) : /\ all = parts \o add /\ Len(all) = Len(parts) + Len(add)
                            /\ \A k \in 1 .. Len(parts) : all[k] = parts[k]
                            /\ Kept(r, i) => all[Len(parts) + 1] = Cache[Parts(r)[i]]
  <2>1. parts \in Seq(S) /\ add \in Seq(S)
    BY <1>2, <1>5, <1>6
  <2>2. /\ parts \o add \in Seq(S) /\ Len(parts \o add) = Len(parts) + Len(add)
        /\ \A k \in 1 .. Len(parts) + Len(add) :
             (parts \o add)[k] = IF k <= Len(parts) THEN parts[k] ELSE add[k - Len(parts)]
    BY <2>1, ConcatProperties
  <2>3. PICK m \in Nat : m = Len(parts)
    BY <2>1, LenProperties
  <2>4. PICK n \in Nat : n = Len(add)
    BY <2>1, LenProperties
  <2>5. \A k \in 1 .. m : (parts \o add)[k] = parts[k]
    BY <2>2, <2>3, <2>4
  <2>6. Kept(r, i) => (parts \o add)[m + 1] = add[1]
    <3>1. HAVE Kept(r, i)
    <3>2. n = 1 /\ m + 1 \in 1 .. m + n /\ ~(m + 1 <= m) /\ m + 1 - m = 1
      BY <1>5, <2>4, <3>1
    <3> QED
      BY <2>2, <2>3, <2>4, <3>2
  <2> QED
    BY <1>5, <2>2, <2>3, <2>5, <2>6
<1>8. PICK m \in Nat : m = Len(parts) /\ m = Position(r, i - 1) /\ DOMAIN parts = 1 .. m
  BY <1>2, <1>3, SeqOfMore
<1>9. Position(r, i) = m + (IF Kept(r, i) THEN 1 ELSE 0)
  <2>1. PICK j \in Nat : j = i - 1 /\ i = j + 1
    BY <1>2
  <2>2. Position(r, j + 1) = Position(r, j) + (IF Kept(r, j + 1) THEN 1 ELSE 0)
    BY PositionFacts
  <2> QED
    BY <1>8, <2>1, <2>2
<1>10. Len(all) = Position(r, i) /\ DOMAIN all = 1 .. Len(all) /\ Len(all) \in Nat
  <2>1. Len(all) = m + (IF Kept(r, i) THEN 1 ELSE 0)
    BY <1>5, <1>7, <1>8
  <2> QED
    BY <1>9, <2>1, SeqOfMore
<1>11. PartsIn(r, i + 1, all)
  <2>1. SUFFICES ASSUME NEW k \in DOMAIN Parts(r), k < i + 1, Kept(r, k)
                 PROVE  /\ Parts(r)[k] \in DOMAIN Cache /\ Cache[Parts(r)[k]] # Null
                        /\ Position(r, k) \in DOMAIN all /\ all[Position(r, k)] = Cache[Parts(r)[k]]
    BY DEF PartsIn
  <2>2. k \in Nat
    BY <1>2, PartsFacts DEF TablesInv
  <2>3. CASE k = i
    <3>1. Position(r, i) = m + 1 /\ m + 1 \in DOMAIN all
      BY <1>8, <1>9, <1>10, <2>1, <2>3
    <3> QED
      BY <1>4, <1>7, <1>8, <2>1, <2>3, <3>1
  <2>4. CASE k < i
    <3>1. /\ Parts(r)[k] \in DOMAIN Cache /\ Cache[Parts(r)[k]] # Null
          /\ Position(r, k) \in 1 .. m /\ parts[Position(r, k)] = Cache[Parts(r)[k]]
      BY <1>3, <1>8, <2>1, <2>4 DEF PartsIn
    <3>2. Position(r, k) \in DOMAIN all
      BY <1>8, <1>9, <1>10, <3>1
    <3> QED
      BY <1>7, <1>8, <3>1, <3>2
  <2> QED
    BY <1>2, <2>1, <2>2, <2>3, <2>4
<1>12. Advanced(add) = [type |-> r, next |-> i + 1, parts |-> all]
  BY <1>1, <1>7 DEF Advanced
<1>13. PICK g : g = [type |-> r, next |-> i + 1, parts |-> all]
  OBVIOUS
<1>14. g \in Frames
  BY <1>2, <1>6, <1>13 DEF Frames
<1>15. IsPartly(g)
  <2>1. i + 1 <= Len(Parts(r)) + 1 /\ (i + 1) - 1 = i
    BY <1>2, PartsFacts DEF TablesInv
  <2>2. g.type = r /\ g.next = i + 1 /\ g.parts = all
    BY <1>13
  <2> QED
    BY <1>10, <1>11, <2>1, <2>2 DEF IsPartly
<1> QED
  BY <1>1, <1>12, <1>13, <1>14, <1>15

LEMMA AdvanceStep ==
  ASSUME TablesInv, LoweringOK, Grown(tables, tables'), Compiling, Compiling', UNCHANGED answers, Open # << >>,
         NEW g \in Frames, IsPartly(g), g.type = Inner.type,
         lowering' = [lowering EXCEPT !.open = Append(Front(lowering.open), g)]
  PROVE  LoweringOK'
<1>1. TablesOK(tables) /\ LoweringTyped /\ NullsOpen /\ OpenPartly /\ CachedWhole /\ AnswersCached
  BY DEF TablesInv, LoweringOK
<1>2. Cache' = Cache /\ Open' = Append(Front(Open), g) /\ lowering'.structs = lowering.structs
      /\ lowering' \in [cache : {Cache'}, structs : Nat, open : {Open'}]
  BY <1>1 DEF LoweringTyped, Cache, Open
<1>3. /\ Open' \in Seq(Frames) /\ DOMAIN Open' = DOMAIN Open /\ Open'[Len(Open)] = g
      /\ \A k \in DOMAIN Open : k # Len(Open) => Open'[k] = Open[k]
  BY <1>2, Replaced
<1>4. \A k \in DOMAIN Open : Open'[k].type = Open[k].type
  BY <1>3, InnerFacts
<1>5. WholeStays
  BY <1>2 DEF WholeStays
<1>6. Frames' = Frames
  BY <1>2 DEF Frames, Null, Basic, LLVM
<1>7. LoweringTyped'
  <2>1. DOMAIN tables.types \subseteq DOMAIN tables'.types
    BY DEF Grown, Extends
  <2> QED
    BY <1>1, <1>2, <1>3, <1>6, <2>1 DEF LoweringTyped
<1>8. NullsOpen'
  <2>1. \A k, m \in DOMAIN Open' : k < m => Open'[m].type < Open'[k].type
    BY <1>1, <1>3, <1>4 DEF NullsOpen
  <2>2. \A q \in DOMAIN Cache' : Cache'[q] = Null <=> \E k \in DOMAIN Open' : Open'[k].type = q
    <3> TAKE q \in DOMAIN Cache'
    <3>1. Cache[q] = Null <=> \E k \in DOMAIN Open : Open[k].type = q
      BY <1>1, <1>2 DEF NullsOpen
    <3>2. (\E k \in DOMAIN Open : Open[k].type = q) <=> \E k \in DOMAIN Open' : Open'[k].type = q
      BY <1>3, <1>4
    <3> QED
      BY <1>2, <3>1, <3>2
  <2> QED
    BY <2>1, <2>2 DEF NullsOpen, Null, Basic, LLVM
<1>9. OpenPartly'
  <2>1. \A f \in Frames : IsPartly(f) => IsPartly(f)'
    BY <1>1, <1>5, PartlyStays DEF LoweringTyped
  <2>2. \A k \in DOMAIN Open : Open[k] \in Frames
    BY <1>1, SeqOfMore DEF LoweringTyped
  <2>3. ASSUME NEW k \in DOMAIN Open' PROVE \E f \in Frames : Open'[k] = f /\ IsPartly(f)
    <3>1. CASE k = Len(Open)
      BY <1>3, <3>1
    <3>2. CASE k # Len(Open)
      BY <1>1, <1>3, <2>2, <3>2 DEF OpenPartly
    <3> QED
      BY <3>1, <3>2
  <2> QED
    BY <2>1, <2>3 DEF OpenPartly
<1>10. CachedWhole'
  <2>1. \A q \in DOMAIN Cache : Cache[q] # Null => (PartsIn(q, Len(Parts(q)) + 1, Cache[q].parts))'
    BY <1>1, <1>5, EntriesStay DEF LoweringTyped
  <2> QED
    BY <1>1, <1>2, <2>1 DEF CachedWhole, Null, Basic, LLVM
<1>11. AnswersCached'
  BY <1>1, <1>2 DEF AnswersCached, Null, Basic, LLVM
<1> QED
  BY <1>7, <1>8, <1>9, <1>10, <1>11 DEF LoweringOK

LEMMA LowerPartStep ==
  ASSUME TablesInv, LoweringOK, Grown(tables, tables'), LowerPart
  PROVE  LoweringOK'
<1>1. Compiling /\ Open # << >> /\ Inner.next \in DOMAIN Parts(Inner.type) /\ UNCHANGED <<phase, answers>>
  BY DEF LowerPart, Open
<1>2. Compiling'
  BY <1>1 DEF Compiling
<1>3. PICK r, part : r = Inner.type /\ part = Parts(r)[Inner.next]
  OBVIOUS
<1>4. CASE Kept(Inner.type, Inner.next) /\ ~Known(part)
  <2>1. Enter(part)
    BY <1>3, <1>4 DEF LowerPart
  <2>2. r \in DOMAIN tables.types /\ r \in Nat
    BY <1>1, <1>3, InnerFacts
  <2>3. part \in DOMAIN tables.types /\ part < r
    BY <1>1, <1>3, <2>2, PartsFacts DEF TablesInv
  <2>4. part \in Nat
    BY <2>3, Fields DEF TablesInv, TablesOK
  <2>5. \A k \in DOMAIN Open : part < Open[k].type
    <3> TAKE k \in DOMAIN Open
    <3>1. k = Len(Open) \/ k \in 1 .. Len(Open) - 1
      BY <1>1, InnerFacts
    <3>2. Open[k].type = r \/ (Open[k].type > r /\ Open[k].type \in Nat)
      BY <1>1, <1>3, <2>2, <3>1, InnerFacts
    <3> QED
      BY <2>2, <2>3, <2>4, <3>2
  <2> QED
    BY <1>1, <1>2, <1>4, <2>1, <2>3, <2>5, EnterStep
<1>5. CASE ~(Kept(Inner.type, Inner.next) /\ ~Known(part))
  <2>1. PICK add : add = IF Kept(Inner.type, Inner.next) THEN <<Cache[Parts(Inner.type)[Inner.next]]>> ELSE << >>
    OBVIOUS
  <2>2. PICK g : g = Advanced(add)
    OBVIOUS
  <2>3. g \in Frames /\ IsPartly(g) /\ g.type = Inner.type
    BY <1>1, <1>3, <1>5, <2>1, <2>2, AdvancedFacts
  <2>4. lowering' = [lowering EXCEPT !.open = Append(Front(lowering.open), g)]
    BY <1>3, <1>5, <2>1, <2>2 DEF LowerPart, Advanced, Cache
  <2> QED
    BY <1>1, <1>2, <2>3, <2>4, AdvanceStep
<1> QED
  BY <1>4, <1>5

\* The innermost type takes its place in the cache.
LEMMA EndLowerStep ==
  ASSUME TablesInv, LoweringOK, Grown(tables, tables'), EndLower
  PROVE  LoweringOK'
<1>1. Compiling /\ Open # << >> /\ Inner.next \notin DOMAIN Parts(Inner.type) /\ Lowerable(Inner.type) /\ UNCHANGED phase
  BY DEF EndLower, PartsLowered, Open
<1>2. Compiling'
  BY <1>1 DEF Compiling
<1>3. TablesOK(tables) /\ LoweringTyped /\ NullsOpen /\ OpenPartly /\ CachedWhole /\ AnswersCached
  BY <1>1 DEF TablesInv, LoweringOK
<1>4. PICK r, parts, llvm : r = Inner.type /\ parts = Inner.parts /\ llvm = Lowered(r, parts)
  OBVIOUS
<1>5. /\ lowering' = [cache   |-> Caching(r, llvm),
                      structs |-> IF IsTuple(r) THEN lowering.structs + 1 ELSE lowering.structs,
                      open    |-> Front(lowering.open)]
      /\ answers' = IF Len(lowering.open) = 1 THEN answers \cup {<<r, llvm>>} ELSE answers
  BY <1>4 DEF EndLower
<1>6. /\ r \in DOMAIN Cache /\ r \in DOMAIN tables.types /\ r \in Nat
      /\ PartsIn(r, Inner.next, parts) /\ Inner.next \in Nat \ {0} /\ Inner.next <= Len(Parts(r)) + 1
  BY <1>1, <1>4, InnerFacts DEF IsPartly, Frames
<1>7. Cache[r] = Null
  <2>1. Len(Open) \in DOMAIN Open /\ Open[Len(Open)].type = r
    BY <1>1, <1>4, InnerFacts
  <2> QED
    BY <1>3, <1>6, <2>1 DEF NullsOpen
<1>8. llvm.kind # "null" /\ (llvm.kind = "struct" <=> IsTuple(r)) /\ (IsTuple(r) => llvm.number = lowering.structs + 1)
      /\ (IsPointer(r) \/ IsTuple(r) => llvm.parts = parts)
  BY <1>1, <1>4, LoweredFacts
<1>9. Null.kind = "null"
  BY DEF Null, Basic, LLVM
<1>10. llvm # Null
  BY <1>8, <1>9
<1>11. /\ DOMAIN Cache' = DOMAIN Cache /\ Cache'[r] = llvm
       /\ \A q \in DOMAIN Cache : q # r => Cache'[q] = Cache[q]
  BY <1>5, <1>6 DEF Caching, Cache
<1>12. WholeStays
  BY <1>7, <1>11 DEF WholeStays
<1>13. PICK n \in Nat : n + 1 = Len(Open) /\ DOMAIN Open = 1 .. n + 1
  <2>1. PICK m \in Nat \ {0} : m = Len(Open) /\ DOMAIN Open = 1 .. m
    BY <1>1, InnerFacts
  <2>2. PICK n \in Nat : n + 1 = m
    BY <2>1
  <2>3. n + 1 = Len(Open) /\ DOMAIN Open = 1 .. n + 1
    BY <2>1, <2>2
  <2> QED
    BY <2>3
<1>14. /\ Open' \in Seq(Frames) /\ DOMAIN Open' = 1 .. n
       /\ \A k \in 1 .. n : k \in DOMAIN Open /\ Open'[k] = Open[k] /\ Open[k] \in Frames /\ Open[k].type # r
  <2>1. Open' = Front(Open) /\ Open \in Seq(Frames)
    BY <1>3, <1>5 DEF Open, LoweringTyped
  <2>2. n = Len(Open) - 1
    BY <1>13
  <2>3. Front(Open) \in Seq(Frames) /\ Len(Front(Open)) = n /\ \A k \in 1 .. n : Front(Open)[k] = Open[k]
    BY <1>1, <2>1, <2>2, FrontFacts
  <2>4. \A k \in 1 .. n : k \in DOMAIN Open
    BY <1>13
  <2>5. \A k \in DOMAIN Open : Open[k] \in Frames
    BY <2>1, SeqOfMore
  <2>6. \A k \in 1 .. n : r < Open[k].type
    BY <1>1, <1>4, <2>2, InnerFacts
  <2>7. \A k \in 1 .. n : Open[k].type # r
    BY <1>6, <2>6
  <2>8. DOMAIN Front(Open) = 1 .. n
    BY <2>3, SeqOfMore
  <2> QED
    BY <2>1, <2>3, <2>4, <2>5, <2>7, <2>8
<1>15. \A k \in DOMAIN Open : k \in 1 .. n \/ (k = n + 1 /\ Open[k].type = r)
  <2>1. Open[n + 1].type = r
    BY <1>1, <1>4, <1>13, InnerFacts
  <2> QED
    BY <1>13, <2>1
<1>16. /\ lowering.structs \in Nat /\ lowering' \in [cache : {Cache'}, structs : Nat, open : {Open'}]
       /\ lowering'.structs = IF IsTuple(r) THEN lowering.structs + 1 ELSE lowering.structs
  <2>1. lowering.structs \in Nat
    BY <1>3 DEF LoweringTyped
  <2> QED
    BY <1>5, <2>1 DEF Cache, Open
<1>17. Frames \subseteq Frames'
  <2>1. ASSUME NEW c \in Range(Cache) \ {Null} PROVE c \in Range(Cache') \ {Null}
    <3>1. PICK q \in DOMAIN Cache : c = Cache[q] /\ c # Null
      BY <2>1 DEF Range
    <3>2. Cache'[q] = c
      BY <1>7, <1>11, <3>1
    <3> QED
      BY <1>11, <3>1, <3>2 DEF Range
  <2>2. Seq(Range(Cache) \ {Null}) \subseteq Seq(Range(Cache') \ {Null})
    BY <2>1, SeqOfMore
  <2>3. Frames' = [type : DOMAIN Cache', next : Nat \ {0}, parts : Seq(Range(Cache') \ {Null})]
    BY DEF Frames, Null, Basic, LLVM
  <2>4. PICK D, P, Q : /\ D = DOMAIN Cache /\ D = DOMAIN Cache'
                       /\ P = Seq(Range(Cache) \ {Null}) /\ Q = Seq(Range(Cache') \ {Null}) /\ P \subseteq Q
    BY <1>11, <2>2
  <2>5. [type : D, next : Nat \ {0}, parts : P] \subseteq [type : D, next : Nat \ {0}, parts : Q]
    BY <2>4, Zenon
  <2> QED
    BY <2>3, <2>4, <2>5 DEF Frames
<1>18. LoweringTyped'
  <2>1. DOMAIN tables.types \subseteq DOMAIN tables'.types
    BY DEF Grown, Extends
  <2>2. Open' \in Seq(Frames')
    BY <1>14, <1>17, SeqOfMore
  <2> QED
    BY <1>2, <1>3, <1>11, <1>16, <2>1, <2>2 DEF LoweringTyped
<1>19. NullsOpen'
  <2>1. \A k, m \in DOMAIN Open' : k < m => Open'[m].type < Open'[k].type
    BY <1>3, <1>14 DEF NullsOpen
  <2>2. ASSUME NEW q \in DOMAIN Cache' PROVE Cache'[q] = Null <=> \E k \in DOMAIN Open' : Open'[k].type = q
    <3>1. CASE q = r
      BY <1>10, <1>11, <1>14, <3>1
    <3>2. CASE q # r
      <4>1. Cache[q] = Null <=> \E k \in DOMAIN Open : Open[k].type = q
        BY <1>3, <1>11, <2>2 DEF NullsOpen
      <4>2. (\E k \in DOMAIN Open : Open[k].type = q) <=> \E k \in DOMAIN Open' : Open'[k].type = q
        BY <1>14, <1>15, <3>2
      <4> QED
        BY <1>11, <2>2, <3>2, <4>1, <4>2
    <3> QED
      BY <3>1, <3>2
  <2> QED
    BY <2>1, <2>2 DEF NullsOpen, Null, Basic, LLVM
<1>20. OpenPartly'
  <2>1. \A f \in Frames : IsPartly(f) => IsPartly(f)'
    BY <1>3, <1>12, PartlyStays DEF LoweringTyped
  <2>2. \A k \in DOMAIN Open' : \E f \in Frames : Open'[k] = f /\ IsPartly(f)
    BY <1>3, <1>14 DEF OpenPartly
  <2> QED
    BY <2>1, <2>2 DEF OpenPartly
<1>21. PartsIn(r, Len(Parts(r)) + 1, llvm.parts)
  <2>1. CASE IsPointer(r) \/ IsTuple(r)
    <3>1. PICK m \in Nat : m = Len(Parts(r)) /\ DOMAIN Parts(r) = 1 .. m
      BY <1>3, <1>6, PartsFacts
    <3>2. Inner.next = m + 1
      BY <1>1, <1>4, <1>6, <3>1
    <3> QED
      BY <1>6, <1>8, <2>1, <3>1, <3>2
  <2>2. CASE ~(IsPointer(r) \/ IsTuple(r))
    <3>1. Parts(r) = << >> /\ DOMAIN << >> = {}
      BY <2>2 DEF Parts
    <3> QED
      BY <3>1 DEF PartsIn
  <2> QED
    BY <2>1, <2>2
<1>22. (PartsIn(r, Len(Parts(r)) + 1, Cache[r].parts))'
  <2>1. PICK m, p : m = Len(Parts(r)) + 1 /\ p = llvm.parts /\ PartsIn(r, m, p)
    BY <1>21
  <2>2. PartsIn(r, m, p)'
    BY <1>3, <1>6, <1>12, <2>1, PartsInStays
  <2>3. Parts(r)' = Parts(r)
    BY <1>3, <1>6, PartsStay
  <2>4. m = Len(Parts(r)') + 1 /\ p = Cache'[r].parts
    BY <1>11, <2>1, <2>3
  <2> QED
    BY <2>2, <2>4
<1>23. CachedWhole'
  <2>1. \A q \in DOMAIN Cache : Cache[q] # Null => (PartsIn(q, Len(Parts(q)) + 1, Cache[q].parts))'
    BY <1>3, <1>12, EntriesStay DEF LoweringTyped
  <2>2. ASSUME NEW q \in DOMAIN Cache', Cache'[q] # Null
        PROVE  (PartsIn(q, Len(Parts(q)) + 1, Cache[q].parts))'
    <3>1. CASE q = r
      BY <1>22, <3>1
    <3>2. CASE q # r
      BY <1>11, <2>1, <2>2, <3>2
    <3> QED
      BY <3>1, <3>2
  <2>3. \A q \in DOMAIN Cache : Cache[q].kind = "struct" => Cache[q].number \in 1 .. lowering.structs
    BY <1>3 DEF CachedWhole
  <2>4. PICK s \in Nat : s = lowering.structs
    BY <1>16
  <2>5. ASSUME NEW q \in DOMAIN Cache', Cache'[q].kind = "struct"
        PROVE  /\ Cache'[q].number \in 1 .. lowering'.structs
               /\ q = r => IsTuple(r) /\ Cache'[q].number = s + 1
               /\ q # r => Cache'[q] = Cache[q] /\ Cache'[q].number \in 1 .. s
    <3>1. CASE q = r
      <4>1. IsTuple(r) /\ Cache'[q].number = s + 1 /\ lowering'.structs = s + 1
        BY <1>8, <1>11, <1>16, <2>4, <2>5, <3>1
      <4> QED
        BY <2>4, <3>1, <4>1
    <3>2. CASE q # r
      <4>1. Cache'[q] = Cache[q] /\ Cache'[q].number \in 1 .. s
        BY <1>11, <2>3, <2>4, <2>5, <3>2
      <4>2. lowering'.structs \in {s, s + 1}
        BY <1>16, <2>4
      <4> QED
        BY <2>4, <3>2, <4>1, <4>2
    <3> QED
      BY <3>1, <3>2
  <2>6. ASSUME NEW p \in DOMAIN Cache', NEW q \in DOMAIN Cache', Cache'[p].kind = "struct", Cache'[q].kind = "struct",
               Cache'[p].number = Cache'[q].number
        PROVE  p = q
    <3>1. CASE p # r /\ q # r
      <4>1. Cache'[p] = Cache[p] /\ Cache'[q] = Cache[q]
        BY <2>5, <2>6, <3>1
      <4> QED
        BY <1>3, <1>11, <2>6, <4>1 DEF CachedWhole
    <3>2. CASE p = r \/ q = r
      BY <2>4, <2>5, <2>6, <3>2
    <3> QED
      BY <3>1, <3>2
  <2>7. \A q \in DOMAIN Cache' : Cache'[q].kind = "struct" => Cache'[q].number \in 1 .. lowering'.structs
    BY <2>5
  <2> QED
    BY <2>2, <2>6, <2>7 DEF CachedWhole, Null, Basic, LLVM
<1>24. AnswersCached'
  <2>1. ASSUME NEW a \in answers' PROVE a \in answers \/ a = <<r, llvm>>
    BY <1>5
  <2>2. ASSUME NEW a \in answers' PROVE a[1] \in DOMAIN Cache' /\ a[2] = Cache'[a[1]] /\ a[2] # Null
    <3>1. CASE a \in answers
      <4>1. a[1] \in DOMAIN Cache /\ a[2] = Cache[a[1]] /\ a[2] # Null
        BY <1>3, <3>1 DEF AnswersCached
      <4> QED
        BY <1>7, <1>11, <4>1
    <3>2. CASE a = <<r, llvm>>
      BY <1>6, <1>10, <1>11, <3>2
    <3> QED
      BY <2>1, <3>1, <3>2
  <2> QED
    BY <2>2 DEF AnswersCached, Null, Basic, LLVM
<1> QED
  BY <1>18, <1>19, <1>20, <1>23, <1>24 DEF LoweringOK

\* A client's type: a null comes first, or it is known, and then whole, as nothing is open.
LEMMA LowerStep ==
  ASSUME TablesInv, LoweringOK, Grown(tables, tables'), NEW r \in TypeRefs, Lower(r)
  PROVE  LoweringOK'
<1>1. Compiling /\ Open = << >> /\ UNCHANGED phase
  BY DEF Lower, Open
<1>2. Compiling'
  BY <1>1 DEF Compiling
<1>3. LoweringTyped /\ NullsOpen /\ OpenPartly /\ CachedWhole /\ AnswersCached
  BY <1>1 DEF LoweringOK
<1>4. DOMAIN Open = {}
  <2>1. DOMAIN << >> = {}
    OBVIOUS
  <2> QED
    BY <1>1, <2>1
<1>5. CASE ~Known(r)
  <2>1. Enter(r) /\ UNCHANGED answers
    BY <1>5 DEF Lower
  <2>2. r \in DOMAIN tables.types
    BY DEF TypeRefs, TablesInv, HandedOK, IsType
  <2> QED
    BY <1>1, <1>2, <1>4, <1>5, <2>1, <2>2, EnterStep
<1>6. CASE Known(r)
  <2>1. lowering' = lowering /\ tables' = tables /\ answers' = answers \cup {<<r, lowering.cache[r]>>}
    BY <1>6 DEF Lower
  <2>2. r \in DOMAIN Cache /\ Cache[r] # Null
    BY <1>3, <1>4, <1>6 DEF Known, Cache, NullsOpen
  <2>3. Cache' = Cache /\ Open' = Open
    BY <2>1 DEF Cache, Open
  <2>4. ASSUME NEW a \in answers' PROVE a[1] \in DOMAIN Cache /\ a[2] = Cache[a[1]] /\ a[2] # Null
    <3>1. CASE a \in answers
      BY <1>3, <3>1 DEF AnswersCached
    <3>2. CASE a = <<r, lowering.cache[r]>>
      BY <2>2, <3>2 DEF Cache
    <3> QED
      BY <2>1, <3>1, <3>2
  <2>5. AnswersCached'
    BY <2>3, <2>4 DEF AnswersCached, Null, Basic, LLVM
  <2>6. LoweringTyped' /\ NullsOpen'
    BY <1>1, <1>2, <1>3, <2>1, <2>3 DEF LoweringTyped, NullsOpen, Frames, Null, Basic, LLVM
  <2>7. WholeStays
    BY <2>3 DEF WholeStays
  <2>8. OpenPartly'
    BY <1>4, <2>3 DEF OpenPartly
  <2>9. CachedWhole'
    <3>1. \A q \in DOMAIN Cache : Cache[q] # Null => (PartsIn(q, Len(Parts(q)) + 1, Cache[q].parts))'
      BY <1>3, <2>7, EntriesStay DEF LoweringTyped, TablesInv
    <3> QED
      BY <1>3, <2>1, <2>3, <3>1 DEF CachedWhole, Null, Basic, LLVM
  <2> QED
    BY <2>5, <2>6, <2>8, <2>9 DEF LoweringOK
<1> QED
  BY <1>5, <1>6

\* A new cache has nothing, and a compile that threw leaves nothing open.
LEMMA NewCache ==
  ASSUME TablesInv, LoweringOK, Grown(tables, tables'), ~Compiling, UNCHANGED answers,
         lowering' = [lowering EXCEPT !.cache = << >>]
  PROVE  LoweringOK'
<1>1. LoweringTyped /\ Open = << >> /\ answers = {}
  BY DEF LoweringOK, LoweringTyped
<1>2. Cache' = << >> /\ Open' = << >> /\ lowering' \in [cache : {Cache'}, structs : Nat, open : {Open'}]
  BY <1>1 DEF LoweringTyped, Cache, Open
<1>3. DOMAIN Cache' = {} /\ DOMAIN Open' = {}
  <2>1. DOMAIN << >> = {}
    OBVIOUS
  <2> QED
    BY <1>2, <2>1
<1>4. Open' \in Seq(Frames')
  <2>1. PICK F : F = Frames'
    OBVIOUS
  <2>2. << >> \in Seq(F)
    OBVIOUS
  <2> QED
    BY <1>2, <2>1, <2>2
<1>5. LoweringTyped'
  BY <1>1, <1>2, <1>3, <1>4 DEF LoweringTyped
<1>6. NullsOpen' /\ OpenPartly' /\ CachedWhole' /\ AnswersCached'
  BY <1>1, <1>3 DEF NullsOpen, OpenPartly, CachedWhole, AnswersCached
<1> QED
  BY <1>5, <1>6 DEF LoweringOK

LEMMA LowerThrowsStep ==
  ASSUME TablesInv, LoweringOK, Grown(tables, tables'), LowerThrows
  PROVE  LoweringOK'
<1>1. LoweringTyped /\ phase' = "use" /\ answers' = {} /\ lowering' = [lowering EXCEPT !.open = << >>]
  BY DEF LoweringOK, LowerThrows
<1>2. ~Compiling'
  BY <1>1 DEF Compiling
<1>3. Cache' = Cache /\ Open' = << >> /\ lowering' \in [cache : {Cache'}, structs : Nat, open : {Open'}]
  BY <1>1 DEF LoweringTyped, Cache, Open
<1>4. Open' \in Seq(Frames')
  <2>1. PICK F : F = Frames'
    OBVIOUS
  <2>2. << >> \in Seq(F)
    OBVIOUS
  <2> QED
    BY <1>3, <2>1, <2>2
<1>5. DOMAIN tables.types \subseteq DOMAIN tables'.types
  BY DEF Grown, Extends
<1>6. LoweringTyped'
  BY <1>1, <1>3, <1>4, <1>5 DEF LoweringTyped
<1> QED
  BY <1>2, <1>6 DEF LoweringOK

LEMMA LoweringInit ==
  ASSUME Init
  PROVE  LoweringOK
<1>1. /\ phase = "create" /\ answers = {} /\ Cache = << >> /\ Open = << >>
      /\ lowering \in [cache : {Cache}, structs : Nat, open : {Open}]
  BY DEF Init, Cache, Open
<1>2. DOMAIN Cache = {} /\ Open \in Seq(Frames)
  <2>1. DOMAIN << >> = {}
    OBVIOUS
  <2>2. << >> \in Seq(Frames)
    OBVIOUS
  <2> QED
    BY <1>1, <2>1, <2>2
<1> QED
  BY <1>1, <1>2 DEF LoweringOK, LoweringTyped, Compiling

LEMMA LoweringStep ==
  ASSUME TablesInv, LoweringOK, [Next]_vars
  PROVE  LoweringOK'
<1>1. Grown(tables, tables')
  BY TablesStep
<1>2. ~Compiling => Open = << >> /\ answers = {}
  BY DEF LoweringOK, LoweringTyped
<1>3. ASSUME UNCHANGED <<lowering, answers>>, Compiling' <=> Compiling
      PROVE  LoweringOK'
  BY <1>1, <1>2, <1>3, LoweringStays
<1>4. CASE RegisterOperator
  <2>1. phase = "create" /\ phase' \in {"create", "failed"} /\ UNCHANGED <<lowering, answers>>
    BY <1>4 DEF RegisterOperator
  <2> QED
    BY <1>3, <2>1 DEF Compiling
<1>5. CASE NextRegistration
  BY <1>3, <1>5 DEF NextRegistration, Compiling
<1>6. CASE DefineRuntime
  <2>1. phase = "create" /\ UNCHANGED <<lowering, answers>>
    BY <1>6 DEF DefineRuntime
  <2>2. phase' \in {"use", "failed"}
    BY <1>6, DefineRuntimeFacts DEF TablesInv
  <2> QED
    BY <1>3, <2>1, <2>2 DEF Compiling
<1>7. CASE ClientStep
  BY <1>3, <1>7 DEF ClientStep, Compiling
<1>8. CASE \E op \in Operators, type \in Integer \cup ToSet(Floats) : Evaluate(op, type)
  <2>1. phase = "use" /\ phase' = "return" /\ UNCHANGED <<lowering, answers>>
    BY <1>8 DEF Evaluate
  <2> QED
    BY <1>3, <2>1 DEF Compiling
<1>9. CASE Return
  BY <1>3, <1>9 DEF Return, Compiling
<1>10. CASE BeginCompile
  BY <1>1, <1>10, NewCache DEF BeginCompile, Compiling
<1>11. CASE SecondPass
  <2>1. phase = "compile" /\ phase' = "second" /\ UNCHANGED <<lowering, answers>>
    BY <1>11 DEF SecondPass
  <2> QED
    BY <1>3, <2>1 DEF Compiling
<1>12. CASE EndCompile
  <2>1. phase' = "use" /\ Open = << >> /\ answers' = {} /\ UNCHANGED lowering
    BY <1>12 DEF EndCompile, Open
  <2>2. ~Compiling'
    BY <2>1 DEF Compiling
  <2> QED
    BY <1>1, <2>1, <2>2, LoweringStays
<1>13. CASE \E r \in TypeRefs : Lower(r)
  BY <1>1, <1>13, LowerStep
<1>14. CASE LowerPart
  BY <1>1, <1>14, LowerPartStep
<1>15. CASE EndLower
  BY <1>1, <1>15, EndLowerStep
<1>16. CASE LowerThrows
  BY <1>1, <1>16, LowerThrowsStep
<1>17. CASE UNCHANGED vars
  BY <1>3, <1>17 DEF vars, Compiling
<1> QED
  BY <1>4, <1>5, <1>6, <1>7, <1>8, <1>9, <1>10, <1>11, <1>12, <1>13, <1>14, <1>15, <1>16, <1>17 DEF Next

\* Every call of type_ref_type under way is for an older type than the one that made it; what is
\* not under way is whole in the cache, made of what its parts are lowered to, and structs apart.
THEOREM LoweringInvariance == Spec => []LoweringOK
<1>1. Init => LoweringOK
  BY LoweringInit
<1>2. TablesInv /\ LoweringOK /\ [Next]_vars => LoweringOK'
  BY LoweringStep
<1> QED
  BY <1>1, <1>2, TablesInvariance, PTL DEF Spec

LEMMA WholeLowersOnce ==
  ASSUME TablesInv, LoweringOK
  PROVE  TypesLowerOnce
<1>1. SUFFICES ASSUME Compiling
      PROVE  /\ \A a, b \in answers : a[1] = b[1] => a[2] = b[2]
             /\ \A a, b \in answers : a[2] = b[2] /\ a[2].kind = "struct" => a[1] = b[1]
             /\ \A a \in answers :
                  /\ a[2] # Null
                  /\ \A i \in DOMAIN Parts(a[1]) :
                       Kept(a[1], i) => a[2].parts[Position(a[1], i)] = lowering.cache[Parts(a[1])[i]]
  BY DEF TypesLowerOnce
<1>2. CachedWhole /\ \A a \in answers : a[1] \in DOMAIN Cache /\ a[2] = Cache[a[1]] /\ a[2] # Null
  BY <1>1 DEF LoweringOK, AnswersCached
<1>3. \A a, b \in answers : a[2] = b[2] /\ a[2].kind = "struct" => a[1] = b[1]
  BY <1>2 DEF CachedWhole
<1>4. ASSUME NEW a \in answers, NEW i \in DOMAIN Parts(a[1]), Kept(a[1], i)
      PROVE  a[2].parts[Position(a[1], i)] = lowering.cache[Parts(a[1])[i]]
  <2>1. PICK r : r = a[1] /\ r \in DOMAIN Cache /\ r \in DOMAIN tables.types /\ a[2] = Cache[r] /\ Cache[r] # Null
    BY <1>2 DEF LoweringOK, LoweringTyped
  <2>2. PartsIn(r, Len(Parts(r)) + 1, Cache[r].parts)
    BY <1>2, <2>1 DEF CachedWhole
  <2>3. i \in DOMAIN Parts(r) /\ i < Len(Parts(r)) + 1
    BY <1>4, <2>1, PartsFacts DEF TablesInv
  <2> QED
    BY <1>4, <2>1, <2>2, <2>3 DEF PartsIn, Cache
<1> QED
  BY <1>2, <1>3, <1>4

\* One compile has one LLVM type for a type wherever it comes to it, in the first pass or in the
\* second, by itself or within others, and never takes two structs for one.
THEOREM TypesAlwaysLowerOnce == Spec => []TypesLowerOnce
<1>1. TablesInv /\ LoweringOK => TypesLowerOnce
  BY WholeLowersOnce
<1> QED
  BY <1>1, TablesInvariance, LoweringInvariance, PTL

\* The three parts of the invariant together.
THEOREM Invariance == Spec => []IInv
<1>1. TablesInv /\ OperatorsInv /\ LoweringOK => IInv
  BY DEF IInv
<1> QED
  BY <1>1, TablesInvariance, OperatorsInvariance, LoweringInvariance, PTL

LEMMA PartsOfTypes ==
  ASSUME IInv
  PROVE  TypeOK
<1>1. TablesOK(tables) /\ HandedOK /\ OperatorsOnce /\ LoweringTyped /\ calls \in 0 .. MaxCalls
  BY DEF IInv, TablesInv, OperatorsInv, LoweringOK
<1>2. \A b \in DOMAIN tables.buffers : tables.buffers[b] \in Seq(Int)
  <2>1. tables.buffers \in Seq(Seq(Int))
    BY <1>1, Fields DEF TablesOK
  <2> QED
    BY <2>1, SeqOfMore
<1>3. ASSUME NEW r \in DOMAIN tables.types PROVE ToSet(SpecsOf(r)) \subseteq 1 .. r - 1
  <2>1. tables.types[r].specs = tables.types[r].key /\ ToSet(Content(tables, tables.types[r].key)) \subseteq 1 .. r - 1
    BY <1>1 DEF TablesOK, TypesApart
  <2> QED
    BY <2>1 DEF SpecsOf
<1>4. TypeRefs \subseteq DOMAIN tables.types
  BY <1>1 DEF TypeRefs, HandedOK, IsType
<1>5. lowering.open \in Seq([type : DOMAIN lowering.cache, next : Nat \ {0}, parts : Seq(Range(lowering.cache))])
  <2>1. PICK S, T : S = Range(Cache) \ {Null} /\ T = Range(Cache) /\ S \subseteq T
    OBVIOUS
  <2>2. Seq(S) \subseteq Seq(T)
    BY <2>1, SeqOfMore
  <2>3. PICK D, P, Q : D = DOMAIN Cache /\ P = Seq(S) /\ Q = Seq(T) /\ P \subseteq Q
    BY <2>2
  <2>4. [type : D, next : Nat \ {0}, parts : P] \subseteq [type : D, next : Nat \ {0}, parts : Q]
    BY <2>3, Zenon
  <2>5. Open \in Seq([type : D, next : Nat \ {0}, parts : P])
    BY <1>1, <2>1, <2>3 DEF LoweringTyped, Frames
  <2>6. Open \in Seq([type : D, next : Nat \ {0}, parts : Q])
    <3> DEFINE F == [type : D, next : Nat \ {0}, parts : P]
               G == [type : D, next : Nat \ {0}, parts : Q]
    <3>1. F \subseteq G /\ Open \in Seq(F)
      BY <2>4, <2>5
    <3> HIDE DEF F, G
    <3>2. Open \in Seq(G)
      BY <3>1, SeqOfMore
    <3> QED
      BY <3>2 DEF G
  <2> QED
    BY <2>1, <2>3, <2>6 DEF Open, Cache
<1>6. lowering.structs \in Nat /\ DOMAIN lowering.cache \subseteq DOMAIN tables.types
  BY <1>1 DEF LoweringTyped, Cache
<1>7. registered \in [call : 1 .. Len(Registrations) + 1, type : Nat \ {0}]
  BY <1>1 DEF OperatorsOnce
<1>8. phase \in {"create", "use", "compile", "second", "return", "failed"}
  BY DEF IInv, OperatorsInv
<1> QED
  BY <1>1, <1>2, <1>3, <1>4, <1>5, <1>6, <1>7, <1>8 DEF TypeOK

\* The tables, what is registered and what is under way are what the code makes of them; in
\* particular a type is made of older ones, so that lowering it comes to an end.
THEOREM TypeCorrect == Spec => []TypeOK
<1>1. IInv => TypeOK
  BY PartsOfTypes
<1> QED
  BY <1>1, Invariance, PTL
=============================================================================
