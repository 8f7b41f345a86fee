------------------------------ MODULE Interning ------------------------------
(***************************************************************************)
(* The tables that make names and types comparable by address:             *)
(* string_table, qualified_name_table and type_library.  A client asks for *)
(* a content and is handed a reference; the same content must always give  *)
(* the same reference, and the reference must go on reading as what was    *)
(* asked for.  What could go wrong lies in the keys: those of the last two *)
(* tables are data_buffers, views of memory somebody else owns.            *)
(*                                                                         *)
(* `buffers' is that memory: the vectors of names and of specializations,  *)
(* those of the callers included, each what it holds or Freed, and what is *)
(* freed is used again.  Contents are addresses: of strings in the string  *)
(* table, or of type_refs.                                                 *)
(***************************************************************************)
EXTENDS Integers, Sequences, FiniteSets, SequencesExt, FiniteSetsExt

CONSTANTS
  Texts,      \* what clients register as strings
  Empty,      \* the empty text, which is never stored
  TypeNames,  \* what clients name types by
  MaxSize,    \* bound: names in a qualified name, specializations of a type
  MaxCalls    \* bound: calls of clients

ASSUME SizesAssumption == MaxSize \in Nat /\ MaxCalls \in Nat

VARIABLES
  tables,    \* [strings, room, buffers, names, types]: the tables and their memory
  handed,    \* history: what clients were handed, each with what it was for
  calls      \* history: how many calls they have made

\* The tables of a new compiler: strings maps a text to the address of its copy, which is
\* one of 1 .. room.
NoTables == [strings |-> << >>, room |-> 0, buffers |-> << >>, names |-> {}, types |-> << >>]

\* A buffer whose owner is gone reads as nothing that was ever written.
Freed == <<-1>>

\* data_buffer: n elements from the begin of buffer b, or nothing at a null pointer.
View(b, n) == IF n = 0 THEN [at |-> 0, size |-> 0] ELSE [at |-> b, size |-> n]
Content(t, view) == IF view.size = 0 THEN << >> ELSE t.buffers[view.at]

\* Where the next vector goes, and its life.
NextBuffer(t) == Min({b \in DOMAIN t.buffers : t.buffers[b] = Freed} \cup {Len(t.buffers) + 1})
Store(t, content) ==
  [t EXCEPT !.buffers = IF NextBuffer(t) > Len(t.buffers) THEN Append(t.buffers, content)
                        ELSE [t.buffers EXCEPT ![NextBuffer(t)] = content]]
Drop(t, b) == [t EXCEPT !.buffers[b] = Freed]

-----------------------------------------------------------------------------
(* Strings.                                                                 *)

\* Mutant of NewIn: an empty text is stored like any other.
NewInEmptyToo(t, texts) == ToSet(texts) \ DOMAIN t.strings

\* The texts register_str makes a copy of.
NewIn(t, texts) == ToSet(texts) \ ({Empty} \cup DOMAIN t.strings)

\* Where a list first has a text.
FirstIn(texts, text) == CHOOSE i \in DOMAIN texts : texts[i] = text /\ \A j \in 1 .. i - 1 : texts[j] # text

\* register_str for each text of a list: the key has a copy of the text, and so has the entry.
RegisterStrings(t, texts) ==
  [strings |-> [text \in DOMAIN t.strings \cup NewIn(t, texts) |->
                  IF text \in DOMAIN t.strings THEN t.strings[text] ELSE t.room + FirstIn(texts, text)],
   room    |-> IF NewIn(t, texts) = {} THEN t.room ELSE t.room + Len(texts),
   buffers |-> t.buffers, names |-> t.names, types |-> t.types]

RegisterString(t, text) == RegisterStrings(t, <<text>>)

\* What it returns: the copy, or the literal "" that every string_table_str begins as.
StringOf(t, text) == IF text \in DOMAIN t.strings THEN t.strings[text] ELSE 0
StringsOf(t, texts) == [i \in DOMAIN texts |-> StringOf(t, texts[i])]

-----------------------------------------------------------------------------
(* Qualified names.  An entry is found by its key, a view, and handed out   *)
(* as its value.                                                            *)

\* The key is made over a vector, which is then swapped into the entry.
InsertName(t, view) ==
  LET name == View(NextBuffer(t), view.size)
      u    == Store(t, Content(t, view))
  IN  [tables |-> [u EXCEPT !.names = @ \cup {[key |-> name, value |-> name]}], ref |-> name]

\* Mutant of FindName: a name is taken for one it is the beginning of.
FindNamePrefix(t, view) ==
  {entry \in t.names : entry.key.size >= view.size
                       /\ SubSeq(Content(t, entry.key), 1, view.size) = Content(t, view)}

FindName(t, view) ==
  {entry \in t.names : entry.key.size = view.size /\ Content(t, entry.key) = Content(t, view)}

\* register_name of a buffer of strings.
NameOf(t, view) ==
  LET found == FindName(t, view)
  IN  IF found = {} THEN InsertName(t, view)
      ELSE [tables |-> t, ref |-> (CHOOSE entry \in found : TRUE).value]

\* The caller makes the buffer, b, and keeps it no longer than the call.
Released(result, b) == [result EXCEPT !.tables = Drop(@, b)]

\* register_name of texts, which first become strings.
NameOver(t, texts) ==
  LET b == NextBuffer(t) IN Released(NameOf(Store(t, StringsOf(t, texts)), View(b, Len(texts))), b)
RegisterName(t, texts) == NameOver(RegisterStrings(t, texts), texts)

-----------------------------------------------------------------------------
(* Types.  A type_ref is its place in `types'.                              *)

\* Mutant of InsertType: the specializations are not copied behind the type_ref.
InsertTypeOfCaller(t, name, view) ==
  [t EXCEPT !.types = Append(@, [name |-> name, specs |-> view, key |-> view])]

\* A block for the type_ref and, behind it, its specializations; the key views these.
InsertType(t, name, view) ==
  LET specs == View(NextBuffer(t), view.size)
      u     == Store(t, Content(t, view))
  IN  [u EXCEPT !.types = Append(@, [name |-> name, specs |-> specs, key |-> specs])]

FindType(t, name, view) ==
  {r \in DOMAIN t.types :
     /\ t.types[r].name = name /\ t.types[r].key.size = view.size
     /\ Content(t, t.types[r].key) = Content(t, view)}

\* get_type_ref of a string and a buffer of type_refs.
TypeOf(t, name, view) ==
  LET found == FindType(t, name, view)
  IN  IF found = {} THEN [tables |-> InsertType(t, name, view), ref |-> Len(t.types) + 1]
      ELSE [tables |-> t, ref |-> CHOOSE r \in found : TRUE]

\* get_type_ref of a text, which first becomes a string, over a buffer of the caller.
TypeOver(t, text, specs) ==
  LET b == NextBuffer(t) IN Released(TypeOf(Store(t, specs), StringOf(t, text), View(b, Len(specs))), b)
GetTypeRef(t, text, specs) == TypeOver(RegisterString(t, text), text, specs)

-----------------------------------------------------------------------------
(* Clients: the reader, the plugins, the module.                            *)

InternInit ==
  /\ handed = [strings |-> {<<Empty, 0>>}, names |-> {}, types |-> {}]
  /\ calls = 0

Asking == calls < MaxCalls /\ calls' = calls + 1

AskString(text) ==
  /\ Asking
  /\ tables' = RegisterString(tables, text)
  /\ handed' = [handed EXCEPT !.strings = @ \cup {<<text, StringOf(tables', text)>>}]

AskName(texts) ==
  /\ Asking
  /\ tables' = RegisterName(tables, texts).tables
  /\ handed' = [handed EXCEPT !.names = @ \cup {<<texts, RegisterName(tables, texts).ref>>}]

AskType(text, specs) ==
  /\ Asking
  /\ tables' = GetTypeRef(tables, text, specs).tables
  /\ handed' = [handed EXCEPT !.types =
                  @ \cup {<<<<text, specs>>, GetTypeRef(tables, text, specs).ref>>}]

TypeRefs == {pair[2] : pair \in handed.types}

Ask ==
  \/ \E text \in Texts : AskString(text)
  \/ \E n \in 1 .. MaxSize : \E texts \in [1 .. n -> Texts] : AskName(texts)
  \/ \E text \in TypeNames, n \in 0 .. MaxSize : \E specs \in [1 .. n -> TypeRefs] :
       AskType(text, specs)

-----------------------------------------------------------------------------
(* Properties.                                                              *)

\* References are equal exactly if what they were asked for is.
Interned(pairs) == \A p, q \in pairs : p[1] = q[1] <=> p[2] = q[2]

\* string_table_str, qualified_name and type_ref are compared by address all over
\* the compiler: two calls give the same address for the same content and for no
\* other, however many calls lie between them.
EqualIfSame == Interned(handed.strings) /\ Interned(handed.names) /\ Interned(handed.types)

\* What was handed out still reads as what was asked for: no table has let go of
\* memory a reference leads to, nor has memory been given out twice.
ReferencesLive ==
  /\ \A p \in handed.strings : StringOf(tables, p[1]) = p[2]
  /\ \A p \in handed.names : Content(tables, p[2]) = StringsOf(tables, p[1])
  /\ \A p \in handed.types :
       /\ tables.types[p[2]].name = StringOf(tables, p[1][1])
       /\ Content(tables, tables.types[p[2]].specs) = p[1][2]
=============================================================================
