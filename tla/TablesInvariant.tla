--------------------------- MODULE TablesInvariant ---------------------------
(***************************************************************************)
(* What holds of the tables of a compiler in every state, strong enough to *)
(* be preserved by every step: what the tables own is never freed and each *)
(* content has one owner, so a reference means the same for ever; the      *)
(* functions are the registered operators, each once; and a type that is   *)
(* not being lowered is whole in the cache.                                *)
(***************************************************************************)
EXTENDS CompilerTables

Views == [at : Nat, size : Nat]

\* What has an address in the string table, the empty text included.
Registered(t, text) == text = Empty \/ text \in DOMAIN t.strings

\* A view over memory that its owner still has.
Live(t, view) ==
  IF view.size = 0 THEN view.at = 0
  ELSE /\ view.at \in DOMAIN t.buffers
       /\ t.buffers[view.at] \in Seq(Nat) /\ Len(t.buffers[view.at]) = view.size

TablesTyped(t) ==
  t \in [strings : {t.strings}, room : Nat, buffers : Seq(Seq(Int)),
         names : SUBSET [key : Views, value : Views],
         types : Seq([name : Nat, specs : Views, key : Views])]

\* Each text has a copy of its own.
StringsApart(t) ==
  /\ t.strings = [text \in DOMAIN t.strings |-> t.strings[text]]
  /\ Empty \notin DOMAIN t.strings
  /\ \A text \in DOMAIN t.strings : t.strings[text] \in 1 .. t.room
  /\ \A v, w \in DOMAIN t.strings : t.strings[v] = t.strings[w] => v = w

\* Each name is made of what its key views, and no two are made of the same.
NamesApart(t) ==
  /\ \A entry \in t.names : entry.key = entry.value /\ Live(t, entry.key)
  /\ \A e, f \in t.names : Content(t, e.key) = Content(t, f.key) => e = f

\* The same of types, which have registered names and are made of older types.
TypesApart(t) ==
  /\ \A r \in DOMAIN t.types :
       /\ t.types[r].specs = t.types[r].key /\ Live(t, t.types[r].key)
       /\ ToSet(Content(t, t.types[r].key)) \subseteq 1 .. r - 1
       /\ \E text \in {Empty} \cup DOMAIN t.strings : StringOf(t, text) = t.types[r].name
  /\ \A q, r \in DOMAIN t.types :
       t.types[q].name = t.types[r].name /\ Content(t, t.types[q].key) = Content(t, t.types[r].key) => q = r

TablesOK(t) == TablesTyped(t) /\ StringsApart(t) /\ NamesApart(t) /\ TypesApart(t)

\* That a reference is the name of these texts; or the type of this name and these types.
IsName(t, ref, texts) ==
  /\ \A i \in DOMAIN texts : Registered(t, texts[i])
  /\ \E entry \in t.names : entry.value = ref
  /\ Content(t, ref) = StringsOf(t, texts)

IsType(t, ref, text, specs) ==
  /\ Registered(t, text) /\ ref \in DOMAIN t.types
  /\ t.types[ref].name = StringOf(t, text) /\ Content(t, t.types[ref].specs) = specs

HandedOK ==
  /\ handed \in [strings : {handed.strings}, names : {handed.names}, types : {handed.types}]
  /\ \A p \in handed.strings : Registered(tables, p[1]) /\ p[2] = StringOf(tables, p[1])
  /\ \A p \in handed.names : p[1] \in Seq(Texts) /\ IsName(tables, p[2], p[1])
  /\ \A p \in handed.types :
       /\ p[1] \in TypeNames \X Seq(Nat)
       /\ IsType(tables, p[2], p[1][1], p[1][2])

-----------------------------------------------------------------------------
(* The operators.                                                           *)

\* That a function is the overload of the c-th registration for the j-th of its types.
IsOverload(t, f, c, j) ==
  /\ IsName(t, f.name, <<Registrations[c].op>>)
  /\ \E r \in DOMAIN t.types : f.args = <<r, r>> /\ IsType(t, r, Registrations[c].types[j], << >>)
  /\ IsType(t, f.type, "fn", f.args)
  /\ f.instr = Registrations[c].instr

\* That this overload has been registered.
IsDone(c, j) ==
  c < registered.call \/ (c = registered.call /\ j < registered.type)

OperatorsOnce ==
  /\ phase # "failed"
  /\ registered \in [call : 1 .. Len(Registrations) + 1, type : Nat \ {0}]
  /\ phase # "create" => registered.call = Len(Registrations) + 1
  /\ functions \in Seq(ToSet(functions))
  /\ \A k \in DOMAIN functions :
       \/ \E c \in DOMAIN Registrations : \E j \in DOMAIN Registrations[c].types :
            IsDone(c, j) /\ IsOverload(tables, functions[k], c, j)
       \/ phase # "create" /\ \E op \in {"malloc", "free"} : IsName(tables, functions[k].name, <<op>>)
  /\ \A c \in DOMAIN Registrations : \A j \in DOMAIN Registrations[c].types :
       IsDone(c, j) => \E k \in DOMAIN functions : IsOverload(tables, functions[k], c, j)

-----------------------------------------------------------------------------
(* The lowering of types.                                                   *)

Cache == lowering.cache
Open  == lowering.open

\* The parts of r before the i-th are in the cache, and this has put them into `parts'.
PartsIn(r, i, parts) ==
  \A k \in DOMAIN Parts(r) : k < i /\ Kept(r, k) =>
    /\ Parts(r)[k] \in DOMAIN Cache /\ Cache[Parts(r)[k]] # Null
    /\ Position(r, k) \in DOMAIN parts /\ parts[Position(r, k)] = Cache[Parts(r)[k]]

\* A call that has put together whole types so far.
Frames == [type : DOMAIN Cache, next : Nat \ {0}, parts : Seq(Range(Cache) \ {Null})]

LoweringTyped ==
  /\ lowering \in [cache : {Cache}, structs : Nat, open : {Open}]
  /\ DOMAIN Cache \subseteq DOMAIN tables.types
  /\ Open \in Seq(Frames)
  /\ ~Compiling => Open = << >> /\ answers = {}

\* The calls under way go from types to older types, and of these the cache has nulls.
NullsOpen ==
  /\ \A k, m \in DOMAIN Open : k < m => Open[m].type < Open[k].type
  /\ \A r \in DOMAIN Cache : Cache[r] = Null <=> \E k \in DOMAIN Open : Open[k].type = r

\* Each has so far what it is made of.
IsPartly(frame) ==
  /\ frame.next <= Len(Parts(frame.type)) + 1
  /\ Len(frame.parts) = Position(frame.type, frame.next - 1)
  /\ PartsIn(frame.type, frame.next, frame.parts)

OpenPartly == \A k \in DOMAIN Open : IsPartly(Open[k])

\* All others are whole, and structs apart.
CachedWhole ==
  /\ \A r \in DOMAIN Cache : Cache[r] # Null => PartsIn(r, Len(Parts(r)) + 1, Cache[r].parts)
  /\ \A r \in DOMAIN Cache : Cache[r].kind = "struct" => Cache[r].number \in 1 .. lowering.structs
  /\ \A q, r \in DOMAIN Cache :
       Cache[q].kind = "struct" /\ Cache[r].kind = "struct" /\ Cache[q].number = Cache[r].number => q = r

AnswersCached == \A a \in answers : a[1] \in DOMAIN Cache /\ a[2] = Cache[a[1]] /\ a[2] # Null

LoweringOK == LoweringTyped /\ (Compiling => NullsOpen /\ OpenPartly /\ CachedWhole /\ AnswersCached)

-----------------------------------------------------------------------------
(* Each of the three parts is preserved if those before it hold.            *)

TablesInv == TablesOK(tables) /\ HandedOK /\ calls \in 0 .. MaxCalls

OperatorsInv ==
  /\ phase \in {"create", "use", "compile", "second", "return", "failed"}
  /\ OperatorsOnce /\ OperatorsCompute

IInv == TablesInv /\ OperatorsInv /\ LoweringOK
=============================================================================
