--------------------------- MODULE ModuleSymbols ---------------------------
(***************************************************************************)
(* Who owns the nodes of a module: the variables, functions and datatypes  *)
(* that module_impl makes and keeps in its symbol table, and the table     *)
(* that finds a datatype by its type (module.cpp).                         *)
(*                                                                         *)
(* The table is filled by plugins, through the interface of module.h.  A   *)
(* definition that throws before it has made anything changes nothing and  *)
(* is no step.                                                             *)
(***************************************************************************)
EXTENDS Integers, FiniteSets, SequencesExt

CONSTANTS
  Names,           \* qualified names
  Types,           \* type_refs
  FunctionTypes,   \* those of functions: "fn" with the types of the arguments
  MaxNodes         \* bound: nodes ever made

ASSUME SymbolsAssumption == FunctionTypes \subseteq Types /\ MaxNodes \in Nat

VARIABLES
  made,       \* the nodes ever made, by their numbers
  freed,      \* those that were deleted
  symbols,    \* _symbol_map, in the order of its vectormap
  datatypes   \* _datatypes: datatype nodes by their types

symbolVars == <<made, freed, symbols, datatypes>>

Kinds == {"variable", "function", "datatype"}

\* Only a datatype ever has properties.
Node(kind, type) == [kind |-> kind, type |-> type, properties |-> << >>]
Symbol(name, kind, nodes) == [name |-> name, kind |-> kind, nodes |-> nodes]

IsDefined(name) == \E i \in DOMAIN symbols : symbols[i].name = name

\* The place of a name that is defined.
Find(name) == CHOOSE i \in DOMAIN symbols : symbols[i].name = name

InRoom == Len(made) < MaxNodes
NewNode == Len(made) + 1

\* Mutant of Register: the last datatype of a type is the one that is found.
RegisterLast(kind, type, node) ==
  datatypes' = IF kind # "datatype" THEN datatypes
               ELSE [t \in DOMAIN datatypes \union {type} |->
                       IF t = type THEN node ELSE datatypes[t]]

\* insert into _datatypes, which keeps what it has.
Register(kind, type, node) ==
  datatypes' = IF kind # "datatype" \/ type \in DOMAIN datatypes THEN datatypes
               ELSE [t \in DOMAIN datatypes \union {type} |->
                       IF t = type THEN node ELSE datatypes[t]]

\* Mutant of AddSymbol: the datatype is registered before its name is looked up.
AddSymbolRegisterFirst(name, kind, type) ==
  /\ InRoom
  /\ made' = Append(made, Node(kind, type))
  /\ Register(kind, type, NewNode)
  /\ IF IsDefined(name)
     THEN /\ freed' = freed \union {NewNode}
          /\ UNCHANGED symbols
     ELSE /\ symbols' = Append(symbols, Symbol(name, kind, <<NewNode>>))
          /\ UNCHANGED freed

\* add_symbol, of define_variable and define_datatype: the node is there before the
\* name is looked up, and goes if it is taken.
AddSymbol(name, kind, type) ==
  /\ InRoom
  /\ made' = Append(made, Node(kind, type))
  /\ IF IsDefined(name)
     THEN /\ freed' = freed \union {NewNode}
          /\ UNCHANGED <<symbols, datatypes>>
     ELSE /\ symbols' = Append(symbols, Symbol(name, kind, <<NewNode>>))
          /\ Register(kind, type, NewNode)
          /\ UNCHANGED freed

\* define_function: an overload of its own for each type.
AddFunction(name, type) ==
  /\ InRoom
  /\ made' = Append(made, Node("function", type))
  /\ IF IsDefined(name)
     THEN /\ symbols[Find(name)].kind = "function"
          /\ \A k \in DOMAIN symbols[Find(name)].nodes :
               made[symbols[Find(name)].nodes[k]].type # type
          /\ symbols' = [symbols EXCEPT ![Find(name)].nodes = Append(@, NewNode)]
     ELSE symbols' = Append(symbols, Symbol(name, "function", <<NewNode>>))
  /\ UNCHANGED <<freed, datatypes>>

\* ~module_impl: delete_symbol of each.
DeleteSymbols ==
  /\ freed' = freed \union UNION {Range(symbols[i].nodes) : i \in DOMAIN symbols}
  /\ symbols' = << >> /\ datatypes' = << >>
  /\ UNCHANGED made

SymbolsInit == made = << >> /\ freed = {} /\ symbols = << >> /\ datatypes = << >>

-----------------------------------------------------------------------------
(* Properties.                                                              *)

\* A node that is not deleted is held by one slot of the table, which will delete it;
\* what was deleted is held by none, and is not found by its type either.
NodesOwnedOnce ==
  /\ \A i \in DOMAIN symbols : \A k \in DOMAIN symbols[i].nodes :
       /\ symbols[i].nodes[k] \in DOMAIN made \ freed
       /\ \A j \in DOMAIN symbols : \A l \in DOMAIN symbols[j].nodes :
            symbols[j].nodes[l] = symbols[i].nodes[k] => j = i /\ l = k
  /\ \A node \in DOMAIN made \ freed :
       \E i \in DOMAIN symbols : \E k \in DOMAIN symbols[i].nodes :
         symbols[i].nodes[k] = node
  /\ \A type \in DOMAIN datatypes :
       /\ datatypes[type] \in DOMAIN made \ freed
       /\ made[datatypes[type]].kind = "datatype" /\ made[datatypes[type]].type = type
=============================================================================
