--------------------------- MODULE VariableAccess ---------------------------
(***************************************************************************)
(* get and set of a member: a variable and a chain of names, ordinals and  *)
(* computed values, which type_check_variable_access walks by the types    *)
(* alone and, in a later compile, lookup_compile_variable walks again to   *)
(* make the indices of a getelementptr (module.cpp).                       *)
(*                                                                         *)
(* Both look everything up afresh, and more may have been defined between  *)
(* them.  Here the two walks are taken one entry of the chain at a time.   *)
(* A lookup that resolves nothing, or throws, while type checking leaves   *)
(* no trace and is no step.  The scopes of locals are ScopeResolution's:   *)
(* here a local has its type in both walks.                                *)
(***************************************************************************)
EXTENDS Datatypes

CONSTANTS
  VariableTypes,  \* the types variables are defined with
  DatatypeTypes,  \* the types datatypes are defined with
  Pointee,        \* deref_ptr_type, of the pointer types
  PointerTo,      \* get_ptr_type, of the types of functions
  Locals,         \* the locals in scope, with their types
  Chains,         \* the chains that are looked up
  HalfInt,        \* the range of int32_t: -HalfInt .. HalfInt - 1
  MaxAccesses     \* bound: accesses ever type checked

\* An entry is a name, an ordinal, or a value the program computes.
Entries == [kind : {"name"}, name : STRING] \union [kind : {"index"}, index : Int]
             \union [kind : {"value"}]

ASSUME AccessAssumption ==
  /\ VariableTypes \subseteq Types /\ DatatypeTypes \subseteq Types
  /\ DOMAIN Pointee \subseteq Types
  /\ \A pointer \in DOMAIN Pointee : Pointee[pointer] \in Types
  /\ PointerTo \in [FunctionTypes -> DOMAIN Pointee]
  /\ DOMAIN Locals \subseteq Names
  /\ \A name \in DOMAIN Locals : Locals[name] \in Types \ {Void}
  /\ Chains \subseteq Seq(Entries)
  /\ HalfInt \in Nat /\ MaxProperties < HalfInt /\ MaxAccesses \in Nat

VARIABLES
  stage,      \* define, check, compile, lookup, thrown, ended or undefined
  access,     \* the access being looked up: the name and the chain
  at,         \* the entries of the chain that are done with
  reached,    \* base_variable_type, or final_type, or NoType
  readable,   \* can_read
  path,       \* history: the members the type check has passed
  indices,    \* GEPArgs
  accesses,   \* the nodes of the program: what was type checked, and as what
  results     \* what the second pass of this compile has made of them

walk == <<access, at, reached, readable, path, indices>>
vars == <<symbolVars, stage, walk, accesses, results>>

NoType == "no type"   \* a null type_ref_ptr
Threw  == "threw"     \* in place of a result

ASSUME NoTypeAssumption == NoType \notin Types /\ Threw \notin Types

IsPointer(t) == t \in DOMAIN Pointee

\* In place of an index the program computes: no int32_t.
Computed == HalfInt

\* static_cast<int32_t>.
Int32(i) == ((i + HalfInt) % (2 * HalfInt)) - HalfInt

\* find_datatype, then find_property or get_property_by_index: there is one or none.
Ordinals(t, entry) ==
  {o \in 1 .. MaxProperties :
     /\ t \in DOMAIN datatypes /\ o \in DOMAIN PropertiesOf(datatypes[t])
     /\ \/ entry.kind = "name" /\ entry.name = PropertiesOf(datatypes[t])[o].name
        \/ entry.kind = "index" /\ entry.index = o - 1}

\* Between two lookups there is none.
NoAccess == [name |-> << >>, chain |-> << >>]
EndWalk ==
  /\ access' = NoAccess /\ at' = 0 /\ reached' = NoType
  /\ readable' = TRUE /\ path' = << >> /\ indices' = << >>

Entry == access.chain[at + 1]
HasEntry == at < Len(access.chain)

-----------------------------------------------------------------------------
(* Definitions.                                                             *)

Define ==
  /\ stage = "define"
  /\ \/ \E name \in Names, t \in VariableTypes : AddSymbol(name, "variable", t)
     \/ \E name \in Names, t \in DatatypeTypes : AddSymbol(name, "datatype", t)
     \/ \E name \in Names, t \in FunctionTypes : AddFunction(name, t)
     \/ \E node \in LiveDatatypes, property \in Properties : AddProperty(node, property)
  /\ UNCHANGED <<stage, walk, accesses, results>>

-----------------------------------------------------------------------------
(* type_check_variable_access.                                              *)

\* The type of the name the chain begins with.
Base(name) ==
  IF name \in DOMAIN Locals THEN Locals[name]
  ELSE LET symbol == symbols[Find(name)]
           node   == made[symbol.nodes[1]]
       IN  IF symbol.kind = "variable" THEN node.type ELSE PointerTo[node.type]

\* It has one: a datatype has none, and overloads are ambiguous.
HasBase(name) ==
  \/ name \in DOMAIN Locals
  \/ /\ IsDefined(name)
     /\ symbols[Find(name)].kind # "datatype" /\ Len(symbols[Find(name)].nodes) = 1

BeginCheck(name, chain) ==
  /\ stage = "define" /\ HasBase(name) /\ Len(accesses) < MaxAccesses
  /\ stage' = "check"
  /\ access' = [name |-> name, chain |-> chain]
  /\ at' = 0 /\ reached' = Base(name) /\ readable' = TRUE /\ path' = << >>
  /\ UNCHANGED <<symbolVars, indices, accesses, results>>

Member(kind, node, ordinal, t) == [kind |-> kind, node |-> node, ordinal |-> ordinal, type |-> t]

\* On to the member that the next entry stands for.
Pass(member, read) ==
  /\ at' = at + 1 /\ reached' = member.type /\ readable' = (readable /\ read)
  /\ path' = Append(path, member)
  /\ UNCHANGED <<symbolVars, stage, access, indices, accesses, results>>

\* An ordinal or a value, of what a pointer points to.
CheckPointer ==
  /\ stage = "check" /\ HasEntry
  /\ Entry.kind # "name" /\ IsPointer(reached)
  /\ Pass(Member("pointer", 0, 0, Pointee[reached]), TRUE)

\* A name or an ordinal, of a datatype.
CheckMember ==
  /\ stage = "check" /\ HasEntry
  /\ Entry.kind = "index" => ~ IsPointer(reached)
  /\ \E o \in Ordinals(reached, Entry) :
       LET property == PropertiesOf(datatypes[reached])[o] IN
       Pass(Member(property.kind, datatypes[reached], o, property.type), property.read)

\* There is no such member, and the access has no type.
CheckNothing ==
  /\ stage = "check" /\ HasEntry
  /\ Ordinals(reached, Entry) = {}
  /\ Entry.kind # "name" => ~ IsPointer(reached)
  /\ stage' = "define" /\ EndWalk
  /\ UNCHANGED <<symbolVars, accesses, results>>

\* The plugins throw for what cannot be read, set_plugin too.
EndCheck ==
  /\ stage = "check" /\ ~ HasEntry
  /\ stage' = "define" /\ EndWalk
  /\ accesses' = IF readable THEN Append(accesses, [access |-> access, type |-> reached, path |-> path])
                 ELSE accesses
  /\ UNCHANGED <<symbolVars, results>>

-----------------------------------------------------------------------------
(* lookup_compile_variable, of each access in turn.                         *)

BeginCompile ==
  /\ stage = "define" /\ accesses # << >>
  /\ stage' = "compile"
  /\ UNCHANGED <<symbolVars, walk, accesses, results>>

Current == accesses[Len(results) + 1]

OnStack(name) == name \in DOMAIN Locals
IsFunctionName(name) == ~ OnStack(name) /\ symbols[Find(name)].kind = "function"

\* GEPArgs begins with a step through the alloca of a local.
Leading(acc) == IF OnStack(acc.name) /\ acc.chain # << >> THEN <<0>> ELSE << >>

\* Functions are not resolved at all.
BeginLookup ==
  /\ stage = "compile" /\ Len(results) < Len(accesses)
  /\ stage' = "lookup"
  /\ access' = Current.access
  /\ at' = 0
  /\ reached' = IF IsFunctionName(access'.name) THEN NoType ELSE Base(access'.name)
  /\ indices' = Leading(access')
  /\ UNCHANGED <<symbolVars, readable, path, accesses, results>>

\* The next entry gives a type and, but for accessors, an index.
Step(t, more) ==
  /\ at' = at + 1 /\ reached' = t /\ indices' = indices \o more
  /\ UNCHANGED <<symbolVars, stage, access, readable, path, accesses, results>>

LookingUp == stage = "lookup" /\ reached # NoType /\ HasEntry

LookupPointer ==
  /\ LookingUp /\ IsPointer(reached)
  /\ \/ Entry.kind = "index" /\ Step(Pointee[reached], <<Int32(Entry.index)>>)
     \/ Entry.kind = "value" /\ Step(Pointee[reached], <<Computed>>)

LookupName ==
  /\ LookingUp /\ Entry.kind = "name"
  /\ \/ \E o \in Ordinals(reached, Entry) :
          LET property == PropertiesOf(datatypes[reached])[o] IN
          IF property.kind = "field"
          THEN Step(property.type, <<IndexOfField(datatypes[reached], o)>>)
          ELSE Step(NoType, << >>)
     \/ Ordinals(reached, Entry) = {} /\ Step(NoType, << >>)

\* What is no field is passed over, and the type stays.
LookupOrdinal ==
  /\ LookingUp /\ Entry.kind = "index" /\ ~ IsPointer(reached)
  /\ reached \in DOMAIN datatypes
  /\ LET entry == [Entry EXCEPT !.index = Int32(@)] IN
     \/ \E o \in Ordinals(reached, entry) :
          LET property == PropertiesOf(datatypes[reached])[o] IN
          IF property.kind = "field"
          THEN Step(property.type, <<IndexOfField(datatypes[reached], o)>>)
          ELSE Step(reached, << >>)
     \/ Ordinals(reached, entry) = {} /\ Step(reached, << >>)

\* A null datatype is asked for its property.
LookupNoDatatype ==
  /\ LookingUp /\ Entry.kind = "index" /\ ~ IsPointer(reached)
  /\ reached \notin DOMAIN datatypes
  /\ stage' = "undefined"
  /\ UNCHANGED <<symbolVars, walk, accesses, results>>

\* deref_ptr_type throws, and the compile is over.
LookupThrows ==
  /\ LookingUp /\ Entry.kind = "value" /\ ~ IsPointer(reached)
  /\ stage' = "thrown" /\ EndWalk
  /\ results' = Append(results, [type |-> Threw, indices |-> << >>])
  /\ UNCHANGED <<symbolVars, accesses>>

EndLookup ==
  /\ stage = "lookup" /\ ~ LookingUp
  /\ stage' = "compile" /\ EndWalk
  /\ results' = Append(results, [type |-> reached,
                                 indices |-> IF reached = NoType THEN << >> ELSE indices])
  /\ UNCHANGED <<symbolVars, accesses>>

EndCompile ==
  /\ \/ stage = "compile" /\ Len(results) = Len(accesses)
     \/ stage = "thrown"
  /\ stage' = "define" /\ results' = << >>
  /\ UNCHANGED <<symbolVars, walk, accesses>>

\* The compiler ends, and its module with it.
End ==
  /\ stage = "define" /\ stage' = "ended"
  /\ DeleteSymbols
  /\ accesses' = << >>
  /\ UNCHANGED <<walk, results>>

Init ==
  /\ SymbolsInit
  /\ stage = "define"
  /\ access = NoAccess /\ at = 0 /\ reached = NoType
  /\ readable = TRUE /\ path = << >> /\ indices = << >>
  /\ accesses = << >> /\ results = << >>

Next ==
  \/ Define
  \/ \E name \in Names, chain \in Chains : BeginCheck(name, chain)
  \/ CheckPointer \/ CheckMember \/ CheckNothing \/ EndCheck
  \/ BeginCompile \/ BeginLookup
  \/ LookupPointer \/ LookupName \/ LookupOrdinal \/ LookupNoDatatype \/ LookupThrows
  \/ EndLookup \/ EndCompile
  \/ End

Spec == Init /\ [][Next]_vars

-----------------------------------------------------------------------------
(* Properties.                                                              *)

\* An accessor taken by its ordinal: the second walk passes over it, for all that
\* module.h:466 says of ordinals.
SkipsAccessor(node) ==
  \E j \in DOMAIN node.path : node.path[j].kind = "accessor" /\ node.access.chain[j].kind = "index"

\* What has no value in a variable: functions, and accessors.
HasNoPlace(node) ==
  \/ IsFunctionName(node.access.name)
  \/ \E j \in DOMAIN node.path : node.path[j].kind = "accessor"

\* The second walk of a chain comes to the type the first one found, whatever was
\* defined between them, or to nothing where there is no place to load from.  It follows no null
\* and throws nothing.
TypesAgree ==
  /\ \A k \in DOMAIN results :
       \/ results[k].type = accesses[k].type
       \/ results[k].type = NoType /\ HasNoPlace(accesses[k])
       \/ SkipsAccessor(accesses[k])
  /\ stage = "undefined" => SkipsAccessor(Current)

\* An index goes where the type check went with entry j: for a field to the element of
\* the struct the first pass has it in, if no field before it is void (those have no
\* element, and an index), for a pointer to the ordinal, if an int32_t has it.
GoesTo(node, j, index) ==
  LET member == node.path[j]
      entry  == node.access.chain[j]
  IN  /\ /\ member.kind = "field"
         /\ \A o \in 1 .. member.ordinal - 1 : PropertiesOf(member.node)[o].type # Void
         => index = ElementOf(member.node, member.ordinal)
      /\ member.kind = "pointer" /\ entry.kind = "index"
           /\ entry.index \in -HalfInt .. HalfInt - 1 => index = entry.index
      /\ member.kind = "pointer" /\ entry.kind = "value" => index = Computed

\* The getelementptr of an access has an index for each entry of its chain, and goes
\* where its type check went.
SameMembers ==
  \A k \in DOMAIN results :
    results[k].type \in Types /\ ~ SkipsAccessor(accesses[k]) =>
      LET before == Len(Leading(accesses[k].access)) IN
      /\ Len(results[k].indices) = before + Len(accesses[k].path)
      /\ \A j \in DOMAIN accesses[k].path :
           GoesTo(accesses[k], j, results[k].indices[before + j])
=============================================================================
