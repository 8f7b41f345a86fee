-------------------------- MODULE AccessInvariant --------------------------
(***************************************************************************)
(* Why the second walk of VariableAccess goes where the first one went,    *)
(* whatever was defined between them: the invariant its theorems rest on.  *)
(* The path of an access, as its type check took it, stays the path that   *)
(* its chain describes, since the table and the properties of a datatype   *)
(* only grow; and the second walk is at entry `at' of this path, with the  *)
(* type the first had there and the indices of the members before.         *)
(***************************************************************************)
EXTENDS VariableAccess

Nodes == [kind : Kinds, type : Types, properties : Seq(Properties)]
Symbols == [name : Names, kind : Kinds, nodes : Seq(Nat)]

\* The table holds nodes of its symbols' kinds, by names and types of their own.
SymbolsOK ==
  /\ made \in Seq(Nodes) /\ freed \subseteq DOMAIN made
  /\ symbols \in Seq(Symbols)
  /\ \A i \in DOMAIN symbols :
       /\ symbols[i].nodes # << >>
       /\ \A k \in DOMAIN symbols[i].nodes : made[symbols[i].nodes[k]].kind = symbols[i].kind
       /\ symbols[i].kind = "function" =>
            \A k \in DOMAIN symbols[i].nodes : made[symbols[i].nodes[k]].type \in FunctionTypes
  /\ \A i, j \in DOMAIN symbols : symbols[i].name = symbols[j].name => i = j
  /\ datatypes \in [DOMAIN datatypes -> DOMAIN made] /\ DOMAIN datatypes \subseteq Types

\* A name is a property once.
PropertiesOK ==
  \A node \in DOMAIN made :
    /\ Len(PropertiesOf(node)) <= MaxProperties
    /\ \A o, p \in DOMAIN PropertiesOf(node) :
         PropertiesOf(node)[o].name = PropertiesOf(node)[p].name => o = p

\* A name that an access may begin with.
NameOK(name) ==
  \/ name \in DOMAIN Locals
  \/ IsDefined(name) /\ symbols[Find(name)].kind # "datatype"

AccessOK(acc) == acc.chain \in Chains /\ NameOK(acc.name)

\* The type after entry j.
TypeAt(acc, members, j) == IF j = 0 THEN Base(acc.name) ELSE members[j].type

\* What an entry leads to from type t.
MemberOK(t, entry, member) ==
  \/ /\ member.kind = "pointer"
     /\ entry.kind # "name" /\ IsPointer(t) /\ member.type = Pointee[t]
  \/ /\ member.kind \in {"field", "accessor"}
     /\ entry.kind = "index" => ~ IsPointer(t)
     /\ member.ordinal \in Ordinals(t, entry) /\ member.node = datatypes[t]
     /\ PropertiesOf(member.node)[member.ordinal].kind = member.kind
     /\ PropertiesOf(member.node)[member.ordinal].type = member.type

PathOK(acc, members) ==
  \A j \in DOMAIN members : MemberOK(TypeAt(acc, members, j - 1), acc.chain[j], members[j])

Members == [kind : {"pointer", "field", "accessor"}, node : Nat, ordinal : Nat, type : Types]

\* The nodes of the program.
ProgramNodes == [access : [name : Names, chain : Chains], type : Types, path : Seq(Members)]

NodeOK(node) ==
  /\ AccessOK(node.access) /\ PathOK(node.access, node.path)
  /\ Len(node.path) = Len(node.access.chain)
  /\ node.type = TypeAt(node.access, node.path, Len(node.path))

AccessesOK ==
  /\ accesses \in Seq(ProgramNodes)
  /\ \A k \in DOMAIN accesses : NodeOK(accesses[k])

\* The first walk.
CheckOK ==
  stage = "check" =>
    /\ access \in [name : Names, chain : Chains] /\ AccessOK(access)
    /\ path \in Seq(Members) /\ PathOK(access, path)
    /\ at \in Nat /\ at = Len(path) /\ at <= Len(access.chain)
    /\ reached = TypeAt(access, path, at) /\ reached \in Types
    /\ readable \in BOOLEAN

\* The second walk: it follows the path, or has come to what has no place.
LookupOK ==
  stage \in {"lookup", "undefined"} =>
    /\ Len(results) < Len(accesses) /\ access = Current.access
    /\ at \in Nat /\ at <= Len(access.chain)
    /\ reached \in Types \union {NoType} /\ indices \in Seq(Int)
    /\ ~ SkipsAccessor(Current) =>
         /\ stage = "lookup"
         /\ \/ reached = NoType /\ HasNoPlace(Current)
            \/ /\ reached = TypeAt(access, Current.path, at)
               /\ Len(indices) = Len(Leading(access)) + at
               /\ \A j \in 1 .. at : GoesTo(Current, j, indices[Len(Leading(access)) + j])

\* Results are those of one compile.
ResultsOK ==
  /\ stage \in {"define", "check", "compile", "lookup", "thrown", "undefined", "ended"}
  /\ results \in Seq([type : Types \union {NoType, Threw}, indices : Seq(Int)])
  /\ Len(results) <= Len(accesses)
  /\ stage \in {"define", "check", "ended"} => results = << >>

IInv ==
  /\ SymbolsOK /\ PropertiesOK /\ NodesOwnedOnce
  /\ AccessesOK /\ CheckOK /\ LookupOK /\ ResultsOK
  /\ TypesAgree /\ SameMembers
=============================================================================
