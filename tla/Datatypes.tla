----------------------------- MODULE Datatypes -----------------------------
(***************************************************************************)
(* The properties of a datatype: fields and accessors in the order they    *)
(* were added, found by name or by ordinal, and the struct the first pass  *)
(* makes of the fields (datatype_node_impl, module.cpp).                   *)
(*                                                                         *)
(* Static properties and operators are kept beside these and looked up by  *)
(* nothing; they are left out.                                             *)
(***************************************************************************)
EXTENDS ModuleSymbols

CONSTANTS
  Void,            \* the void type
  Properties,      \* what may be added to a datatype
  MaxProperties    \* bound: the properties of a datatype

\* A field, or an accessor with or without a getter and a setter.
ASSUME PropertiesAssumption ==
  /\ Void \in Types /\ MaxProperties \in Nat
  /\ Properties \subseteq [name : STRING, kind : {"field", "accessor"}, type : Types,
                           read : BOOLEAN, write : BOOLEAN]
  /\ \A property \in Properties : property.kind = "field" => property.read /\ property.write

\* The datatypes somebody may have a reference to.
LiveDatatypes == {node \in DOMAIN made \ freed : made[node].kind = "datatype"}

PropertiesOf(node) == made[node].properties

\* find_property: the ordinal of a name.
HasProperty(node, name) ==
  \E o \in DOMAIN PropertiesOf(node) : PropertiesOf(node)[o].name = name
FindProperty(node, name) ==
  CHOOSE o \in DOMAIN PropertiesOf(node) : PropertiesOf(node)[o].name = name

\* Mutant of IndexOfField: the ordinal among all properties.
IndexAmongAll(node, o) == o - 1

\* index_of_field, of the property with this ordinal: how many fields are before it.
IndexOfField(node, o) ==
  Cardinality({p \in 1 .. o - 1 : PropertiesOf(node)[p].kind = "field"})

\* compile_first_pass: the properties the struct has an element for.
InStruct(node, o) ==
  /\ PropertiesOf(node)[o].kind = "field"
  /\ PropertiesOf(node)[o].type # Void

\* Where in the struct a field is.
ElementOf(node, o) == Cardinality({p \in 1 .. o - 1 : InStruct(node, p)})

\* add_field and add_accessor: a name is added once.
AddProperty(node, property) ==
  /\ node \in LiveDatatypes
  /\ ~ HasProperty(node, property.name)
  /\ Len(PropertiesOf(node)) < MaxProperties
  /\ made' = [made EXCEPT ![node].properties = Append(@, property)]
  /\ UNCHANGED <<freed, symbols, datatypes>>
=============================================================================
