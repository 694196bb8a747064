------------------------------- MODULE Schemas --------------------------------
(***************************************************************************)
(* A template's schema: an ordered list of sections, each an ordered list  *)
(* of fields.  The operators are the builder's reducer, the server's       *)
(* validator and the dashboard's columns and rows.                         *)
(*                                                                         *)
(* An id made by the builder is its number; a seed's own ids are numbers   *)
(* the builder's happen not to meet.  One type stands for each way a type  *)
(* is treated: with options or without.  A label is fine or too long (an   *)
(* empty one never leaves the input).  "birth" is history: which edit added*)
(* the field, so that two fields given one id are told apart.              *)
(***************************************************************************)
EXTENDS Naturals, Sequences, FiniteSets, SequencesExt

CONSTANTS MaxSections, MaxFields, MaxOptions

ASSUME BoundsAssumption ==
    MaxSections \in Nat \ {0} /\ MaxFields \in Nat /\ MaxOptions \in Nat \ {0}

FieldTypes == {"text", "select"}
Labels == {"fine", "long"}
Options == {"Option 1", "New option"}
Field == [id : Nat, type : FieldTypes, label : Labels, options : Seq(Options), birth : Nat]
Section == [id : Nat, label : Labels, fields : Seq(Field)]
TemplateSchema == Seq(Section)

(* Where the fields are: section, then place in it.                        *)
Places(schema) == UNION {{s} \X DOMAIN schema[s].fields : s \in DOMAIN schema}
FieldAt(schema, p) == schema[p[1]].fields[p[2]]
FieldsOf(schema) == {FieldAt(schema, p) : p \in Places(schema)}
collectFieldIds(schema) == {field.id : field \in FieldsOf(schema)}

nextUniqueId(existing) ==
    CHOOSE n \in 1 .. Cardinality(existing) + 1 :
        n \notin existing /\ \A m \in 1 .. n - 1 : m \in existing

makeField(type, id, birth) ==
    [id |-> id, type |-> type, label |-> "fine", birth |-> birth,
     options |-> IF type = "select" THEN <<"Option 1">> ELSE << >>]

MoveWithin(list, from, to) ==
    IF to \in DOMAIN list THEN InsertAt(RemoveAt(list, from), to, list[from]) ELSE list

----------------------------------------------------------------------------
(* The reducer.                                                            *)
InitialSchema == <<[id |-> 1, label |-> "fine", fields |-> << >>]>>

AddSection(schema) ==
    Append(schema, [id |-> nextUniqueId({schema[s].id : s \in DOMAIN schema}),
                    label |-> "fine", fields |-> << >>])

(* Mutant: an id that is new to the section alone.                         *)
AddFieldToSection(schema, s, type, at, birth) ==
    [schema EXCEPT ![s].fields =
        InsertAt(@, at, makeField(type, nextUniqueId({@[f].id : f \in DOMAIN @}), birth))]

AddField(schema, s, type, at, birth) ==
    [schema EXCEPT ![s].fields =
        InsertAt(@, at, makeField(type, nextUniqueId(collectFieldIds(schema)), birth))]

ReorderField(schema, s, from, to) == [schema EXCEPT ![s].fields = MoveWithin(@, from, to)]

(* Mutant: the field is taken from its section and put in no other.        *)
MoveFieldAway(schema, p, s, at) == [schema EXCEPT ![p[1]].fields = RemoveAt(@, p[2])]

MoveField(schema, p, s, at) ==
    [schema EXCEPT ![p[1]].fields = RemoveAt(@, p[2]),
                   ![s].fields = InsertAt(@, at, FieldAt(schema, p))]

AddOption(schema, p) ==
    [schema EXCEPT ![p[1]].fields[p[2]].options = Append(@, "New option")]

EditOption(schema, p, i, value) == [schema EXCEPT ![p[1]].fields[p[2]].options[i] = value]

RemoveOption(schema, p, i) == [schema EXCEPT ![p[1]].fields[p[2]].options = RemoveAt(@, i)]

----------------------------------------------------------------------------
(* The server's rules.                                                     *)
ValidateOptions(field) ==
    IF field.type = "select"
    THEN Len(field.options) \in 1 .. MaxOptions /\ IsInjective(field.options)
    ELSE field.options = << >>

UniqueFieldIds(schema) ==
    \A p, q \in Places(schema) : FieldAt(schema, p).id = FieldAt(schema, q).id => p = q

Validate(schema) ==
    /\ Len(schema) \in 1 .. MaxSections
    /\ \A s \in DOMAIN schema :
          schema[s].label = "fine" /\ Len(schema[s].fields) <= MaxFields
    /\ UniqueFieldIds(schema)
    /\ \A field \in FieldsOf(schema) : field.label = "fine" /\ ValidateOptions(field)

----------------------------------------------------------------------------
(* The dashboard.  A report's value is named after the field it was given  *)
(* for, and a cell is the set of the values it shows: none stands for the  *)
(* marker of a field the report has no value for.  Every column has a cell.*)
renderCell(id, values) == IF id \in DOMAIN values THEN {values[id]} ELSE {}

(* Mutant: a field without a value is left out of the row.                 *)
buildRowSparse(columns, values) ==
    [id \in collectFieldIds(columns) \cap DOMAIN values |-> renderCell(id, values)]

buildRow(columns, values) == [id \in collectFieldIds(columns) |-> renderCell(id, values)]
=============================================================================
