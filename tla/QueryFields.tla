---- MODULE QueryFields ----
(***************************************************************************)
(* The public query fields of a resource: newQueryFieldResolver collects   *)
(* them, automatically or from CrudDefinition.FieldMappings, under folded  *)
(* names, and refuses an entity or a mapping it cannot serve.              *)
(*                                                                         *)
(* A public name is a sequence of code points, a Go path a sequence of Go  *)
(* names, which also stands for SQLR's FieldIndex; <<>> stands for a text  *)
(* that is no Go path.                                                     *)
(***************************************************************************)
EXTENDS Integers, Sequences, SequencesExt

CONSTANTS CodePoints,
          Orbits,       \* the cycles of unicode.SimpleFold
          Asked,        \* the names that requests may hold
          Models,       \* the entities and their FieldMappings that may be met
          Nil,          \* no FieldMappings
          NoType,       \* no struct
          Base,         \* no relation
          Excluded,     \* sqlh:"field:-"
          Unmapped      \* no query field

\* The entity and its mappings, the names still to be added, the resolver's
\* fields, and "building", "serving" or "refused".
VARIABLES model, pending, fields, fieldStatus

fieldVars == <<model, pending, fields, fieldStatus>>

Capitals == 65..90

\* A letter of ASCII is folded with its other case, and possibly with letters
\* beyond ASCII (K with the Kelvin sign); nothing else of ASCII is folded.
ASSUME OrbitAssumption ==
  /\ CodePoints \subseteq Nat /\ UNION Orbits = CodePoints
  /\ \A o, p \in Orbits : o \cap p # {} => o = p
  /\ \A o \in Orbits : \E least \in o : \A r \in o :
       /\ least <= r
       /\ least \in Capitals => least + 32 \in o
       /\ r < 128 => r = least \/ (least \in Capitals /\ r = least + 32)
ASSUME NamesAssumption ==
  /\ Asked \subseteq Seq(CodePoints)
  /\ \A m \in Models :
       /\ m.configured = Nil \/ DOMAIN m.configured \subseteq Seq(CodePoints)
       /\ \A f \in m.types[m.entity].visible : f.public \in Seq(CodePoints) \cup {Excluded}

\* What reflect and SQLR report: a type has one visible field of a name, and
\* no column is a complete struct.
ASSUME StructAssumption ==
  /\ Base \notin STRING /\ Unmapped \notin [relation : STRING \cup {Base}, column : STRING]
  /\ \A m \in Models :
       /\ {m.entity, NoType} \subseteq DOMAIN m.types /\ m.types[NoType].visible = {}
       /\ m.configured # Nil => \A public \in DOMAIN m.configured : m.configured[public] \in Seq(STRING)
       /\ \A t \in DOMAIN m.types :
            LET struct == m.types[t] IN
            /\ \A f \in struct.visible : f.index \in Seq(STRING) /\ f.type \in DOMAIN m.types
            /\ \A f, g \in struct.visible : f.name = g.name => f = g
            /\ <<>> \notin DOMAIN struct.columns
            /\ \A x \in DOMAIN struct.columns : struct.columns[x].name \in STRING
            /\ \A r \in DOMAIN struct.relations : struct.relations[r].related \in DOMAIN m.types

----
(* foldQueryFieldName                                                      *)

AsciiLower(name) == \A i \in DOMAIN name : name[i] < 128 /\ name[i] \notin Capitals

Least(orbit) == CHOOSE r \in orbit : \A s \in orbit : r <= s

\* Mutant: only the capitals of ASCII are folded.
FoldAscii(r) == IF r \in Capitals THEN r + 32 ELSE r

FoldRune(r) ==
  LET minimum == Least(CHOOSE o \in Orbits : r \in o)
  IN IF minimum \in Capitals THEN minimum + 32 ELSE minimum

Fold(name) == IF AsciiLower(name) THEN name ELSE [i \in DOMAIN name |-> FoldRune(name[i])]

\* strings.EqualFold, which the comment of foldQueryFieldName refers to.
EqualFold(a, b) ==
  /\ Len(a) = Len(b)
  /\ \A i \in DOMAIN a : \E o \in Orbits : {a[i], b[i]} \subseteq o

----
(* The entity's struct types and SQLR's schemas of them, by a type's name  *)

\* Struct fields that FieldByName finds in a type, promoted ones included:
\* shadowed and ambiguous ones are not among them.
Visible(types, t, name) == {f \in types[t].visible : f.name = name}

Lost == [type |-> NoType, index |-> <<>>]

\* One step of queryGoFieldIndex.
Enter(types, at, part) ==
  LET found == {f \in Visible(types, at.type, part) : f.exported}
  IN IF found = {} THEN Lost
     ELSE LET f == CHOOSE g \in found : TRUE IN [type |-> f.type, index |-> at.index \o f.index]

FieldIndex(types, t, parts) ==
  FoldLeft(LAMBDA at, part : Enter(types, at, part), [type |-> t, index |-> <<>>], parts).index

\* queryColumnAtIndex: a column of the schema that is no ordinary collection.
IsScalar(struct, index) == index \in DOMAIN struct.columns /\ struct.columns[index].scalar

\* queryMappedField: the column under its table's name, or its relation's.
MappedField(struct, index, relation) ==
  LET column == struct.columns[index]
  IN IF column.plain /\ (relation = Base => struct.plain)
     THEN [relation |-> relation, column |-> column.name] ELSE Unmapped

MappedScalar(types, t, parts, relation) ==
  LET index == FieldIndex(types, t, parts)
  IN IF IsScalar(types[t], index) THEN MappedField(types[t], index, relation) ELSE Unmapped

\* Mutant: a field that shadows a relation is taken for it.
NameOfRelation(types, t, name) == name \in DOMAIN types[t].relations /\ Visible(types, t, name) # {}

\* The path's first name is a relation, and not a field that shadows one.
NamesRelation(types, t, name) ==
  /\ name \in DOMAIN types[t].relations
  /\ \E f \in Visible(types, t, name) : f.index = types[t].relations[name].index

\* resolveQueryRelationPath, which follows one relation to one entity.
RelationPath(types, t, path) ==
  LET relation == types[t].relations[Head(path)]
      joinable == /\ Len(path) >= 2 /\ relation.toOne /\ relation.related # NoType
                  /\ types[t].keyed /\ types[relation.related].keyed /\ relation.plain
  IN IF joinable THEN MappedScalar(types, relation.related, Tail(path), Head(path)) ELSE Unmapped

GoPath(types, t, path) ==
  IF path # <<>> /\ NamesRelation(types, t, Head(path)) THEN RelationPath(types, t, path)
  ELSE MappedScalar(types, t, path, Base)

----
(* newQueryFieldResolver                                                   *)

\* Malformed tags never come here: the tag walk has refused them before.
Automatic(m) ==
  LET struct == m.types[m.entity]
  IN {[name |-> f.public, path |-> f.index, field |-> MappedField(struct, f.index, Base)] :
        f \in {g \in struct.visible : g.exported /\ IsScalar(struct, g.index) /\ g.public # Excluded}}

Configured(m) ==
  {[name |-> public, path |-> m.configured[public], field |-> GoPath(m.types, m.entity, m.configured[public])] :
    public \in DOMAIN m.configured}

DeclaredBy(m) == IF m.configured = Nil THEN Automatic(m) ELSE Configured(m)
Declared == DeclaredBy(model)

FieldsInit ==
  /\ model \in Models
  /\ pending = Declared
  /\ fields = <<>> /\ fieldStatus = "building"

\* The resolver's add. The code goes through the members in their order, or
\* through the sorted public names, which decides which error is reported.
Adds(e) ==
  /\ fieldStatus = "building" /\ e \in pending
  /\ e.field # Unmapped /\ Fold(e.name) \notin DOMAIN fields
  /\ fields' = [key \in DOMAIN fields \cup {Fold(e.name)} |->
                  IF key = Fold(e.name) THEN e.field ELSE fields[key]]
  /\ pending' = pending \ {e}
  /\ UNCHANGED <<model, fieldStatus>>

Refuses(e) ==
  /\ fieldStatus = "building" /\ e \in pending
  /\ e.field = Unmapped \/ Fold(e.name) \in DOMAIN fields
  /\ fieldStatus' = "refused"
  /\ UNCHANGED <<model, pending, fields>>

Completes ==
  /\ fieldStatus = "building" /\ pending = {}
  /\ fieldStatus' = "serving"
  /\ UNCHANGED <<model, pending, fields>>

FieldsNext == Completes \/ \E e \in pending : Adds(e) \/ Refuses(e)

FieldsSpec == FieldsInit /\ [][FieldsNext]_fieldVars

\* r.fields[foldQueryFieldName(name)]
Known(name) == Fold(name) \in DOMAIN fields
Resolved(name) == fields[Fold(name)]

----
(* What a Go path means, read off the entity's struct types alone.         *)

\* Go's selector expressions: each name is a field of the struct before it.
Selectors(types, t, path) ==
  {s \in [DOMAIN path -> UNION {types[u].visible : u \in DOMAIN types}] :
     \A i \in DOMAIN path : /\ s[i].name = path[i]
                            /\ s[i] \in types[IF i = 1 THEN t ELSE s[i - 1].type].visible}

\* Where in the memory of the entity the selected value lies.
Place(selector) == FlattenSeq([i \in DOMAIN selector |-> selector[i].index])

\* The columns that are stored from that place and can be compared.
SelectedColumns(types, t, path) ==
  LET places == {Place(s) : s \in {r \in Selectors(types, t, path) : \A i \in DOMAIN r : r[i].exported}}
  IN {c \in {types[t].columns[x] : x \in DOMAIN types[t].columns \cap places} : c.scalar /\ c.plain}

\* The field that a selector of this one name selects is the association itself.
SelectsAssociation(types, t, name) ==
  /\ name \in DOMAIN types[t].relations
  /\ \E s \in Selectors(types, t, <<name>>) : Place(s) = types[t].relations[name].index

\* The columns that a path stands for: those of the entity, or those of the one
\* entity that a to-one association leads to.
Denoted(types, t, path) ==
  IF path # <<>> /\ SelectsAssociation(types, t, Head(path))
  THEN LET relation == types[t].relations[Head(path)] IN
       {[relation |-> Head(path), column |-> c.name] :
          c \in {d \in SelectedColumns(types, relation.related, Tail(path)) :
                   relation.toOne /\ relation.plain /\ types[t].keyed /\ types[relation.related].keyed}}
  ELSE {[relation |-> Base, column |-> c.name] : c \in {d \in SelectedColumns(types, t, path) : types[t].plain}}

(* A served mapping leads every public name to the one column that its Go  *)
(* path selects, whatever embeds, promotes or shadows it; a mapping is     *)
(* refused only if a path selects none, or two names are equal up to case. *)
(* (doc.go:64, 72-79)                                                      *)
PathsSelectColumns ==
  model.configured # Nil =>
    LET denoted(public) == Denoted(model.types, model.entity, model.configured[public]) IN
    /\ fieldStatus = "serving" => \A p \in DOMAIN model.configured : Known(p) /\ denoted(p) = {Resolved(p)}
    /\ fieldStatus = "refused" => \E p, q \in DOMAIN model.configured :
                                    denoted(p) = {} \/ (p # q /\ EqualFold(p, q))

\* Every declared field leads to a column, and no two names are equal up to case.
Declarable ==
  \A d \in Declared : d.field # Unmapped /\ \A e \in Declared : EqualFold(d.name, e.name) => d = e

(* A resource is served exactly when its declared public names are valid   *)
(* and pairwise different under Unicode case folding; then every name in   *)
(* any spelling leads to the field that declares it, and no other name     *)
(* leads anywhere.  (doc.go:72-74, query_fields.go:159-160)                *)
FieldsAsDeclared ==
  /\ fieldStatus = "serving" => Declarable
  /\ fieldStatus = "refused" => ~Declarable
  /\ fieldStatus = "serving" => \A name \in Asked :
       /\ Known(name) <=> \E e \in Declared : EqualFold(e.name, name)
       /\ \A e \in Declared : EqualFold(e.name, name) => Resolved(name) = e.field
====
