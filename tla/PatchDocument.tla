---- MODULE PatchDocument ----
(***************************************************************************)
(* The default PATCH operation of resource.go without its SQL: a JSON      *)
(* Merge Patch document is merged into the complete update input built     *)
(* from the looked-up entity (patch.go), the update mapper applies the     *)
(* merged input, explicit clears of associations are restored, and the     *)
(* associations that the document selects are written.                     *)
(*                                                                         *)
(* JSON nests once: a document holds scalars, arrays of identifiers and    *)
(* objects of scalars.  Association paths are direct ones.                 *)
(***************************************************************************)
EXTENDS Naturals, FiniteSets

CONSTANTS Fields,      \* fields of the update input, and of the entity
          Kind,          \* Kind[f]: the Go kind of f, one of Kinds
          Keys,          \* keys of the map and struct fields
          Hidden,        \* keys of the struct fields that are tagged json:"-"
          Scalars, Zero, \* scalar values, and the zero value among them
          Ids,           \* identifiers of related entities
          Nil,           \* a nil pointer, map or slice
          Relations,     \* relations with sync:update
          Target,        \* Target[f]: the relation that list or ref field f sets
          Derived,       \* Derived[r]: the field whose JSON path SQLH derives for r
          Overrides,     \* the PatchAssociations to consider: paths to relations
          Triggers,      \* PatchAssociationTriggers: paths to relations
          Seeds,         \* the entities at the start
          Documents      \* the request bodies to consider

Kinds == {"scalar", "pointer", "map", "struct", "list", "ref", "excluded", "promoted"}

ASSUME LayoutAssumption ==
  /\ Kind \in [Fields -> Kinds]
  /\ Hidden \subseteq Keys /\ Zero \in Scalars
  /\ Nil \notin Scalars /\ Nil \notin Ids /\ Nil \notin [Keys -> Scalars]
ASSUME AssociationAssumption ==
  /\ Target \in [{f \in Fields : Kind[f] \in {"list", "ref"}} -> Relations]
  /\ Derived \in [Relations -> DOMAIN Target]
  /\ \A r \in Relations : Target[Derived[r]] = r
  /\ \A f, g \in DOMAIN Target :  \* a relation has one foreign key
       Kind[f] = "ref" /\ Kind[g] = "ref" /\ Target[f] = Target[g] => f = g
ASSUME ConfigurationAssumption ==
  /\ \A o \in Overrides : DOMAIN o \subseteq DOMAIN Target /\ \A p \in DOMAIN o : o[p] \in Relations
  /\ \A p \in DOMAIN Triggers : Triggers[p] \in Relations

\* list: a slice of identifiers.  ref: a belongs-to association, with its foreign
\* key.  excluded: tagged json:"-", the identity and the force filters.
\* promoted: a scalar of an embedded struct whose type is not exported.
Values(kind) ==
  IF kind = "map" THEN (UNION {[s -> Scalars] : s \in SUBSET Keys}) \cup {Nil}
  ELSE IF kind = "struct" THEN [Keys -> Scalars]
  ELSE IF kind = "list" THEN (SUBSET Ids) \cup {Nil}
  ELSE IF kind = "ref" THEN Ids \cup {Nil}
  ELSE IF kind = "pointer" THEN Scalars \cup {Nil}
  ELSE Scalars

ZeroOf(kind) == IF kind \in {"map", "list", "ref", "pointer"} THEN Nil
                ELSE IF kind = "struct" THEN [k \in Keys |-> Zero]
                ELSE Zero

JsonFields == {f \in Fields : Kind[f] # "excluded"}
FieldsOf(kind) == {f \in Fields : Kind[f] = kind}

----
(* JSON.                                                                   *)
Null == [type |-> "null"]
Scalar(v) == [type |-> "scalar", value |-> v]
Array(s) == [type |-> "array", items |-> s]
Object(m) == [type |-> "object", members |-> m]
NoMembers == [k \in {} |-> Null]

Leaves == {Null} \cup {Scalar(v) : v \in Scalars}
ASSUME DocumentAssumption ==
  \A d \in Documents : \A f \in DOMAIN d :
    \/ d[f] = Null
    \/ \E v \in Scalars \cup Ids : d[f] = Scalar(v)
    \/ \E s \in SUBSET Ids : d[f] = Array(s)
    \/ \E s \in SUBSET Keys : \E m \in [s -> Leaves] : d[f] = Object(m)

Marshal(kind, v) ==
  IF v = Nil THEN Null
  ELSE IF kind = "map" THEN Object([k \in DOMAIN v |-> Scalar(v[k])])
  ELSE IF kind = "struct" THEN Object([k \in Keys \ Hidden |-> Scalar(v[k])])
  ELSE IF kind = "list" THEN Array(v)
  ELSE Scalar(v)

\* RFC 7396 over one level of members, then over two (the jsonpatch library).
Remaining(old, patch) ==
  {k \in DOMAIN old \cup DOMAIN patch : k \in DOMAIN patch => patch[k] # Null}

MergeValue(old, patch) ==
  IF patch.type # "object" THEN patch
  ELSE LET members == IF old.type = "object" THEN old.members ELSE NoMembers
       IN Object([k \in Remaining(members, patch.members) |->
                    IF k \in DOMAIN patch.members THEN patch.members[k] ELSE members[k]])

MergePatch(old, patch) ==
  [f \in Remaining(old, patch) |->
     IF f \notin DOMAIN patch THEN old[f]
     ELSE MergeValue(IF f \in DOMAIN old THEN old[f] ELSE Null, patch[f])]

\* json.Unmarshal accepts null for every kind.
Decodable(kind, json) ==
  \/ json = Null
  \/ kind \in {"map", "struct"} /\ json.type = "object"
  \/ kind = "list" /\ json.type = "array"
  \/ kind = "ref" /\ json.type = "scalar" /\ json.value \in Ids
  \/ kind \notin {"map", "struct", "list", "ref"} /\ json.type = "scalar" /\ json.value \in Scalars

\* It leaves what is absent or null as it finds it, nil-able values excepted.
Unmarshal(kind, target, json) ==
  LET entries == IF target = Nil THEN {} ELSE DOMAIN target IN
  IF json = Null THEN IF Nil \in Values(kind) THEN Nil ELSE target
  ELSE IF kind = "map" THEN
    [k \in entries \cup DOMAIN json.members |->
       IF k \in DOMAIN json.members THEN json.members[k].value ELSE target[k]]
  ELSE IF kind = "struct" THEN
    [k \in Keys |-> IF k \in DOMAIN json.members \ Hidden
                    THEN json.members[k].value ELSE target[k]]
  ELSE IF kind = "list" THEN json.items
  ELSE json.value

----
(* MergeInto.                                                              *)
Marshalled(input) == [f \in JsonFields |-> Marshal(Kind[f], input[f])]

\* Mutants: the target is not reset; the excluded fields are reset as well; what
\* is not a struct is reset to nil, whatever its kind.
NoReset(input) == input
ResetAll(input) == [f \in Fields |-> ZeroOf(Kind[f])]
ResetToNil(input) ==
  [f \in Fields |-> CASE Kind[f] = "excluded" -> input[f]
                     [] Kind[f] = "struct" -> ZeroOf(Kind[f])
                     [] OTHER -> Nil]

\* resetPatchInput leaves alone what is tagged json:"-", and whatever has a
\* PkgPath: an embedded struct of an unexported type is not entered.
ResetPatchInput(input) ==
  [f \in Fields |-> IF Kind[f] \in {"excluded", "promoted"} THEN input[f] ELSE ZeroOf(Kind[f])]

MergesInto(input, d) ==
  LET merged == MergePatch(Marshalled(input), d) IN
  \A f \in JsonFields \cap DOMAIN merged : Decodable(Kind[f], merged[f])

\* Mutant: the document is decoded as it is, without what it omits.
DecodesDocument(input, d) ==
  LET reset == ResetPatchInput(input) IN
  [f \in Fields |-> IF f \in JsonFields \cap DOMAIN d
                    THEN Unmarshal(Kind[f], reset[f], MergeValue(Null, d[f])) ELSE reset[f]]

MergeInto(input, d) ==
  LET merged == MergePatch(Marshalled(input), d)
      reset == ResetPatchInput(input)
  IN [f \in Fields |-> IF f \in JsonFields \cap DOMAIN merged
                       THEN Unmarshal(Kind[f], reset[f], merged[f]) ELSE reset[f]]

----
(* Association paths.                                                      *)
Paths == DOMAIN Target \* the direct association paths: fields of the input

\* buildPatchAssociationFields: the overrides, then the derived path of every
\* relation that has none.  Two relations on one path are refused.
Underived(overrides) == {r \in Relations : \A p \in DOMAIN overrides : overrides[p] # r}
Buildable(overrides) ==
  \A r \in Underived(overrides) :
    /\ Derived[r] \notin DOMAIN overrides
    /\ \A s \in Underived(overrides) : Derived[r] = Derived[s] => r = s
AssociationFields(overrides) ==
  [p \in DOMAIN overrides \cup {Derived[r] : r \in Underived(overrides)} |->
     IF p \in DOMAIN overrides THEN overrides[p] ELSE Target[p]]

Chosen(d, paths) == {paths[p] : p \in DOMAIN paths \cap DOMAIN d}

----
VARIABLES fields,   \* the association fields of the handler
          stored,   \* the row and its associations, as committed
          step,     \* what the request does next, "ready" for a new request
          doc,      \* the request's document
          entity,   \* the entity in the request's hands
          input     \* its complete update input

vars == <<fields, stored, step, doc, entity, input>>

Columns == {f \in Fields : Kind[f] # "list"}
IsInput(i) == DOMAIN i = Fields /\ \A f \in Fields : i[f] \in Values(Kind[f])
IsEntity(e) == /\ DOMAIN e.columns = Columns /\ \A f \in Columns : e.columns[f] \in Values(Kind[f])
               /\ e.rels \in [Relations -> SUBSET Ids]

\* PatchInputFromEntity, which must return every writable value.
FromEntity(e) ==
  [f \in Fields |-> IF Kind[f] = "list" THEN e.rels[Target[f]] ELSE e.columns[f]]

\* A belongs-to association and its foreign key agree.
KeyOf(ids) == IF ids = {} THEN Nil ELSE CHOOSE i \in ids : TRUE
Consistent(e) ==
  \A f \in FieldsOf("ref") :
    e.rels[Target[f]] = IF e.columns[f] = Nil THEN {} ELSE {e.columns[f]}
ASSUME SeedAssumption == \A e \in Seeds : IsEntity(e) /\ Consistent(e)

\* What the update mapper may make of relation r.  It takes what is new in the
\* input; a nil or empty value it cannot tell from an omitted one.  A relation
\* with a trigger is derived from other fields.
Named(i, r) == {IF Kind[f] = "list" THEN (IF i[f] = Nil THEN {} ELSE i[f])
                ELSE (IF i[f] = Nil THEN {} ELSE {i[f]}) : f \in {g \in Paths : Target[g] = r}}
MappedTo(e, i, r) ==
  LET new == Named(i, r) \ {{}, e.rels[r]} IN
  IF r \in {Triggers[p] : p \in DOMAIN Triggers} THEN SUBSET Ids
  ELSE IF new # {} THEN new
  ELSE {e.rels[r]} \cup Named(i, r)

Init ==
  /\ fields \in {AssociationFields(o) : o \in {v \in Overrides : Buildable(v)}}
  /\ stored \in Seeds
  /\ step = "ready"
  /\ doc = NoMembers
  /\ entity = stored /\ input = FromEntity(stored)

\* The scoped lookup, under the row's lock.  An empty document changes nothing;
\* its answer is the entity.
Receive(d) ==
  /\ step = "ready" /\ DOMAIN d # {}
  /\ doc' = d
  /\ entity' = stored /\ input' = FromEntity(stored)
  /\ step' = "merge"
  /\ UNCHANGED <<fields, stored>>

Merge ==
  /\ step = "merge" /\ MergesInto(input, doc)
  /\ input' = MergeInto(input, doc)
  /\ step' = "map"
  /\ UNCHANGED <<fields, stored, doc, entity>>

\* What the request held is gone with it.
Forgets == doc' = NoMembers /\ entity' = stored' /\ input' = FromEntity(stored')

\* The operation ends with an error, and its transaction is rolled back.
MergeFails ==
  /\ step = "merge" /\ ~MergesInto(input, doc)
  /\ UNCHANGED <<fields, stored>>
  /\ step' = "ready" /\ Forgets

Map ==
  /\ step = "map"
  /\ \E rels \in [Relations -> SUBSET Ids] :
       /\ \A r \in Relations : rels[r] \in MappedTo(entity, input, r)
       /\ entity' = [columns |-> [f \in Columns |-> IF Kind[f] = "ref" THEN KeyOf(rels[Target[f]])
                                                    ELSE input[f]],
                     rels |-> rels]
  /\ step' = "normalize"
  /\ UNCHANGED <<fields, stored, doc, input>>

\* Mutants: selection from the merged input, which names everything; triggers
\* are not consulted.
SelectsMerged(d) == {fields[p] : p \in DOMAIN fields}
SelectsDirect(d) == Chosen(d, fields)

Selected(d) == Chosen(d, fields) \cup Chosen(d, Triggers)

\* Mutants: only null, or only the association itself, is cleared.
ClearsOnNull(d, p) == p \in DOMAIN d /\ d[p] = Null
KeepsForeignKey(d, p) == FALSE

Clears(d, p) == p \in DOMAIN d /\ d[p] \in {Null, Array({})}
ClearsKey(d, p) == p \in DOMAIN d /\ d[p] = Null

\* normalizePatchAssociationNulls: for each selected relation one path that leads
\* to it is looked up, in the order in which Go iterates over a map: any.
Normalize ==
  /\ step = "normalize"
  /\ \E path \in [Selected(doc) -> DOMAIN fields] :
       /\ \A r \in Selected(doc) : fields[path[r]] = r
       /\ entity' =
            [columns |-> [f \in Columns |->
                            IF /\ Kind[f] = "ref" /\ Target[f] \in Selected(doc)
                               /\ ClearsKey(doc, path[Target[f]])
                            THEN Nil ELSE entity.columns[f]],
             rels |-> [r \in Relations |-> IF r \in Selected(doc) /\ Clears(doc, path[r])
                                           THEN {} ELSE entity.rels[r]]]
  /\ step' = "write"
  /\ UNCHANGED <<fields, stored, doc, input>>

\* repository.Update writes the columns and the selected relations; a belongs-to
\* association is its foreign key.
Write ==
  /\ step = "write"
  /\ stored' =
       [columns |-> entity.columns,
        rels |-> [r \in Relations |->
                    IF \E f \in FieldsOf("ref") : Target[f] = r
                    THEN UNION {IF entity.columns[f] = Nil THEN {} ELSE {entity.columns[f]} :
                                  f \in {g \in FieldsOf("ref") : Target[g] = r}}
                    ELSE IF r \in Selected(doc) THEN entity.rels[r] ELSE stored.rels[r]]]
  /\ step' = "ready" /\ Forgets
  /\ UNCHANGED fields

Next == \/ \E d \in Documents : Receive(d)
        \/ Merge \/ MergeFails \/ Map \/ Normalize \/ Write

Spec == Init /\ [][Next]_vars

----
TypeOK ==
  /\ DOMAIN fields \subseteq Paths /\ \A p \in DOMAIN fields : fields[p] \in Relations
  /\ IsEntity(stored) /\ Consistent(stored)
  /\ step \in {"ready", "merge", "map", "normalize", "write"}
  /\ IsEntity(entity) /\ IsInput(input)

Merges == step = "merge" /\ step' = "map"
Writes == step = "write" /\ step' = "ready"

\* The members of a struct or map field, those tagged json:"-" excepted.
Members(v) == IF v = Nil THEN {} ELSE DOMAIN v \ Hidden

\* handlers_crud.go:121-122, "Fields omitted from the request retain their
\* current values": also the members that a nested object omits, although the
\* target is reset and decoded again as a whole.
OmittedFieldsKept ==
  [][Merges =>
       /\ \A f \in Fields \ DOMAIN doc : Kind[f] # "struct" => input'[f] = input[f]
       /\ \A f \in Fields \ DOMAIN doc :
            Kind[f] = "struct" => \A k \in Members(input[f]) : input'[f][k] = input[f][k]
       /\ \A f \in FieldsOf("struct") \cup FieldsOf("map") :
            f \in DOMAIN doc /\ doc[f].type = "object"
              => \A k \in Members(input[f]) \ DOMAIN doc[f].members :
                   k \in DOMAIN input'[f] /\ input'[f][k] = input[f][k]]_vars

\* doc.go:125, "A null removes a map entry or resets a scalar field to its zero
\* value": decoding alone would leave the old value, the document has no member
\* any more.
NullResets ==
  [][Merges =>
       /\ \A f \in JsonFields \cap DOMAIN doc :
            doc[f] = Null /\ Kind[f] # "struct" => input'[f] = ZeroOf(Kind[f])
       /\ \A f \in FieldsOf("map") \cap DOMAIN doc :
            doc[f].type = "object" =>
              \A k \in DOMAIN doc[f].members :
                doc[f].members[k] = Null => k \notin DOMAIN input'[f]
       /\ \A f \in FieldsOf("struct") \cap DOMAIN doc :
            doc[f].type = "object" =>
              \A k \in DOMAIN doc[f].members \ Hidden :
                doc[f].members[k] = Null => input'[f][k] = Zero]_vars

\* patch.go:147-149, "Preserve fields excluded from JSON, such as request identity
\* and force filters": whatever the document names.
ExcludedFieldsKept ==
  [][Merges =>
       /\ \A f \in FieldsOf("excluded") : input'[f] = input[f]
       /\ \A f \in FieldsOf("struct") : \A k \in Hidden : input'[f][k] = input[f][k]]_vars

\* doc.go:125-128: null and an empty array clear the association that they name,
\* null its foreign key too, whatever the mapper made of the merged input.
ClearsAssociations ==
  [][Writes =>
       \A p \in DOMAIN fields \cap DOMAIN doc :
         /\ doc[p] \in {Null, Array({})}
         /\ \A q \in DOMAIN fields \cap DOMAIN doc : fields[q] = fields[p] => q = p
         => stored'.rels[fields[p]] = {}]_vars

\* doc.go:131-133 and 143-146: an association is written if the document names it
\* or one of its triggers, and then it is what the mapper made of it; otherwise
\* it stays as it is in the database, although the merged input holds it.
OnlySelectedWritten ==
  [][Writes =>
       \A r \in Relations :
         /\ r \notin Chosen(doc, fields) \cup Chosen(doc, Triggers)
              => stored'.rels[r] = stored.rels[r]
         /\ r \in Chosen(doc, Triggers) => stored'.rels[r] = entity.rels[r]]_vars

====
