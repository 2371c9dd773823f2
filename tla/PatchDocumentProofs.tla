---- MODULE PatchDocumentProofs ----
(***************************************************************************)
(* PatchDocument for any update input, entities and documents: a merge     *)
(* keeps what the document omits, resets what it nulls and does not touch  *)
(* what is excluded from JSON, whatever the sequence of requests.          *)
(*                                                                         *)
(* The proofs follow one value through MergeInto: it is marshalled,        *)
(* merged, and decoded into a field that was reset.                        *)
(***************************************************************************)
EXTENDS PatchDocument, TLAPS

\* Values and decoded values of each kind.
LEMMA KindValues ==
  /\ Values("map") = (UNION {[s -> Scalars] : s \in SUBSET Keys}) \cup {Nil}
  /\ Values("struct") = [Keys -> Scalars]
  /\ Values("list") = (SUBSET Ids) \cup {Nil}
  /\ Values("ref") = Ids \cup {Nil}
  /\ Values("pointer") = Scalars \cup {Nil}
  /\ Values("scalar") = Scalars /\ Values("excluded") = Scalars /\ Values("promoted") = Scalars
BY DEF Values

LEMMA ZeroTyped ==
  ASSUME NEW kind \in Kinds
  PROVE  ZeroOf(kind) \in Values(kind)
BY KindValues, LayoutAssumption DEF ZeroOf, Kinds

\* JSON whose parts have the types that a field can be decoded from.
Plain(j) ==
  /\ j.type = "object" => /\ DOMAIN j.members \subseteq Keys
                          /\ \A k \in DOMAIN j.members : j.members[k].value \in Scalars
  /\ j.type = "array" => j.items \in SUBSET Ids

LEMMA MarshalPlain ==
  ASSUME NEW kind \in Kinds, NEW v \in Values(kind)
  PROVE  Plain(Marshal(kind, v))
<1>1. CASE v = Nil
  BY <1>1 DEF Marshal, Null, Plain
<1>2. CASE v # Nil /\ kind = "map"
  <2>1. PICK s \in SUBSET Keys : v \in [s -> Scalars]
    BY <1>2, KindValues
  <2> QED
    BY <1>2, <2>1 DEF Marshal, Plain, Object, Scalar
<1>3. CASE v # Nil /\ kind = "struct"
  BY <1>3, KindValues DEF Marshal, Plain, Object, Scalar
<1>4. CASE v # Nil /\ kind = "list"
  BY <1>4, KindValues DEF Marshal, Plain, Array
<1>5. CASE v # Nil /\ kind \notin {"map", "struct", "list"}
  BY <1>5 DEF Marshal, Plain, Scalar
<1> QED
  BY <1>1, <1>2, <1>3, <1>4, <1>5

\* A value of a request body.
Offers(j) ==
  \/ j = Null
  \/ \E v \in Scalars \cup Ids : j = Scalar(v)
  \/ \E s \in SUBSET Ids : j = Array(s)
  \/ \E s \in SUBSET Keys : \E m \in [s -> Leaves] : j = Object(m)

LEMMA MergeValuePlain ==
  ASSUME NEW old, Plain(old), NEW j, Offers(j)
  PROVE  Plain(MergeValue(old, j))
<1>1. CASE j.type # "object"
  BY <1>1 DEF MergeValue, Plain, Offers, Null, Scalar, Array, Object
<1>2. CASE j.type = "object"
  <2>0. PICK s \in SUBSET Keys : \E m \in [s -> Leaves] : j = Object(m)
    BY <1>2 DEF Offers, Null, Scalar, Array
  <2>1. PICK m \in [s -> Leaves] : j = Object(m)
    BY <2>0
  <2> DEFINE members == IF old.type = "object" THEN old.members ELSE NoMembers
             keys == Remaining(members, m)
             result == [k \in keys |-> IF k \in DOMAIN m THEN m[k] ELSE members[k]]
  <2>2. j.members = m
    BY <2>1 DEF Object
  <2>3. MergeValue(old, j) = Object(result)
    BY <1>2, <2>2 DEF MergeValue
  <2>4. DOMAIN members \subseteq Keys /\ \A k \in DOMAIN members : members[k].value \in Scalars
    BY DEF Plain, NoMembers
  <2>5. keys \subseteq Keys
    BY <2>1, <2>4 DEF Remaining
  <2>6. ASSUME NEW k \in keys PROVE result[k].value \in Scalars
    <3>1. CASE k \in DOMAIN m
      <4>1. m[k] \in Leaves /\ m[k] # Null
        BY <3>1, <2>1 DEF Remaining
      <4>2. PICK v \in Scalars : m[k] = Scalar(v)
        BY <4>1 DEF Leaves
      <4> QED
        BY <3>1, <4>2 DEF Scalar
    <3>2. CASE k \notin DOMAIN m
      BY <3>2, <2>4 DEF Remaining
    <3> QED
      BY <3>1, <3>2
  <2> HIDE DEF keys
  <2>7. DOMAIN result = keys
    OBVIOUS
  <2> HIDE DEF result
  <2> QED
    BY <2>3, <2>5, <2>6, <2>7 DEF Plain, Object
<1> QED
  BY <1>1, <1>2

LEMMA UnmarshalTyped ==
  ASSUME NEW kind \in Kinds, NEW target \in Values(kind), NEW json,
         Plain(json), Decodable(kind, json)
  PROVE  Unmarshal(kind, target, json) \in Values(kind)
<1>1. CASE json = Null
  BY <1>1 DEF Unmarshal
<1>2. CASE json # Null /\ kind = "map"
  <2> DEFINE entries == IF target = Nil THEN {} ELSE DOMAIN target
             domain == entries \cup DOMAIN json.members
             result == [k \in domain |-> IF k \in DOMAIN json.members
                                         THEN json.members[k].value ELSE target[k]]
  <2>1. json.type = "object"
    BY <1>2 DEF Decodable, Null
  <2>2. entries \subseteq Keys /\ \A k \in entries : target[k] \in Scalars
    BY <1>2, KindValues
  <2>3. result \in [domain -> Scalars] /\ domain \in SUBSET Keys
    BY <2>1, <2>2 DEF Plain
  <2>4. Unmarshal(kind, target, json) = result
    BY <1>2 DEF Unmarshal
  <2> HIDE DEF domain, result
  <2> QED
    BY <1>2, <2>3, <2>4, KindValues
<1>3. CASE json # Null /\ kind = "struct"
  <2>1. json.type = "object"
    BY <1>3 DEF Decodable, Null
  <2>2. target \in [Keys -> Scalars]
    BY <1>3, KindValues
  <2> QED
    BY <1>3, <2>1, <2>2, KindValues DEF Unmarshal, Plain
<1>4. CASE json # Null /\ kind = "list"
  BY <1>4, KindValues DEF Unmarshal, Plain, Decodable
<1>5. CASE json # Null /\ kind \notin {"map", "struct", "list"}
  BY <1>5, KindValues DEF Unmarshal, Decodable, Kinds
<1> QED
  BY <1>1, <1>2, <1>3, <1>4, <1>5

----
(* MergeInto, field by field.                                              *)

\* What the merged document holds of f, if f remains in it.
MergedField(i, d, f) ==
  IF f \in DOMAIN d THEN MergeValue(Marshal(Kind[f], i[f]), d[f]) ELSE Marshal(Kind[f], i[f])

LEMMA MergedFields ==
  ASSUME NEW i, NEW d, NEW f \in JsonFields
  PROVE  LET merged == MergePatch(Marshalled(i), d) IN
         /\ f \in DOMAIN merged <=> (f \in DOMAIN d => d[f] # Null)
         /\ f \in DOMAIN merged => merged[f] = MergedField(i, d, f)
<1> DEFINE old == Marshalled(i)
<1>1. DOMAIN old = JsonFields /\ old[f] = Marshal(Kind[f], i[f])
  BY DEF Marshalled
<1>2. f \in Remaining(old, d) <=> (f \in DOMAIN d => d[f] # Null)
  BY <1>1 DEF Remaining
<1> HIDE DEF old
<1>3. DOMAIN MergePatch(old, d) = Remaining(old, d)
  BY DEF MergePatch
<1>4. f \in Remaining(old, d) => MergePatch(old, d)[f] = MergedField(i, d, f)
  BY <1>1 DEF MergePatch, MergedField
<1> QED
  BY <1>2, <1>3, <1>4 DEF old

LEMMA MergeIntoField ==
  ASSUME NEW i, NEW d, NEW f \in Fields
  PROVE  LET reset == ResetPatchInput(i) IN
         /\ DOMAIN MergeInto(i, d) = Fields
         /\ reset[f] = IF Kind[f] \in {"excluded", "promoted"} THEN i[f] ELSE ZeroOf(Kind[f])
         /\ MergeInto(i, d)[f] =
              IF Kind[f] # "excluded" /\ (f \in DOMAIN d => d[f] # Null)
              THEN Unmarshal(Kind[f], reset[f], MergedField(i, d, f)) ELSE reset[f]
<1> DEFINE merged == MergePatch(Marshalled(i), d)
           reset == ResetPatchInput(i)
<1>1. reset[f] = IF Kind[f] \in {"excluded", "promoted"} THEN i[f] ELSE ZeroOf(Kind[f])
  BY DEF ResetPatchInput
<1>2. MergeInto(i, d) = [g \in Fields |-> IF g \in JsonFields \cap DOMAIN merged
                                          THEN Unmarshal(Kind[g], reset[g], merged[g]) ELSE reset[g]]
  BY DEF MergeInto
<1>3. f \in JsonFields <=> Kind[f] # "excluded"
  BY DEF JsonFields
<1>4. f \in JsonFields =>
        /\ f \in DOMAIN merged <=> (f \in DOMAIN d => d[f] # Null)
        /\ f \in DOMAIN merged => merged[f] = MergedField(i, d, f)
  BY MergedFields
<1> HIDE DEF merged, reset
<1>5. /\ DOMAIN MergeInto(i, d) = Fields
      /\ MergeInto(i, d)[f] = IF f \in JsonFields \cap DOMAIN merged
                              THEN Unmarshal(Kind[f], reset[f], merged[f]) ELSE reset[f]
  BY <1>2
<1>6. MergeInto(i, d)[f] =
        IF Kind[f] # "excluded" /\ (f \in DOMAIN d => d[f] # Null)
        THEN Unmarshal(Kind[f], reset[f], MergedField(i, d, f)) ELSE reset[f]
  BY <1>3, <1>4, <1>5
<1> QED
  BY <1>1, <1>5, <1>6 DEF reset

LEMMA MergeIntoTyped ==
  ASSUME NEW i, IsInput(i), NEW d \in Documents, MergesInto(i, d)
  PROVE  IsInput(MergeInto(i, d))
<1>1. DOMAIN MergeInto(i, d) = Fields
  BY DEF MergeInto
<1>2. ASSUME NEW f \in Fields PROVE MergeInto(i, d)[f] \in Values(Kind[f])
  <2> DEFINE reset == ResetPatchInput(i)
             merged == MergePatch(Marshalled(i), d)
  <2>1. Kind[f] \in Kinds /\ i[f] \in Values(Kind[f])
    BY LayoutAssumption DEF IsInput
  <2>2. reset[f] \in Values(Kind[f])
    BY <2>1, MergeIntoField, ZeroTyped
  <2>3. CASE Kind[f] # "excluded" /\ (f \in DOMAIN d => d[f] # Null)
    <3>1. f \in JsonFields
      BY <2>3 DEF JsonFields
    <3>2. f \in DOMAIN merged /\ merged[f] = MergedField(i, d, f)
      BY <2>3, <3>1, MergedFields
    <3>3. Decodable(Kind[f], MergedField(i, d, f))
      BY <3>1, <3>2 DEF MergesInto
    <3>4. Plain(Marshal(Kind[f], i[f]))
      BY <2>1, MarshalPlain
    <3>5. f \in DOMAIN d => Offers(d[f])
      BY DocumentAssumption DEF Offers
    <3>6. Plain(MergedField(i, d, f))
      BY <3>4, <3>5, MergeValuePlain DEF MergedField
    <3> QED
      BY <2>1, <2>2, <2>3, <3>3, <3>6, UnmarshalTyped, MergeIntoField
  <2>4. CASE ~(Kind[f] # "excluded" /\ (f \in DOMAIN d => d[f] # Null))
    BY <2>2, <2>4, MergeIntoField
  <2> QED
    BY <2>3, <2>4
<1> QED
  BY <1>1, <1>2 DEF IsInput

----
(* Types.                                                                  *)
IInv == TypeOK /\ (step # "ready" => doc \in Documents)

LEMMA FromEntityTyped ==
  ASSUME NEW e, IsEntity(e)
  PROVE  IsInput(FromEntity(e))
<1>1. DOMAIN FromEntity(e) = Fields
  BY DEF FromEntity
<1>2. ASSUME NEW f \in Fields PROVE FromEntity(e)[f] \in Values(Kind[f])
  <2>1. CASE Kind[f] = "list"
    <3>1. Target[f] \in Relations
      BY <2>1, AssociationAssumption
    <3>2. e.rels[Target[f]] \in SUBSET Ids
      BY <3>1 DEF IsEntity
    <3> QED
      BY <2>1, <3>2, KindValues DEF FromEntity
  <2>2. CASE Kind[f] # "list"
    BY <2>2 DEF FromEntity, IsEntity, Columns
  <2> QED
    BY <2>1, <2>2
<1> QED
  BY <1>1, <1>2 DEF IsInput

LEMMA AssociationFieldsTyped ==
  ASSUME NEW o \in Overrides
  PROVE  /\ DOMAIN AssociationFields(o) \subseteq Paths
         /\ \A p \in DOMAIN AssociationFields(o) : AssociationFields(o)[p] \in Relations
<1> DEFINE paths == DOMAIN o \cup {Derived[r] : r \in Underived(o)}
<1>1. paths \subseteq DOMAIN Target
  BY ConfigurationAssumption, AssociationAssumption DEF Underived
<1>2. AssociationFields(o) = [p \in paths |-> IF p \in DOMAIN o THEN o[p] ELSE Target[p]]
  BY DEF AssociationFields
<1>3. \A p \in DOMAIN Target : Target[p] \in Relations
  BY AssociationAssumption
<1> HIDE DEF paths
<1> QED
  BY <1>1, <1>2, <1>3, ConfigurationAssumption DEF Paths

LEMMA InitTyped == Init => IInv
<1> SUFFICES ASSUME Init PROVE IInv
  OBVIOUS
<1>1. PICK o \in Overrides : fields = AssociationFields(o)
  BY DEF Init
<1>2. IsEntity(stored) /\ Consistent(stored)
  BY SeedAssumption DEF Init
<1>3. IsInput(FromEntity(stored))
  BY <1>2, FromEntityTyped
<1> QED
  BY <1>1, <1>2, <1>3, AssociationFieldsTyped DEF Init, IInv, TypeOK

\* A mapped belongs-to association is one that its foreign key can hold.
LEMMA KeyTyped ==
  ASSUME NEW ids \in SUBSET Ids
  PROVE  KeyOf(ids) \in Ids \cup {Nil}
BY DEF KeyOf

LEMMA MapTyped ==
  ASSUME TypeOK, Map
  PROVE  IsEntity(entity')
<1>1. PICK rels \in [Relations -> SUBSET Ids] :
        entity' = [columns |-> [f \in Columns |-> IF Kind[f] = "ref" THEN KeyOf(rels[Target[f]])
                                                  ELSE input[f]],
                   rels |-> rels]
  BY DEF Map
<1>2. ASSUME NEW f \in Columns PROVE entity'.columns[f] \in Values(Kind[f])
  <2>1. CASE Kind[f] = "ref"
    <3>1. Target[f] \in Relations
      BY <2>1, AssociationAssumption DEF Columns
    <3> QED
      BY <1>1, <2>1, <3>1, KeyTyped, KindValues
  <2>2. CASE Kind[f] # "ref"
    BY <1>1, <2>2 DEF TypeOK, IsInput, Columns
  <2> QED
    BY <2>1, <2>2
<1> QED
  BY <1>1, <1>2 DEF IsEntity

LEMMA NormalizeTyped ==
  ASSUME TypeOK, Normalize
  PROVE  IsEntity(entity')
<1>1. PICK path \in [Selected(doc) -> DOMAIN fields] :
        entity' =
          [columns |-> [f \in Columns |->
                          IF /\ Kind[f] = "ref" /\ Target[f] \in Selected(doc)
                             /\ ClearsKey(doc, path[Target[f]])
                          THEN Nil ELSE entity.columns[f]],
           rels |-> [r \in Relations |-> IF r \in Selected(doc) /\ Clears(doc, path[r])
                                         THEN {} ELSE entity.rels[r]]]
  BY DEF Normalize
<1>2. ASSUME NEW f \in Columns PROVE entity'.columns[f] \in Values(Kind[f])
  BY <1>1, KindValues DEF TypeOK, IsEntity
<1>3. entity'.rels \in [Relations -> SUBSET Ids]
  BY <1>1 DEF TypeOK, IsEntity
<1> QED
  BY <1>1, <1>2, <1>3 DEF IsEntity

LEMMA WriteTyped ==
  ASSUME TypeOK, Write
  PROVE  IsEntity(stored') /\ Consistent(stored')
<1> DEFINE key(f) == IF entity.columns[f] = Nil THEN {} ELSE {entity.columns[f]}
           refs(r) == {g \in FieldsOf("ref") : Target[g] = r}
           rels == [r \in Relations |->
                      IF \E f \in FieldsOf("ref") : Target[f] = r
                      THEN UNION {key(f) : f \in refs(r)}
                      ELSE IF r \in Selected(doc) THEN entity.rels[r] ELSE stored.rels[r]]
<1>1. stored' = [columns |-> entity.columns, rels |-> rels]
  BY DEF Write
<1>2. ASSUME NEW f \in FieldsOf("ref")
      PROVE  /\ Target[f] \in Relations /\ key(f) \in SUBSET Ids
             /\ rels[Target[f]] = key(f)
  <2>1. f \in Columns /\ f \in Paths /\ Kind[f] = "ref" /\ Target[f] \in Relations
    BY AssociationAssumption DEF FieldsOf, Columns, Paths
  <2>2. entity.columns[f] \in Ids \cup {Nil}
    BY <2>1, KindValues DEF TypeOK, IsEntity
  <2>3. refs(Target[f]) = {f}
    BY <2>1, AssociationAssumption DEF FieldsOf
  <2>4. UNION {key(g) : g \in refs(Target[f])} = key(f)
    BY <2>3
  <2> HIDE DEF key, refs
  <2>5. rels[Target[f]] = key(f)
    BY <2>1, <2>4
  <2> QED
    BY <2>1, <2>2, <2>5 DEF key
<1>3. ASSUME NEW r \in Relations PROVE rels[r] \in SUBSET Ids
  <2>1. CASE \E f \in FieldsOf("ref") : Target[f] = r
    <3>1. PICK f \in FieldsOf("ref") : Target[f] = r
      BY <2>1
    <3> HIDE DEF key, rels
    <3> QED
      BY <1>2, <3>1
  <2>2. CASE ~\E f \in FieldsOf("ref") : Target[f] = r
    BY <2>2 DEF TypeOK, IsEntity
  <2> QED
    BY <2>1, <2>2
<1>4. rels \in [Relations -> SUBSET Ids]
  BY <1>3
<1> HIDE DEF rels
<1>5. IsEntity(stored')
  BY <1>1, <1>4 DEF IsEntity, TypeOK
<1> QED
  BY <1>1, <1>2, <1>5 DEF Consistent

LEMMA StepTyped == IInv /\ [Next]_vars => IInv'
<1> SUFFICES ASSUME IInv, [Next]_vars PROVE IInv'
  OBVIOUS
<1> USE DEF IInv
<1>1. ASSUME NEW d \in Documents, Receive(d) PROVE IInv'
  BY <1>1, FromEntityTyped DEF Receive, TypeOK
<1>2. CASE Merge
  BY <1>2, MergeIntoTyped DEF Merge, TypeOK
<1>3. CASE MergeFails
  BY <1>3, FromEntityTyped DEF MergeFails, Forgets, TypeOK
<1>4. CASE Map
  BY <1>4, MapTyped DEF Map, TypeOK
<1>5. CASE Normalize
  BY <1>5, NormalizeTyped DEF Normalize, TypeOK
<1>6. CASE Write
  BY <1>6, WriteTyped, FromEntityTyped DEF Write, Forgets, TypeOK
<1>7. CASE UNCHANGED vars
  BY <1>7 DEF vars, TypeOK, IsEntity, IsInput, Consistent
<1> QED
  BY <1>1, <1>2, <1>3, <1>4, <1>5, <1>6, <1>7 DEF Next

\* The column of a belongs-to association and the association agree in the
\* database, and every value keeps the type of its field, through any requests:
\* what PatchInputFromEntity reads back is again a complete update input.
THEOREM TypeCorrect == Spec => []TypeOK
<1>1. IInv => TypeOK
  BY DEF IInv
<1> QED
  BY <1>1, InitTyped, StepTyped, PTL DEF Spec

----
(* What a merge does to a field.                                           *)

LEMMA DistinctJson ==
  ASSUME NEW v
  PROVE  Scalar(v) # Null /\ Array(v) # Null /\ Object(v) # Null
<1>1. Scalar(v).type = "scalar" /\ Array(v).type = "array" /\ Object(v).type = "object"
  BY DEF Scalar, Array, Object
<1>2. Null.type = "null"
  BY DEF Null
<1> QED
  BY <1>1, <1>2

\* A value that is marshalled and decoded again is the same, but for the members
\* of a struct that JSON does not hold.
LEMMA RoundTrip ==
  ASSUME NEW kind \in Kinds \ {"struct"}, NEW v \in Values(kind), NEW t \in Values(kind),
         kind = "map" => t = Nil
  PROVE  Unmarshal(kind, t, Marshal(kind, v)) = v
<1>1. CASE v = Nil
  BY <1>1 DEF Marshal, Unmarshal
<1>2. CASE v # Nil /\ kind = "map"
  <2>1. PICK s \in SUBSET Keys : v \in [s -> Scalars]
    BY <1>2, KindValues
  <2> DEFINE members == [k \in DOMAIN v |-> Scalar(v[k])]
  <2>2. Marshal(kind, v) = Object(members)
    BY <1>2 DEF Marshal
  <2>3. Object(members) # Null /\ Object(members).members = members
    BY DistinctJson DEF Object
  <2>4. DOMAIN members = DOMAIN v /\ \A k \in DOMAIN v : members[k].value = v[k]
    BY DEF Scalar
  <2> HIDE DEF members
  <2>5. Unmarshal(kind, t, Object(members))
          = [k \in {} \cup DOMAIN members |->
               IF k \in DOMAIN members THEN members[k].value ELSE t[k]]
    BY <1>2, <2>3 DEF Unmarshal
  <2>6. Unmarshal(kind, t, Object(members)) = [k \in DOMAIN v |-> v[k]]
    BY <2>4, <2>5
  <2> QED
    BY <2>1, <2>2, <2>6
<1>3. CASE v # Nil /\ kind = "list"
  <2>1. Marshal(kind, v) = Array(v) /\ Array(v).items = v
    BY <1>3 DEF Marshal, Array
  <2> QED
    BY <1>3, <2>1, DistinctJson DEF Unmarshal
<1>4. CASE v # Nil /\ kind \notin {"map", "list"}
  <2>1. Marshal(kind, v) = Scalar(v) /\ Scalar(v).value = v
    BY <1>4 DEF Marshal, Scalar
  <2> QED
    BY <1>4, <2>1, DistinctJson DEF Unmarshal
<1> QED
  BY <1>1, <1>2, <1>3, <1>4

LEMMA StructRoundTrip ==
  ASSUME NEW v \in Values("struct"), NEW t
  PROVE  Unmarshal("struct", t, Marshal("struct", v))
           = [k \in Keys |-> IF k \in Hidden THEN t[k] ELSE v[k]]
<1> DEFINE members == [k \in Keys \ Hidden |-> Scalar(v[k])]
<1>0. v # Nil
  <2>1. v \in [Keys -> Scalars]
    BY KindValues
  <2> QED
    BY <2>1, LayoutAssumption
<1>1. Marshal("struct", v) = Object(members)
  BY <1>0 DEF Marshal
<1>2. Object(members) # Null /\ Object(members).members = members
  BY DistinctJson DEF Object
<1>3. DOMAIN members = Keys \ Hidden /\ \A k \in Keys \ Hidden : members[k].value = v[k]
  BY DEF Scalar
<1> HIDE DEF members
<1>4. Unmarshal("struct", t, Object(members))
        = [k \in Keys |-> IF k \in DOMAIN members \ Hidden THEN members[k].value ELSE t[k]]
  BY <1>2 DEF Unmarshal
<1> QED
  BY <1>1, <1>3, <1>4

LEMMA MergedMembers ==
  ASSUME NEW old, NEW j, j.type = "object"
  PROVE  LET members == IF old.type = "object" THEN old.members ELSE NoMembers
             merged == MergeValue(old, j)
         IN /\ merged.type = "object"
            /\ DOMAIN merged.members = Remaining(members, j.members)
            /\ \A k \in Remaining(members, j.members) :
                 merged.members[k] = IF k \in DOMAIN j.members THEN j.members[k] ELSE members[k]
BY DEF MergeValue, Object

\* The members of a struct field after a merge that names it by an object.
LEMMA MergedStruct ==
  ASSUME NEW v \in Values("struct"), NEW t, NEW j, j.type = "object", NEW k \in Keys
  PROVE  Unmarshal("struct", t, MergeValue(Marshal("struct", v), j))[k] =
           IF k \in Hidden THEN t[k]
           ELSE IF k \notin DOMAIN j.members THEN v[k]
           ELSE IF j.members[k] = Null THEN t[k]
           ELSE j.members[k].value
<1> DEFINE members == [l \in Keys \ Hidden |-> Scalar(v[l])]
           merged == MergeValue(Marshal("struct", v), j)
<1>1. v # Nil
  <2>1. v \in [Keys -> Scalars]
    BY KindValues
  <2> QED
    BY <2>1, LayoutAssumption
<1>2. Marshal("struct", v) = Object(members)
  BY <1>1 DEF Marshal
<1>3. Object(members).type = "object" /\ Object(members).members = members
  BY DEF Object
<1>4. DOMAIN members = Keys \ Hidden /\ \A l \in Keys \ Hidden : members[l].value = v[l]
  BY DEF Scalar
<1> HIDE DEF members
<1>5. /\ merged.type = "object"
      /\ DOMAIN merged.members = Remaining(members, j.members)
      /\ \A l \in Remaining(members, j.members) :
           merged.members[l] = IF l \in DOMAIN j.members THEN j.members[l] ELSE members[l]
  BY <1>2, <1>3, MergedMembers
<1> HIDE DEF merged
<1>6. merged # Null
  BY <1>5 DEF Null
<1>7. Unmarshal("struct", t, merged)[k] =
        IF k \in DOMAIN merged.members \ Hidden THEN merged.members[k].value ELSE t[k]
  BY <1>6 DEF Unmarshal
<1> QED
  BY <1>4, <1>5, <1>7 DEF Remaining, merged

\* The entries of a map field after a merge that names it by an object.
LEMMA MergedMap ==
  ASSUME NEW v \in Values("map"), NEW j, j.type = "object", NEW k
  PROVE  LET entries == IF v = Nil THEN {} ELSE DOMAIN v
             result == Unmarshal("map", Nil, MergeValue(Marshal("map", v), j))
         IN /\ k \in DOMAIN result <=>
                 IF k \in DOMAIN j.members THEN j.members[k] # Null ELSE k \in entries
            /\ k \in entries /\ k \notin DOMAIN j.members => result[k] = v[k]
<1> DEFINE entries == IF v = Nil THEN {} ELSE DOMAIN v
           members == IF v = Nil THEN NoMembers ELSE [l \in DOMAIN v |-> Scalar(v[l])]
           old == Marshal("map", v)
           merged == MergeValue(old, j)
           result == Unmarshal("map", Nil, merged)
<1>1. members = IF old.type = "object" THEN old.members ELSE NoMembers
  BY DEF Marshal, Object, Null
<1>2. DOMAIN members = entries /\ \A l \in entries : members[l].value = v[l]
  BY DEF Scalar, NoMembers
<1> HIDE DEF members, old
<1>3. /\ merged.type = "object"
      /\ DOMAIN merged.members = Remaining(members, j.members)
      /\ \A l \in Remaining(members, j.members) :
           merged.members[l] = IF l \in DOMAIN j.members THEN j.members[l] ELSE members[l]
  BY <1>1, MergedMembers
<1> HIDE DEF merged
<1>4. merged # Null
  BY <1>3 DEF Null
<1>5. result = [l \in {} \cup DOMAIN merged.members |->
                  IF l \in DOMAIN merged.members THEN merged.members[l].value ELSE Nil[l]]
  BY <1>4 DEF Unmarshal
<1>6. /\ DOMAIN result = DOMAIN merged.members
      /\ k \in DOMAIN merged.members => result[k] = merged.members[k].value
  BY <1>5
<1> HIDE DEF result, entries
<1>7. k \in DOMAIN result <=>
        IF k \in DOMAIN j.members THEN j.members[k] # Null ELSE k \in entries
  BY <1>2, <1>3, <1>6 DEF Remaining
<1>8. k \in entries /\ k \notin DOMAIN j.members => result[k] = v[k]
  BY <1>2, <1>3, <1>6 DEF Remaining
<1> QED
  BY <1>7, <1>8 DEF result, entries, merged, old

----
(* What every merge does.                                                  *)

LEMMA OmittedField ==
  ASSUME NEW i, IsInput(i), NEW d, NEW f \in Fields \ DOMAIN d
  PROVE  /\ Kind[f] # "struct" => MergeInto(i, d)[f] = i[f]
         /\ Kind[f] = "struct" => \A k \in Members(i[f]) : MergeInto(i, d)[f][k] = i[f][k]
<1> DEFINE t == ResetPatchInput(i)[f]
<1>1. /\ Kind[f] \in Kinds /\ i[f] \in Values(Kind[f])
      /\ t = IF Kind[f] \in {"excluded", "promoted"} THEN i[f] ELSE ZeroOf(Kind[f])
  BY LayoutAssumption, MergeIntoField DEF IsInput
<1>2. MergeInto(i, d)[f] = IF Kind[f] # "excluded"
                           THEN Unmarshal(Kind[f], t, Marshal(Kind[f], i[f])) ELSE t
  BY MergeIntoField DEF MergedField
<1>3. t \in Values(Kind[f])
  BY <1>1, ZeroTyped
<1>4. Kind[f] = "map" => t = Nil
  BY <1>1 DEF ZeroOf
<1> HIDE DEF t
<1>5. CASE Kind[f] # "struct"
  BY <1>1, <1>2, <1>3, <1>4, <1>5, RoundTrip
<1>6. CASE Kind[f] = "struct"
  <2>1. i[f] \in [Keys -> Scalars]
    BY <1>1, <1>6, KindValues
  <2>2. MergeInto(i, d)[f] = [k \in Keys |-> IF k \in Hidden THEN t[k] ELSE i[f][k]]
    BY <1>1, <1>2, <1>6, StructRoundTrip
  <2>3. Members(i[f]) = Keys \ Hidden
    BY <2>1, LayoutAssumption DEF Members
  <2> QED
    BY <1>6, <2>2, <2>3
<1> QED
  BY <1>5, <1>6

\* What is decoded into a struct or map field that the document names by an object.
LEMMA NamedField ==
  ASSUME NEW i, IsInput(i), NEW d, NEW f \in FieldsOf("struct") \cup FieldsOf("map"),
         f \in DOMAIN d, d[f].type = "object"
  PROVE  MergeInto(i, d)[f] =
           Unmarshal(Kind[f], ZeroOf(Kind[f]), MergeValue(Marshal(Kind[f], i[f]), d[f]))
<1>1. d[f] # Null
  BY DEF Null
<1>2. f \in Fields /\ Kind[f] \in {"struct", "map"}
  BY DEF FieldsOf
<1> QED
  BY <1>1, <1>2, MergeIntoField DEF MergedField

LEMMA OmittedMember ==
  ASSUME NEW i, IsInput(i), NEW d, NEW f \in FieldsOf("struct") \cup FieldsOf("map"),
         f \in DOMAIN d, d[f].type = "object",
         NEW k \in Members(i[f]) \ DOMAIN d[f].members
  PROVE  k \in DOMAIN MergeInto(i, d)[f] /\ MergeInto(i, d)[f][k] = i[f][k]
<1>1. f \in Fields /\ i[f] \in Values(Kind[f]) /\ Kind[f] \in {"struct", "map"}
  BY DEF FieldsOf, IsInput
<1>2. i[f] # Nil /\ k \in DOMAIN i[f] \ Hidden
  BY DEF Members
<1>3. CASE Kind[f] = "struct"
  <2>1. k \in Keys \ Hidden
    BY <1>1, <1>2, <1>3, KindValues
  <2>2. MergeInto(i, d)[f][k] = i[f][k]
    BY <1>1, <1>3, <2>1, NamedField, MergedStruct
  <2>3. MergeValue(Marshal("struct", i[f]), d[f]) # Null
    BY DistinctJson DEF MergeValue
  <2>4. DOMAIN MergeInto(i, d)[f] = Keys
    <3> DEFINE merged == MergeValue(Marshal("struct", i[f]), d[f])
    <3>1. MergeInto(i, d)[f] = Unmarshal("struct", ZeroOf("struct"), merged)
      BY <1>3, NamedField
    <3> HIDE DEF merged
    <3>2. merged # Null
      BY <2>3 DEF merged
    <3> QED
      BY <3>1, <3>2 DEF Unmarshal
  <2> QED
    BY <2>1, <2>2, <2>4
<1>4. CASE Kind[f] = "map"
  BY <1>1, <1>2, <1>4, NamedField, MergedMap DEF ZeroOf
<1> QED
  BY <1>1, <1>3, <1>4

\* A member that the document nulls.
LEMMA NulledMember ==
  ASSUME NEW i, IsInput(i), NEW d, NEW f \in FieldsOf("struct") \cup FieldsOf("map"),
         f \in DOMAIN d, d[f].type = "object",
         NEW k \in DOMAIN d[f].members, d[f].members[k] = Null
  PROVE  /\ Kind[f] = "map" => k \notin DOMAIN MergeInto(i, d)[f]
         /\ Kind[f] = "struct" /\ k \in Keys \ Hidden => MergeInto(i, d)[f][k] = Zero
<1>1. f \in Fields /\ i[f] \in Values(Kind[f])
  BY DEF FieldsOf, IsInput
<1>2. ASSUME Kind[f] = "map" PROVE k \notin DOMAIN MergeInto(i, d)[f]
  BY <1>1, <1>2, NamedField, MergedMap DEF ZeroOf
<1>3. ASSUME Kind[f] = "struct", k \in Keys \ Hidden PROVE MergeInto(i, d)[f][k] = Zero
  <2>1. MergeInto(i, d)[f][k] = ZeroOf("struct")[k]
    BY <1>1, <1>3, NamedField, MergedStruct
  <2> QED
    BY <1>3, <2>1 DEF ZeroOf
<1> QED
  BY <1>2, <1>3

\* The members of a document that are named by an object are keys.
LEMMA DocumentMembers ==
  ASSUME NEW d \in Documents, NEW f \in DOMAIN d, d[f].type = "object"
  PROVE  DOMAIN d[f].members \subseteq Keys
<1>1. \E s \in SUBSET Keys : \E m \in [s -> Leaves] : d[f] = Object(m)
  BY DocumentAssumption DEF Null, Scalar, Array
<1> QED
  BY <1>1 DEF Object

LEMMA MergeStep ==
  ASSUME IInv, [Next]_vars, Merges
  PROVE  doc \in Documents /\ IsInput(input) /\ input' = MergeInto(input, doc)
<1>1. Merge
  BY DEF Merges, Next, Receive, MergeFails, Map, Normalize, Write, vars
<1> QED
  BY <1>1 DEF Merge, IInv, TypeOK

----
\* A merge keeps every value that the document omits, to the last member of an
\* object, although the whole input was reset before it was decoded again.
THEOREM OmittedFieldsAreKept == Spec => OmittedFieldsKept
<1> DEFINE A == Merges =>
       /\ \A f \in Fields \ DOMAIN doc : Kind[f] # "struct" => input'[f] = input[f]
       /\ \A f \in Fields \ DOMAIN doc :
            Kind[f] = "struct" => \A k \in Members(input[f]) : input'[f][k] = input[f][k]
       /\ \A f \in FieldsOf("struct") \cup FieldsOf("map") :
            f \in DOMAIN doc /\ doc[f].type = "object"
              => \A k \in Members(input[f]) \ DOMAIN doc[f].members :
                   k \in DOMAIN input'[f] /\ input'[f][k] = input[f][k]
<1>1. IInv /\ [Next]_vars => [A]_vars
  <2> SUFFICES ASSUME IInv, [Next]_vars, Merges PROVE A
    OBVIOUS
  <2>1. IsInput(input) /\ input' = MergeInto(input, doc)
    BY MergeStep
  <2> QED
    BY <2>1, OmittedField, OmittedMember
<1>2. IInv /\ [Next]_vars => IInv'
  BY StepTyped
<1> QED
  BY <1>1, <1>2, InitTyped, PTL DEF Spec, OmittedFieldsKept

\* A null resets the field or the member that it names.  The run patch_promoted
\* shows why no field may be promoted from an embedded struct that is not exported.
THEOREM NullsReset ==
  ASSUME \A f \in Fields : Kind[f] # "promoted"
  PROVE  Spec => NullResets
<1> DEFINE A == Merges =>
       /\ \A f \in JsonFields \cap DOMAIN doc :
            doc[f] = Null /\ Kind[f] # "struct" => input'[f] = ZeroOf(Kind[f])
       /\ \A f \in FieldsOf("map") \cap DOMAIN doc :
            doc[f].type = "object" =>
              \A k \in DOMAIN doc[f].members :
                doc[f].members[k] = Null => k \notin DOMAIN input'[f]
       /\ \A f \in FieldsOf("struct") \cap DOMAIN doc :
            doc[f].type = "object" =>
              \A k \in DOMAIN doc[f].members \ Hidden :
                doc[f].members[k] = Null => input'[f][k] = Zero
<1>1. IInv /\ [Next]_vars => [A]_vars
  <2> SUFFICES ASSUME IInv, [Next]_vars, Merges PROVE A
    OBVIOUS
  <2>1. doc \in Documents /\ IsInput(input) /\ input' = MergeInto(input, doc)
    BY MergeStep
  <2>2. ASSUME NEW f \in JsonFields \cap DOMAIN doc, doc[f] = Null
        PROVE  input'[f] = ZeroOf(Kind[f])
    <3>1. f \in Fields /\ Kind[f] \notin {"excluded", "promoted"}
      BY DEF JsonFields
    <3> QED
      BY <2>1, <2>2, <3>1, MergeIntoField
  <2>3. ASSUME NEW f \in FieldsOf("map") \cap DOMAIN doc, doc[f].type = "object",
               NEW k \in DOMAIN doc[f].members, doc[f].members[k] = Null
        PROVE  k \notin DOMAIN input'[f]
    <3>1. Kind[f] = "map"
      BY DEF FieldsOf
    <3> QED
      BY <2>1, <2>3, <3>1, NulledMember
  <2>4. ASSUME NEW f \in FieldsOf("struct") \cap DOMAIN doc, doc[f].type = "object",
               NEW k \in DOMAIN doc[f].members \ Hidden, doc[f].members[k] = Null
        PROVE  input'[f][k] = Zero
    <3>1. Kind[f] = "struct" /\ k \in Keys \ Hidden
      BY <2>1, <2>4, DocumentMembers DEF FieldsOf
    <3> QED
      BY <2>1, <2>4, <3>1, NulledMember
  <2> QED
    BY <2>2, <2>3, <2>4
<1>2. IInv /\ [Next]_vars => IInv'
  BY StepTyped
<1> QED
  BY <1>1, <1>2, InitTyped, PTL DEF Spec, NullResets

\* What is excluded from JSON survives a merge, whatever the document names.  The
\* run patch_hidden shows why no member of a nested struct may be excluded.
THEOREM ExcludedFieldsAreKept ==
  ASSUME Hidden = {}
  PROVE  Spec => ExcludedFieldsKept
<1> DEFINE A == Merges =>
       /\ \A f \in FieldsOf("excluded") : input'[f] = input[f]
       /\ \A f \in FieldsOf("struct") : \A k \in Hidden : input'[f][k] = input[f][k]
<1>1. IInv /\ [Next]_vars => [A]_vars
  <2> SUFFICES ASSUME IInv, [Next]_vars, Merges PROVE A
    OBVIOUS
  <2>1. IsInput(input) /\ input' = MergeInto(input, doc)
    BY MergeStep
  <2>2. ASSUME NEW f \in FieldsOf("excluded") PROVE input'[f] = input[f]
    <3>1. f \in Fields /\ Kind[f] = "excluded"
      BY DEF FieldsOf
    <3> QED
      BY <2>1, <3>1, MergeIntoField
  <2> QED
    BY <2>2
<1>2. IInv /\ [Next]_vars => IInv'
  BY StepTyped
<1> QED
  BY <1>1, <1>2, InitTyped, PTL DEF Spec, ExcludedFieldsKept

----
(* The associations.                                                       *)

\* A configuration that names every relation by one path.  A belongs-to relation
\* is named by its own field, set by no list and derived by no trigger.
OnePathEach ==
  /\ \A o \in Overrides : Buildable(o) =>
       /\ \A p, q \in DOMAIN AssociationFields(o) :
            AssociationFields(o)[p] = AssociationFields(o)[q] => p = q
       /\ \A f \in FieldsOf("ref") :
            f \in DOMAIN AssociationFields(o) /\ AssociationFields(o)[f] = Target[f]
  /\ \A f \in FieldsOf("ref") :
       /\ \A g \in FieldsOf("list") : Target[g] # Target[f]
       /\ \A p \in DOMAIN Triggers : Triggers[p] # Target[f]

\* What every step of a request knows.  Before the write: an association that is
\* not selected has its old foreign key, one that is cleared has nothing left.
DirectPaths ==
  /\ \A p, q \in DOMAIN fields : fields[p] = fields[q] => p = q
  /\ \A f \in FieldsOf("ref") : f \in DOMAIN fields /\ fields[f] = Target[f]
Loaded ==
  /\ step \in {"merge", "map"} => entity = stored
  /\ step = "merge" => input = FromEntity(stored)
  /\ step = "map" => \A f \in FieldsOf("ref") \ DOMAIN doc : input[f] = stored.columns[f]
NoArrays ==
  step \in {"map", "normalize", "write"} =>
    \A f \in FieldsOf("ref") \cap DOMAIN doc : doc[f] # Array({})
UnselectedKept ==
  step \in {"normalize", "write"} =>
    \A f \in FieldsOf("ref") :
      Target[f] \notin Selected(doc) => entity.columns[f] = stored.columns[f]
Cleared ==
  step = "write" =>
    \A p \in DOMAIN fields \cap DOMAIN doc :
      /\ Clears(doc, p) => entity.rels[fields[p]] = {}
      /\ ClearsKey(doc, p) =>
           \A f \in FieldsOf("ref") : Target[f] = fields[p] => entity.columns[f] = Nil
AInv == IInv /\ DirectPaths /\ Loaded /\ NoArrays /\ UnselectedKept /\ Cleared

LEMMA RefFields ==
  ASSUME NEW f \in FieldsOf("ref")
  PROVE  /\ f \in Fields /\ f \in Columns /\ f \in Paths /\ f \in JsonFields
         /\ Kind[f] = "ref" /\ Target[f] \in Relations
BY AssociationAssumption DEF FieldsOf, Columns, Paths, JsonFields

LEMMA InitAssociations ==
  ASSUME OnePathEach, Init
  PROVE  AInv
<1>1. PICK o \in Overrides : Buildable(o) /\ fields = AssociationFields(o)
  BY DEF Init
<1>2. DirectPaths
  BY <1>1 DEF OnePathEach, DirectPaths
<1>3. step = "ready"
  BY DEF Init
<1> QED
  BY <1>2, <1>3, InitTyped DEF AInv, Loaded, NoArrays, UnselectedKept, Cleared

\* An array cannot be decoded into a belongs-to field, a field that the document
\* omits keeps the foreign key.
LEMMA MergeAssociations ==
  ASSUME AInv, Merge
  PROVE  /\ \A f \in FieldsOf("ref") \cap DOMAIN doc : doc[f] # Array({})
         /\ \A f \in FieldsOf("ref") \ DOMAIN doc : input'[f] = stored.columns[f]
<1>1. IsInput(input) /\ input = FromEntity(stored)
  BY DEF AInv, IInv, TypeOK, Loaded, Merge
<1>2. MergesInto(input, doc) /\ input' = MergeInto(input, doc)
  BY DEF Merge
<1>3. ASSUME NEW f \in FieldsOf("ref") \cap DOMAIN doc, doc[f] = Array({}) PROVE FALSE
  <2> DEFINE merged == MergePatch(Marshalled(input), doc)
  <2>1. f \in JsonFields /\ Kind[f] = "ref" /\ doc[f] # Null
    BY <1>3, RefFields DEF Array, Null
  <2>2. f \in DOMAIN merged /\ merged[f] = MergedField(input, doc, f)
    BY <2>1, MergedFields
  <2>3. MergedField(input, doc, f) = Array({})
    BY <1>3 DEF MergedField, MergeValue, Array
  <2>4. Decodable("ref", Array({}))
    BY <1>2, <2>1, <2>2, <2>3 DEF MergesInto
  <2> QED
    BY <2>4 DEF Decodable, Array, Null
<1>4. ASSUME NEW f \in FieldsOf("ref") \ DOMAIN doc PROVE input'[f] = stored.columns[f]
  <2>1. f \in Fields /\ Kind[f] = "ref"
    BY RefFields
  <2>2. input'[f] = input[f]
    BY <1>1, <1>2, <2>1, OmittedField
  <2> QED
    BY <1>1, <2>1, <2>2 DEF FromEntity
<1> QED
  BY <1>3, <1>4

\* The mapper leaves a belongs-to association alone that the document omits.
LEMMA MapAssociations ==
  ASSUME OnePathEach, AInv, Map, NEW f \in FieldsOf("ref"), Target[f] \notin Selected(doc)
  PROVE  entity'.columns[f] = stored.columns[f]
<1> DEFINE r == Target[f]
           key == stored.columns[f]
           old == IF key = Nil THEN {} ELSE {key}
<1>1. PICK rels \in [Relations -> SUBSET Ids] :
        /\ \A s \in Relations : rels[s] \in MappedTo(entity, input, s)
        /\ entity' = [columns |-> [g \in Columns |-> IF Kind[g] = "ref" THEN KeyOf(rels[Target[g]])
                                                     ELSE input[g]],
                      rels |-> rels]
  BY DEF Map
<1>2. /\ f \in Columns /\ f \in Paths /\ Kind[f] = "ref" /\ r \in Relations
      /\ entity'.columns[f] = KeyOf(rels[r])
  BY <1>1, RefFields
<1>3. f \notin DOMAIN doc
  BY DEF AInv, DirectPaths, Selected, Chosen
<1>4. entity = stored /\ input[f] = key
  BY <1>3 DEF AInv, Loaded, Map
<1>5. stored.rels[r] = old
  BY DEF AInv, IInv, TypeOK, Consistent
<1>6. {g \in Paths : Target[g] = r} = {f}
  <2>1. ASSUME NEW g \in Paths, Target[g] = r PROVE g = f
    <3>1. g \in Fields /\ Kind[g] \in {"list", "ref"}
      BY <2>1, AssociationAssumption DEF Paths
    <3>2. Kind[g] # "list"
      BY <2>1, <3>1 DEF OnePathEach, FieldsOf
    <3> QED
      BY <1>2, <2>1, <3>1, <3>2, AssociationAssumption DEF Paths
  <2> QED
    BY <1>2, <2>1
<1>7. Named(input, r) = {old}
  BY <1>2, <1>4, <1>6 DEF Named
<1>8. r \notin {Triggers[p] : p \in DOMAIN Triggers}
  BY DEF OnePathEach
<1>9. rels[r] = old
  <2>1. MappedTo(entity, input, r) = {old}
    BY <1>4, <1>5, <1>7, <1>8 DEF MappedTo
  <2> QED
    BY <1>1, <1>2, <2>1
<1>10. KeyOf(old) = key
  BY DEF KeyOf
<1> QED
  BY <1>2, <1>9, <1>10

\* With one path for each relation, the path that is looked up is the named one.
LEMMA NormalizeAssociations ==
  ASSUME AInv, Normalize
  PROVE  /\ \A f \in FieldsOf("ref") :
              Target[f] \notin Selected(doc) => entity'.columns[f] = entity.columns[f]
         /\ \A p \in DOMAIN fields \cap DOMAIN doc :
              /\ Clears(doc, p) => entity'.rels[fields[p]] = {}
              /\ ClearsKey(doc, p) =>
                   \A f \in FieldsOf("ref") : Target[f] = fields[p] => entity'.columns[f] = Nil
<1>1. PICK path \in [Selected(doc) -> DOMAIN fields] :
        /\ \A r \in Selected(doc) : fields[path[r]] = r
        /\ entity' =
             [columns |-> [f \in Columns |->
                             IF /\ Kind[f] = "ref" /\ Target[f] \in Selected(doc)
                                /\ ClearsKey(doc, path[Target[f]])
                             THEN Nil ELSE entity.columns[f]],
              rels |-> [r \in Relations |-> IF r \in Selected(doc) /\ Clears(doc, path[r])
                                            THEN {} ELSE entity.rels[r]]]
  BY DEF Normalize
<1>2. ASSUME NEW f \in FieldsOf("ref"), Target[f] \notin Selected(doc)
      PROVE  entity'.columns[f] = entity.columns[f]
  BY <1>1, <1>2, RefFields
<1>3. ASSUME NEW p \in DOMAIN fields \cap DOMAIN doc
      PROVE  /\ Clears(doc, p) => entity'.rels[fields[p]] = {}
             /\ ClearsKey(doc, p) =>
                  \A f \in FieldsOf("ref") : Target[f] = fields[p] => entity'.columns[f] = Nil
  <2>1. fields[p] \in Selected(doc) /\ fields[p] \in Relations
    BY DEF Selected, Chosen, AInv, IInv, TypeOK
  <2>2. path[fields[p]] = p
    BY <1>1, <2>1 DEF AInv, DirectPaths
  <2> QED
    BY <1>1, <2>1, <2>2, RefFields
<1> QED
  BY <1>2, <1>3

LEMMA StepAssociations ==
  ASSUME OnePathEach
  PROVE  AInv /\ [Next]_vars => AInv'
<1> SUFFICES ASSUME AInv, [Next]_vars PROVE AInv'
  OBVIOUS
<1>0. IInv'
  BY StepTyped DEF AInv
<1>1. DirectPaths'
  BY DEF AInv, DirectPaths, Next, Receive, Merge, MergeFails, Map, Normalize, Write, vars
<1> USE DEF Loaded, NoArrays, UnselectedKept, Cleared
<1>2. ASSUME NEW d \in Documents, Receive(d) PROVE AInv'
  BY <1>0, <1>1, <1>2 DEF Receive, AInv
<1>3. CASE Merge
  BY <1>0, <1>1, <1>3, MergeAssociations DEF Merge, AInv
<1>4. CASE MergeFails
  BY <1>0, <1>1, <1>4 DEF MergeFails, AInv
<1>5. CASE Map
  <2>1. step = "map" /\ step' = "normalize" /\ UNCHANGED <<fields, stored, doc>>
    BY <1>5 DEF Map
  <2>2. UnselectedKept'
    BY <1>5, <2>1, MapAssociations DEF Selected, Chosen
  <2> QED
    BY <1>0, <1>1, <2>1, <2>2 DEF AInv
<1>6. CASE Normalize
  <2>1. step = "normalize" /\ step' = "write" /\ UNCHANGED <<fields, stored, doc>>
    BY <1>6 DEF Normalize
  <2>2. UnselectedKept'
    BY <1>6, <2>1, NormalizeAssociations DEF AInv, Selected, Chosen
  <2>3. Cleared'
    BY <1>6, <2>1, NormalizeAssociations DEF Clears, ClearsKey
  <2> QED
    BY <1>0, <1>1, <2>1, <2>2, <2>3 DEF AInv
<1>7. CASE Write
  BY <1>0, <1>1, <1>7 DEF Write, AInv
<1>8. CASE UNCHANGED vars
  BY <1>0, <1>1, <1>8 DEF vars, AInv, Selected, Chosen, Clears, ClearsKey
<1> QED
  BY <1>2, <1>3, <1>4, <1>5, <1>6, <1>7, <1>8 DEF Next

\* The association r after a write: a belongs-to association is its foreign key.
LEMMA Written ==
  ASSUME Write, NEW r \in Relations
  PROVE  /\ \A f \in FieldsOf("ref") : Target[f] = r =>
              stored'.rels[r] = IF entity.columns[f] = Nil THEN {} ELSE {entity.columns[f]}
         /\ (\A f \in FieldsOf("ref") : Target[f] # r) =>
              stored'.rels[r] = IF r \in Selected(doc) THEN entity.rels[r] ELSE stored.rels[r]
<1> DEFINE key(f) == IF entity.columns[f] = Nil THEN {} ELSE {entity.columns[f]}
           refs == {g \in FieldsOf("ref") : Target[g] = r}
<1>1. stored'.rels[r] = IF \E f \in FieldsOf("ref") : Target[f] = r
                        THEN UNION {key(f) : f \in refs}
                        ELSE IF r \in Selected(doc) THEN entity.rels[r] ELSE stored.rels[r]
  BY DEF Write
<1>2. ASSUME NEW f \in FieldsOf("ref"), Target[f] = r PROVE stored'.rels[r] = key(f)
  <2>1. \A g \in refs : g = f
    BY <1>2, RefFields, AssociationAssumption DEF Paths
  <2>2. refs = {f}
    BY <1>2, <2>1
  <2> HIDE DEF refs, key
  <2>3. UNION {key(g) : g \in refs} = key(f)
    BY <2>2
  <2> QED
    BY <1>1, <1>2, <2>3
<1> QED
  BY <1>1, <1>2

LEMMA WriteStep ==
  ASSUME [Next]_vars, Writes
  PROVE  Write
BY DEF Writes, Next, Receive, Merge, MergeFails, Map, Normalize, vars

\* Null and an empty array clear the association that they name, whatever the
\* mapper made of the merged input.  The run patch_aliased shows why a relation
\* may have only one path.
THEOREM NamedAssociationsCleared ==
  ASSUME OnePathEach
  PROVE  Spec => ClearsAssociations
<1> DEFINE A == Writes =>
       \A p \in DOMAIN fields \cap DOMAIN doc :
         /\ doc[p] \in {Null, Array({})}
         /\ \A q \in DOMAIN fields \cap DOMAIN doc : fields[q] = fields[p] => q = p
         => stored'.rels[fields[p]] = {}
<1>1. AInv /\ [Next]_vars => [A]_vars
  <2> SUFFICES ASSUME AInv, [Next]_vars, Writes,
                      NEW p \in DOMAIN fields \cap DOMAIN doc, doc[p] \in {Null, Array({})}
               PROVE  stored'.rels[fields[p]] = {}
    OBVIOUS
  <2>1. Write
    BY WriteStep
  <2>2. step = "write" /\ fields[p] \in Relations
    BY <2>1 DEF Write, AInv, IInv, TypeOK
  <2>3. entity.rels[fields[p]] = {} /\ fields[p] \in Selected(doc)
    BY <2>2 DEF AInv, Cleared, Clears, Selected, Chosen
  <2>4. CASE \E f \in FieldsOf("ref") : Target[f] = fields[p]
    <3>1. PICK f \in FieldsOf("ref") : Target[f] = fields[p]
      BY <2>4
    <3>2. p = f
      BY <3>1 DEF AInv, DirectPaths
    <3>3. ClearsKey(doc, p)
      BY <2>2, <3>2 DEF AInv, NoArrays, ClearsKey
    <3>4. entity.columns[f] = Nil
      BY <2>2, <3>1, <3>3 DEF AInv, Cleared
    <3> QED
      BY <2>1, <2>2, <3>1, <3>4, Written
  <2>5. CASE \A f \in FieldsOf("ref") : Target[f] # fields[p]
    BY <2>1, <2>2, <2>3, <2>5, Written
  <2> QED
    BY <2>4, <2>5
<1>2. Init => AInv
  BY InitAssociations
<1>3. AInv /\ [Next]_vars => AInv'
  BY StepAssociations
<1> QED
  BY <1>1, <1>2, <1>3, PTL DEF Spec, ClearsAssociations

\* An association that the document selects by no path and no trigger stays as
\* it is in the database; what a trigger selects is what the mapper made of it.
THEOREM UnselectedAssociationsKept ==
  ASSUME OnePathEach
  PROVE  Spec => OnlySelectedWritten
<1> DEFINE A == Writes =>
       \A r \in Relations :
         /\ r \notin Chosen(doc, fields) \cup Chosen(doc, Triggers)
              => stored'.rels[r] = stored.rels[r]
         /\ r \in Chosen(doc, Triggers) => stored'.rels[r] = entity.rels[r]
<1>1. AInv /\ [Next]_vars => [A]_vars
  <2> SUFFICES ASSUME AInv, [Next]_vars, Writes, NEW r \in Relations
               PROVE  /\ r \notin Selected(doc) => stored'.rels[r] = stored.rels[r]
                      /\ r \in Chosen(doc, Triggers) => stored'.rels[r] = entity.rels[r]
    BY DEF Selected
  <2>1. Write
    BY WriteStep
  <2>2. step = "write" /\ Consistent(stored)
    BY <2>1 DEF Write, AInv, IInv, TypeOK
  <2>3. CASE \E f \in FieldsOf("ref") : Target[f] = r
    <3>1. PICK f \in FieldsOf("ref") : Target[f] = r
      BY <2>3
    <3>2. r \notin Chosen(doc, Triggers)
      BY <3>1 DEF OnePathEach, Chosen
    <3>3. ASSUME r \notin Selected(doc) PROVE stored'.rels[r] = stored.rels[r]
      <4>1. entity.columns[f] = stored.columns[f]
        BY <2>2, <3>1, <3>3 DEF AInv, UnselectedKept
      <4>2. stored.rels[r] = IF stored.columns[f] = Nil THEN {} ELSE {stored.columns[f]}
        BY <2>2, <3>1 DEF Consistent
      <4>3. stored'.rels[r] = IF entity.columns[f] = Nil THEN {} ELSE {entity.columns[f]}
        BY <2>1, <3>1, Written
      <4> QED
        BY <4>1, <4>2, <4>3
    <3> QED
      BY <3>2, <3>3
  <2>4. CASE \A f \in FieldsOf("ref") : Target[f] # r
    BY <2>1, <2>4, Written DEF Selected
  <2> QED
    BY <2>3, <2>4
<1>2. Init => AInv
  BY InitAssociations
<1>3. AInv /\ [Next]_vars => AInv'
  BY StepAssociations
<1> QED
  BY <1>1, <1>2, <1>3, PTL DEF Spec, OnlySelectedWritten

====
