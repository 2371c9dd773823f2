---- MODULE EntityTags ----
(***************************************************************************)
(* entity_tags.go: the depth-first walk over an entity's fields, embedded  *)
(* structs and related types that collects the paths of the sqlh tags.     *)
(*                                                                         *)
(* The call stack is the sequence "at": for every collectEntityBuilderTags *)
(* on it, its type and the field its loop is at.  That sequence also       *)
(* determines parentPath and parentIndex, so they are operators on it, and *)
(* a collected path is the sequence at its field; PathName renders it.     *)
(***************************************************************************)
EXTENDS Naturals, Sequences, FiniteSets

CONSTANTS Types,    \* the struct types
          Root,     \* the entity
          NoType,   \* the target of a field that leads to no struct
          Names,    \* Go field names
          Layouts   \* the entities that may be met

VARIABLES layout,   \* the entity in hand
          at,       \* the call stack
          visited,  \* visitedTypes
          tags,     \* entityBuilderTags: pairs of a phase and a path
          status

tagVars == <<layout, at, visited, tags, status>>

Phases == {"preload:create", "preload:read", "preload:query", "preload:update",
           "sync:create", "sync:update", "sync:delete"}

\* What one tag may say: phases, field:..., a directive or phase nobody knows,
\* and text that parseSqlhTagValues refuses.
Words == Phases \cup {"field", "unknown", "malformed"}

FieldSet == [name : Names, embedded : BOOLEAN, target : Types \cup {NoType}, tag : SUBSET Words]

\* relations and columns are SQLR's schemas: the type that has the schema and the
\* index path of the field, through embedded structs, that it has chosen.
ASSUME LayoutAssumption ==
  /\ IsFiniteSet(Types) /\ Root \in Types /\ NoType \notin Types
  /\ \A l \in Layouts : l.fields \in [Types -> Seq(FieldSet)]

Frame(t) == [type |-> t, field |-> 1]
FieldOf(l, h) == l.fields[h.type][h.field]
Field(l, c) == FieldOf(l, c[Len(c)])

\* The schema of the last field on c belongs to the type that the last
\* association led to; embedded structs only lengthen the index.
Start(l, c) ==
  CHOOSE j \in 1..Len(c) : /\ \A k \in j..(Len(c) - 1) : FieldOf(l, c[k]).embedded
                           /\ (j = 1 \/ ~FieldOf(l, c[j - 1]).embedded)
Index(l, c) == [k \in 1..(Len(c) - Start(l, c) + 1) |-> c[Start(l, c) + k - 1].field]
Owned(l, c) == <<c[Start(l, c)].type, Index(l, c)>>

IsAssociation(l, c) == Owned(l, c) \in l.relations

(* The error returns of collectEntityBuilderTagField.                      *)
Refused(l, c) ==
  LET tag == Field(l, c).tag IN
  IF Field(l, c).embedded THEN tag # {}
  ELSE \/ ~(tag \subseteq Phases \cup {"field"})
       \/ ("field" \in tag /\ Owned(l, c) \notin l.columns)
       \/ (tag \ {"field"} # {} /\ ~IsAssociation(l, c))
       \/ (IsAssociation(l, c) /\ Field(l, c).target = NoType)

Follows(l, c) ==
  /\ Field(l, c).target \in Types
  /\ (Field(l, c).embedded \/ IsAssociation(l, c))

Tagged(l, c) == {<<phase, c>> : phase \in Field(l, c).tag \cap Phases}

\* The dotted path: embedded structs have no segment.
PathName(l, c) ==
  LET own == SelectSeq(c, LAMBDA h : ~FieldOf(l, h).embedded)
  IN  [k \in 1..Len(own) |-> FieldOf(l, own[k]).name]

----
WalkInit ==
  /\ layout \in Layouts
  /\ at = <<Frame(Root)>> /\ visited = {Root}
  /\ tags = {} /\ status = "walking"

Top == at[Len(at)]
AtField == status = "walking" /\ Top.field \in 1..Len(layout.fields[Top.type])
Advanced(c) == [c EXCEPT ![Len(c)].field = @ + 1]

Refuse ==
  /\ AtField /\ Refused(layout, at)
  /\ status' = "failed"
  /\ UNCHANGED <<layout, at, visited, tags>>

\* The field leads nowhere, or to a type that is being visited.
Pass ==
  /\ AtField /\ ~Refused(layout, at)
  /\ ~(Follows(layout, at) /\ Field(layout, at).target \notin visited)
  /\ tags' = tags \cup Tagged(layout, at)
  /\ at' = Advanced(at)
  /\ UNCHANGED <<layout, visited, status>>

Enter ==
  /\ AtField /\ ~Refused(layout, at)
  /\ Follows(layout, at) /\ Field(layout, at).target \notin visited
  /\ tags' = tags \cup Tagged(layout, at)
  /\ at' = Append(at, Frame(Field(layout, at).target))
  /\ visited' = visited \cup {Field(layout, at).target}
  /\ UNCHANGED <<layout, status>>

\* Mutant: a type that was visited once is not visited again.
LeaveVisited ==
  /\ status = "walking" /\ ~AtField /\ Len(at) > 1
  /\ at' = Advanced(SubSeq(at, 1, Len(at) - 1))
  /\ UNCHANGED <<layout, visited, tags, status>>

\* The deferred delete of visitEntityBuilderType, and the caller's next field.
Leave ==
  /\ status = "walking" /\ ~AtField /\ Len(at) > 1
  /\ visited' = visited \ {Top.type}
  /\ at' = Advanced(SubSeq(at, 1, Len(at) - 1))
  /\ UNCHANGED <<layout, tags, status>>

Finish ==
  /\ status = "walking" /\ ~AtField /\ Len(at) = 1
  /\ status' = "done"
  /\ UNCHANGED <<layout, at, visited, tags>>

WalkNext == Refuse \/ Pass \/ Enter \/ Leave \/ Finish

WalkSpec == WalkInit /\ [][WalkNext]_tagVars

----
\* The walk's call stacks: every type on it once, each entered from the field
\* before.
Chain(l, c) ==
  /\ c[1].type = Root
  /\ \A k \in 1..Len(c) : c[k].field \in 1..Len(l.fields[c[k].type])
  /\ \A k \in 1..(Len(c) - 1) : /\ Follows(l, SubSeq(c, 1, k))
                                /\ c[k + 1].type = FieldOf(l, c[k]).target
  /\ \A j, k \in 1..Len(c) : j # k => c[j].type # c[k].type

Hops(l) == UNION {[type : {t}, field : 1..Len(l.fields[t])] : t \in Types}

Chains == [l \in Layouts |->
  {c \in UNION {[1..n -> Hops(l)] : n \in 1..Cardinality(Types)} : Chain(l, c)}]

(* The paths of every phase are exactly those along which no type repeats, *)
(* so that a cyclic graph has finitely many and a type reached twice by    *)
(* different relations is collected under both; and the construction fails *)
(* exactly if one of these fields is tagged in a way that is refused.      *)
(* (entity_tags.go:64-71, 268-279)                                         *)
PathsCollected ==
  /\ status = "done" =>
       /\ tags = UNION {Tagged(layout, c) : c \in Chains[layout]}
       /\ \A c \in Chains[layout] : ~Refused(layout, c)
  /\ status = "failed" => \E c \in Chains[layout] : Refused(layout, c)

(* The recursion is no deeper than there are types, also on cyclic graphs. *)
(* (entity_tags.go:268-276)                                                *)
DepthBounded == Len(at) <= Cardinality(Types)

WalkTypeOK ==
  /\ layout \in Layouts
  /\ at \in Seq([type : Types, field : Nat \ {0}]) /\ at # <<>>
  /\ visited \subseteq Types
  /\ status \in {"walking", "done", "failed"}
====
