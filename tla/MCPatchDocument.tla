---- MODULE MCPatchDocument ----
(***************************************************************************)
(* TLC instances of PatchDocument.  A document names one or two fields and *)
(* has every kind of value for each, one field also values of a wrong type.*)
(***************************************************************************)
EXTENDS PatchDocument

CONSTANTS i1, v1

MCKind == [f \in Fields |->
             CASE f = "labels" -> "map" [] f = "profile" -> "struct" [] f = "author" -> "ref"
               [] f \in {"tags", "tagIds"} -> "list" [] f = "comment" -> "pointer"
               [] f = "id" -> "excluded" [] f = "nickname" -> "promoted" [] OTHER -> "scalar"]
MCTarget == [f \in Fields \cap {"tags", "tagIds", "author"} |->
               IF f = "author" THEN "Author" ELSE "Tags"]
MCDerived == [r \in Relations |-> IF r = "Author" THEN "author" ELSE "tags"]
MCTriggers == [p \in {"name"} \cap Fields |-> "Tags"]
NoTriggers == [p \in {} |-> "Tags"]

\* No override, or one that renames the path of Tags.
NoOverride == {[p \in {} |-> "Tags"]}
Renamed == NoOverride \cup {[p \in {"tagIds"} |-> "Tags"], [p \in {"author"} |-> "Tags"]}
\* Two paths to one relation.
Aliased == {[p \in {"tags", "tagIds"} |-> "Tags"]}

Offered(f) ==
  {Null} \cup CASE Kind[f] \in {"map", "struct"} ->
                     {Object(m) : m \in UNION {[s -> Leaves] : s \in SUBSET Keys}}
                [] Kind[f] = "list" -> {Array(s) : s \in SUBSET Ids}
                [] Kind[f] = "ref" -> {Scalar(i) : i \in Ids}
                [] OTHER -> {Scalar(v) : v \in Scalars}
WrongType == {Scalar(v1), Array({}), Object(NoMembers)}

SmallDocuments ==
  UNION {[{f} -> Offered(f) \cup WrongType] : f \in Fields}
  \cup UNION {{[h \in {p[1], p[2]} |-> IF h = p[1] THEN x ELSE y] :
                 x \in Offered(p[1]), y \in Offered(p[2])} : p \in Fields \X Fields}

\* The first entity has a value in every field, the second has none.
FirstSeed ==
  [columns |-> [f \in Columns |-> CASE Kind[f] = "map" -> [k \in Keys |-> v1]
                                    [] Kind[f] = "struct" -> [k \in Keys |-> v1]
                                    [] Kind[f] = "ref" -> i1
                                    [] OTHER -> v1],
   rels |-> [r \in Relations |-> {i1}]]
SecondSeed ==
  [columns |-> [f \in Columns |-> ZeroOf(Kind[f])], rels |-> [r \in Relations |-> {}]]
MCSeeds == {FirstSeed, SecondSeed}
====
