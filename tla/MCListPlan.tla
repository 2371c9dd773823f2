---- MODULE MCListPlan ----
(***************************************************************************)
(* TLC instances of ListPlan: posts with an author and tags, as in the     *)
(* integration tests, mapped to public names whose letters have a case,    *)
(* and requests that combine the parts of a list.                          *)
(***************************************************************************)
EXTENDS ListPlan

CONSTANTS Post, Author, Tag, Entity

\* K k Kelvin, S s long-s, the three sigmas, a-umlaut in two cases, a dash.
MCOrbits == {{75, 107, 8490}, {83, 115, 383}, {931, 962, 963}, {196, 228}, {45}}
MCCodePoints == UNION MCOrbits
MCAsked == {<<c>> : c \in MCCodePoints} \cup {<<>>, <<107, 115>>, <<75, 383>>, <<115, 45>>, <<45, 115>>}

Field(name, index, public) == [name |-> name, index |-> index, exported |-> TRUE, type |-> NoType, public |-> public]
Struct(name, type) == [Field(name, <<name>>, <<45>>) EXCEPT !.type = type]
ColumnOf(name) == [name |-> name, scalar |-> TRUE, plain |-> TRUE]
Relation(name, related, toOne) == [index |-> <<name>>, related |-> related, toOne |-> toOne, plain |-> TRUE]

\* A post embeds its Id, and a Title that its own one shadows; two of its fields may be renamed, the last one is
\* mapped to an ordinary collection.
Posts(title, note, secret) ==
  [visible |-> {Field("Id", <<"Entity", "Id">>, <<75>>), Struct("Entity", Entity),
                Field("Title", <<"Title">>, title), Field("Note", <<"Note">>, note),
                [Field("secret", <<"secret">>, secret) EXCEPT !.exported = FALSE],
                Field("List", <<"List">>, <<75>>),
                Struct("Author", Author), Struct("Tags", Tag)},
   columns |-> (<<"Entity", "Id">> :> ColumnOf("id") @@ <<"Title">> :> ColumnOf("title")
                @@ <<"Note">> :> ColumnOf("note") @@ <<"secret">> :> ColumnOf("secret")
                @@ <<"List">> :> [ColumnOf("list") EXCEPT !.scalar = FALSE]),
   relations |-> "Author" :> Relation("Author", Author, TRUE) @@ "Tags" :> Relation("Tags", Tag, FALSE),
   keyed |-> TRUE, plain |-> TRUE]

Plain(members, relations, keyed) ==
  [visible |-> members, columns |-> <<"Name">> :> ColumnOf("name"), relations |-> relations,
   keyed |-> keyed, plain |-> TRUE]

Schema(post, keyed) ==
  Post :> post
  @@ Author :> Plain({Field("Name", <<"Name">>, <<115>>), Struct("Home", Tag)}, [r \in {} |-> {}], keyed)
  @@ Tag :> Plain({Field("Name", <<"Name">>, <<115>>)}, [r \in {} |-> {}], TRUE)
  @@ Entity :> Plain({Field("Id", <<"Id">>, <<75>>), Field("Title", <<"Title">>, <<75>>)}, [r \in {} |-> {}], FALSE)
  @@ NoType :> Plain({}, [r \in {} |-> {}], FALSE)

Model(post, keyed, configured) == [types |-> Schema(post, keyed), entity |-> Post, configured |-> configured]

Usual == Posts(<<115>>, <<931>>, Excluded)
Mapping(path) == Model(Usual, TRUE, <<75>> :> <<"Title">> @@ <<115>> :> path)

\* The entity's own column shadows an association that it embeds.
Shadowing ==
  [Usual EXCEPT !.visible = {f \in @ : f.name # "Author"} \cup {Field("Author", <<"Author">>, <<45>>)},
                !.columns = @ @@ <<"Author">> :> ColumnOf("author"),
                !.relations["Author"].index = <<"Entity", "Author">>]

Automatics ==
  {Model(p, TRUE, Nil) : p \in
    {Usual, Shadowing, Posts(<<383>>, <<228>>, <<75>>), Posts(<<8490>>, <<931>>, Excluded), Posts(<<962>>, <<963>>, Excluded),
     Posts(<<115>>, Excluded, Excluded), [Usual EXCEPT !.columns[<<"Title">>].plain = FALSE],
     [Usual EXCEPT !.plain = FALSE]}}

\* One relation, an embedded field, and paths that lead to no column.
Explicits ==
  {Mapping(path) : path \in {<<"Author", "Name">>, <<"Entity", "Id">>, <<"Entity", "Title">>, <<"Id">>, <<"Author">>, <<"Tags", "Name">>,
                             <<"Author", "Home", "Name">>, <<"secret">>, <<"List">>, <<"Missing">>, <<>>}}
  \cup {Model(Usual, FALSE, <<75>> :> <<"Title">> @@ <<115>> :> <<"Author", "Name">>),
        Model(Shadowing, TRUE, <<115>> :> <<"Author">>), Model(Shadowing, TRUE, <<115>> :> <<"Author", "Name">>),
        Model(Usual, TRUE, [public \in {} |-> <<>>]),
        Model(Usual, TRUE, <<75>> :> <<"Title">> @@ <<8490>> :> <<"Note">>),
        Model(Usual, TRUE, <<107, 115>> :> <<"Title">> @@ <<75, 383>> :> <<"Note">>),
        Model(Usual, TRUE, <<115, 45>> :> <<"Title">> @@ <<45, 115>> :> <<"Author", "Name">>)}

MCModels == Automatics \cup Explicits

\* JsonFilters
Empty == [type |-> "", field |-> <<>>, value |-> None, fields |-> <<>>]
Eq(name, value) == [Empty EXCEPT !.type = "eq", !.field = name, !.value = value]
Over(type, children) == [Empty EXCEPT !.type = type, !.fields = children]

Title == Eq(<<107>>, 1)
AuthorName == Eq(<<383>>, 2)
Roots == {Empty, Title, AuthorName, Over("not", <<AuthorName>>),
          Over("or", <<AuthorName, Over("and", <<Title, AuthorName>>)>>),
          Over("and", <<>>), Over("and", <<Title, Empty>>), Over("not", <<Title, AuthorName>>),
          [Title EXCEPT !.fields = <<AuthorName>>], [Over("or", <<Title>>) EXCEPT !.field = <<107>>],
          [Empty EXCEPT !.value = 1], Eq(<<228>>, 1), Eq(<<>>, 1), [Title EXCEPT !.type = "unknown"]}
MCFilters == Roots \cup {Over("and", <<Title, AuthorName>>)}

Key(name, direction) == [field |-> name, direction |-> direction]
Orders == {<<>>, <<Key(<<83>>, "desc")>>, <<Key(<<75>>, ""), Key(<<115>>, "asc")>>,
           <<Key(<<115>>, ""), Key(<<383>>, "desc")>>, <<Key(<<45>>, "")>>, <<Key(<<107>>, "upwards")>>}

Pages == {<<0, 0>>, <<1, 0>>, <<2, 1>>, <<0, 1>>, <<-1, 0>>, <<1, -1>>, <<1, 3>>}

Alice == [relation |-> "Author", column |-> "name", value |-> 2]
Sort == <<[field |-> [relation |-> Base, column |-> "title"], direction |-> "desc"]>>
Trusted == {<<{}, {}, <<>>>>, <<{Alice}, {}, <<>>>>, <<{}, {Alice}, <<>>>>, <<{}, {}, Sort>>}

Request(filter, order, p, owners, t) ==
  [filter |-> filter, orderBy |-> order, limit |-> p[1], offset |-> p[2], owners |-> owners,
   joins |-> t[1], modifiers |-> t[2], sorts |-> t[3]]

MCRequests ==
  {Request(f, o, p, {"mine", "theirs"}, t) : f \in Roots, o \in Orders, p \in {<<2, 1>>}, t \in Trusted}
  \cup {Request(f, <<>>, p, {"mine"}, t) : f \in {Empty, AuthorName}, p \in Pages, t \in Trusted}

\* Three posts, one of them without an author, two with the same title.
Row(id, title, author, owner, deleted) ==
  [columns |-> [id |-> id, title |-> title, note |-> Null, author |-> id], links |-> [Author |-> author], owner |-> owner,
   deleted |-> deleted]
Authors == [Author |-> ("alice" :> [name |-> 2] @@ "bob" :> [name |-> 1])]

MCDatabases ==
  {[rows |-> <<Row(1, 1, "alice", "mine", FALSE), Row(2, 1, "bob", "theirs", d), Row(3, n, IF n = 2 THEN "alice" ELSE None, "mine", FALSE)>>,
    related |-> Authors] : d \in BOOLEAN, n \in {Null, 2}}
====
