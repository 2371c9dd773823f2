---- MODULE MCHandlerLifecycle ----
(***************************************************************************)
(* TLC instances of HandlerLifecycle: four types whose fields make cyclic, *)
(* repeated, embedded and shadowed associations, and definitions with      *)
(* something missing or replaced.                                          *)
(***************************************************************************)
EXTENDS HandlerLifecycle, TLC

CONSTANTS A, B, C, D, f, g, base

Plain(name, target, tag) == [name |-> name, embedded |-> FALSE, target |-> target, tag |-> tag]
Embedded(target) == [name |-> base, embedded |-> TRUE, target |-> target, tag |-> {}]
Layout(a, b, c, d, relations, columns) ==
  [fields |-> A :> a @@ B :> b @@ C :> c @@ D :> d, relations |-> relations, columns |-> columns]

\* An entity that refers to itself, and a cycle of three types.
Cyclic ==
  Layout(<<Plain(f, B, {"preload:read", "sync:update"}), Plain(g, A, {"preload:query"})>>,
         <<Plain(f, A, {"preload:read"}), Plain(g, C, {"sync:update"})>>,
         <<Plain(f, B, {"sync:delete"})>>, <<>>,
         {<<A, <<1>>>>, <<A, <<2>>>>, <<B, <<1>>>>, <<B, <<2>>>>, <<C, <<1>>>>}, {})

\* One type below two relations, the first of them not tagged.
Diamond ==
  Layout(<<Plain(f, B, {}), Plain(g, C, {"sync:update"})>>, <<Plain(f, D, {"preload:read"})>>,
         <<Plain(g, D, {"sync:create"})>>, <<Plain(f, A, {"preload:read"}), Plain(g, B, {"preload:update"})>>,
         {<<A, <<1>>>>, <<A, <<2>>>>, <<B, <<1>>>>, <<C, <<1>>>>, <<D, <<1>>>>, <<D, <<2>>>>}, {})

\* Two types that embed the same struct with an association and a column.
Embeds ==
  Layout(<<Embedded(D), Plain(g, B, {"preload:read"})>>, <<Embedded(D), Plain(g, C, {"sync:update"})>>, <<>>,
         <<Plain(f, B, {"sync:update"}), Plain(g, NoType, {"field"})>>,
         {<<A, <<1, 1>>>>, <<A, <<2>>>>, <<B, <<1, 1>>>>, <<B, <<2>>>>}, {<<A, <<1, 2>>>>, <<B, <<1, 2>>>>})

\* An association of the embedded struct that the entity's own field shadows.
Shadowed(tag) ==
  Layout(<<Embedded(D), Plain(f, B, {"sync:update"})>>, <<>>, <<Plain(g, B, {"unknown"})>>,
         <<Plain(f, C, tag)>>, {<<A, <<2>>>>, <<C, <<1>>>>, <<D, <<1>>>>}, {})

TaggedEmbedded == [Embeds EXCEPT !.fields[B][1].tag = {"preload:read"}]
UnknownBelow == [Diamond EXCEPT !.fields[D][2].tag = {"unknown"}]
MalformedBelow == [Cyclic EXCEPT !.fields[C][1].tag = {"malformed"}]
NoColumn == [Embeds EXCEPT !.columns = {<<A, <<1, 2>>>>}]
Unresolved == [Cyclic EXCEPT !.fields[C][1].target = NoType]

MCLayouts == {Cyclic, Diamond, Embeds, Shadowed({}), Shadowed({"preload:read"}), TaggedEmbedded,
              UnknownBelow, MalformedBelow, NoColumn, Unresolved}

Complete == [has |-> Mappers, custom |-> {}, sameId |-> TRUE, associations |-> {}, triggers |-> {},
             derivable |-> {<<f>>, <<g>>, <<f, g>>}]

MCDefinitions ==
  {[Complete EXCEPT !.has = Mappers \ {m}, !.custom = o] : m \in Mappers, o \in {{}, {"update"}, {"patch"}}}
  \cup {[Complete EXCEPT !.associations = {<<g>>}], [Complete EXCEPT !.triggers = {<<f>>}],
        [Complete EXCEPT !.derivable = {}],
        [Complete EXCEPT !.has = {}, !.custom = Ops \ {"delete"}],
        [Complete EXCEPT !.sameId = FALSE],
        [Complete EXCEPT !.sameId = FALSE, !.has = Mappers \cup {"Identity"}]}
====
