---- MODULE ListPlan ----
(***************************************************************************)
(* One list request after the other on a resource: validation, resolution  *)
(* of the public filter and ordering, the plan, and the statements for the *)
(* rows and for the count.  SQLR and the database are external: they       *)
(* execute a statement on tables that stay as they are.                    *)
(***************************************************************************)
EXTENDS QueryFields

CONSTANTS Filters,      \* the JsonFilters that requests hold, and all their children
          Requests,
          Databases,
          SoftDelete,   \* there is a DeleteScope
          None          \* nothing yet, or no row

VARIABLES db, request, phase, plan
\* the statements that were executed, and what they answered
VARIABLES queried, counted, page, total

listVars == <<request, phase, plan, queried, counted, page, total>>
vars == <<fieldVars, db, listVars>>

\* joins, modifiers: the relations that the trusted ApplyFilters and
\* ApplyQueryModifiers of the input join explicitly, each with a value that a
\* column of the related row must have.  sorts: the ordering of the latter.
JoinSet == [relation : STRING, column : STRING, value : Nat]
RequestSet == [filter : Filters, orderBy : Seq([field : Asked, direction : STRING]),
               limit : Int, offset : Int, owners : SUBSET STRING,
               joins : SUBSET JoinSet, modifiers : SUBSET JoinSet,
               sorts : Seq([field : [relation : {Base}, column : STRING], direction : {"asc", "desc"}])]

Leaf(filter) == filter.type \notin {"", "and", "or", "not"}

ASSUME RequestAssumption == Requests \subseteq RequestSet /\ SoftDelete \in BOOLEAN

\* A filter is decoded from a JSON text: below it nothing goes on for ever.
ASSUME FilterAssumption ==
  /\ \A f \in Filters : f.field \in Asked /\ f.fields \in Seq(Filters)
  /\ \A S \in SUBSET Filters : S # {} => \E f \in S : \A i \in DOMAIN f.fields : f.fields[i] \notin S

\* Values are numbered in their order, and NULL is the least of them.
Null == 0

Init ==
  /\ FieldsInit /\ db \in Databases
  /\ request = None /\ phase = "idle" /\ plan = None
  /\ queried = None /\ counted = None /\ page = None /\ total = None

----
(* resolve                                                                 *)

ValidDirection(direction) == direction \in {"", "asc", "desc"}

\* The expressions that SQLC builds: external.
Expressible(filter) ==
  CASE filter.type \in {"and", "or"} -> filter.fields # <<>>
    [] filter.type = "not" -> Len(filter.fields) = 1
    [] OTHER -> filter.type \in {"", "eq"}

EmptyFilter(filter) == filter.field = <<>> /\ filter.fields = <<>> /\ filter.value = None

\* convertFilter and ToExpression succeed.
Converts[f \in Filters] ==
  /\ Expressible(f)
  /\ CASE f.type = "" -> EmptyFilter(f)
       [] Leaf(f) -> f.fields = <<>> /\ Known(f.field)
       [] OTHER -> /\ f.field = <<>>
                   /\ \A i \in DOMAIN f.fields : f.fields[i].type # "" /\ Converts[f.fields[i]]

\* appendUniqueQueryJoin, and no join for a base column.
AppendUnique(joins, relation) ==
  IF relation = Base \/ relation \in Range(joins) THEN joins ELSE Append(joins, relation)

AppendAll(joins, relations) == FoldLeft(AppendUnique, joins, relations)

\* The relations of the converted filter's fields, each once, in their order.
FilterJoins[f \in Filters] ==
  IF f.type = "" THEN <<>>
  ELSE IF Leaf(f) THEN AppendUnique(<<>>, Resolved(f.field).relation)
  ELSE FoldLeft(AppendAll, <<>>, [i \in DOMAIN f.fields |-> FilterJoins[f.fields[i]]])

\* Mutant: an order key joins its relation again.
OrderJoinsAgain(orderBy, filterJoins) ==
  FoldLeft(LAMBDA joins, key : AppendUnique(joins, Resolved(key.field).relation), <<>>, orderBy)

\* The relations that only the ordering needs.
OrderJoins(orderBy, filterJoins) ==
  FoldLeft(LAMBDA joins, key :
             IF Resolved(key.field).relation \in Range(filterJoins) THEN joins
             ELSE AppendUnique(joins, Resolved(key.field).relation), <<>>, orderBy)

Direction(direction) == IF direction = "" THEN "asc" ELSE direction

Resolution(r) ==
  LET filterJoins == FilterJoins[r.filter]
  IN [filterJoins |-> filterJoins, orderJoins |-> OrderJoins(r.orderBy, filterJoins),
      order |-> [i \in DOMAIN r.orderBy |->
                   [field |-> Resolved(r.orderBy[i].field), direction |-> Direction(r.orderBy[i].direction)]]]

Resolves(r) ==
  /\ Converts[r.filter]
  /\ \A i \in DOMAIN r.orderBy : Known(r.orderBy[i].field) /\ ValidDirection(r.orderBy[i].direction)

\* Mutant: an offset without a limit is let through.
SignedPage(r) == r.limit >= 0 /\ r.offset >= 0

\* ValidatePagination
ValidPage(r) == r.limit >= 0 /\ r.offset >= 0 /\ (r.offset > 0 => r.limit > 0)

\* ValidateQueryModifiers
ValidModifiers(r) == \A i \in DOMAIN r.orderBy : ValidDirection(r.orderBy[i].direction)

----
(* The plan's parts, on SQLR's builder                                     *)

\* defaults: DefaultJoin with LEFT.  explicit: the trusted INNER joins, which
\* replace the default join of their relation.  filter: of the request, its
\* names standing for the columns they resolved to.
Builder == [live |-> FALSE, owners |-> {}, filter |-> None, explicit |-> {}, defaults |-> <<>>,
            order |-> <<>>, limit |-> 0, offset |-> 0]

\* DeleteScope, the force filters, the public filter, the trusted filters.
ApplyScope(qb) ==
  [qb EXCEPT !.live = SoftDelete, !.owners = request.owners, !.filter = request.filter,
             !.defaults = @ \o plan.filterJoins, !.explicit = @ \cup request.joins]

\* Mutant: the trusted modifiers run after the request's ordering.
TrustedLast(qb) ==
  [qb EXCEPT !.explicit = @ \cup request.modifiers, !.defaults = @ \o plan.orderJoins,
             !.order = IF request.sorts = <<>> THEN plan.order ELSE request.sorts]

\* The trusted modifiers, then the request's ordering, which replaces theirs.
ApplyQueryModifiers(qb) ==
  [qb EXCEPT !.explicit = @ \cup request.modifiers, !.defaults = @ \o plan.orderJoins,
             !.order = IF plan.order = <<>> THEN request.sorts ELSE plan.order]

ApplyPagination(qb) ==
  [qb EXCEPT !.limit = IF request.limit > 0 THEN request.limit ELSE @,
             !.offset = IF request.offset > 0 THEN request.offset ELSE @]

QueryStatement == ApplyPagination(ApplyQueryModifiers(ApplyScope(Builder)))

\* Mutant: the count runs with the row modifiers.
CountOfRows == ApplyQueryModifiers(ApplyScope(Builder))

CountStatement == ApplyScope(Builder)

----
(* The database d: external                                                *)

\* The related row, if the relation has one.
Related(d, key, relation) ==
  LET id == d.rows[key].links[relation] IN IF id = None THEN None ELSE d.related[relation][id]

Column(d, key, field) ==
  IF field.relation = Base THEN d.rows[key].columns[field.column]
  ELSE LET row == Related(d, key, field.relation) IN IF row = None THEN Null ELSE row[field.column]

\* Values of the columns that fields and trusted sorts lead to are numbered.
ASSUME DatabaseAssumption ==
  \A d \in Databases :
    /\ IsFiniteSet(DOMAIN d.rows)
    /\ \A key \in DOMAIN d.rows :
         /\ \A m \in Models : \A e \in DeclaredBy(m) : e.field # Unmapped => Column(d, key, e.field) \in Nat
         /\ \A r \in Requests : \A i \in DOMAIN r.sorts : Column(d, key, r.sorts[i].field) \in Nat

\* SQL's three truth values: 0 false, 1 unknown, 2 true.
Lowest(S) == CHOOSE x \in S : \A y \in S : x <= y
Highest(S) == CHOOSE x \in S : \A y \in S : y <= x
Compare(value, with) == IF value = Null THEN 1 ELSE IF value = with THEN 2 ELSE 0

\* The truth of a filter whose names have the given values.
Truth(filter, values) ==
  LET truth[f \in Filters] ==
        LET children == {truth[f.fields[i]] : i \in DOMAIN f.fields}
        IN CASE f.type = "" -> 2
             [] f.type = "and" -> Lowest(children)
             [] f.type = "or" -> Highest(children)
             [] f.type = "not" -> 2 - Lowest(children)
             [] OTHER -> Compare(values[f.field], f.value)
  IN truth[filter]

Scoped(d, key, live, owners) ==
  ~(live /\ d.rows[key].deleted) /\ d.rows[key].owner \in owners

Joined(d, key, joins) ==
  \A j \in joins : Related(d, key, j.relation) # None /\ Related(d, key, j.relation)[j.column] = j.value

\* The rows that pass, the filter's names standing for the fields of naming.
Rows(d, live, owners, joins, filter, naming) ==
  {key \in DOMAIN d.rows :
     /\ Scoped(d, key, live, owners) /\ Joined(d, key, joins)
     /\ Truth(filter, [name \in DOMAIN naming |-> Column(d, key, naming[name])]) = 2}

Selected(st) ==
  Rows(db, st.live, st.owners, st.explicit, st.filter, [name \in {n \in Asked : Known(n)} |-> Resolved(name)])

\* a comes before b: by the first key in which they differ.
Before(d, a, b, order) ==
  \E i \in DOMAIN order :
    /\ \A j \in 1..(i - 1) : Column(d, a, order[j].field) = Column(d, b, order[j].field)
    /\ IF order[i].direction = "asc" THEN Column(d, a, order[i].field) < Column(d, b, order[i].field)
       ELSE Column(d, b, order[i].field) < Column(d, a, order[i].field)

\* Rows that no key tells apart come in any order.
Listings(st) ==
  {s \in SetToSeqs(Selected(st)) : \A i, j \in DOMAIN s : i < j => ~Before(db, s[j], s[i], st.order)}

Slice(s, limit, offset) ==
  SubSeq(s, offset + 1, IF limit = 0 \/ offset + limit > Len(s) THEN Len(s) ELSE offset + limit)

----
(* list                                                                    *)

Receives ==
  /\ fieldStatus = "serving" /\ phase = "idle"
  /\ request' \in Requests /\ phase' = "received"
  /\ UNCHANGED <<fieldVars, db, plan, queried, counted, page, total>>

Valid == ValidPage(request) /\ ValidModifiers(request) /\ Resolves(request)

Refused ==
  /\ phase = "received" /\ ~Valid
  /\ phase' = "refused"
  /\ UNCHANGED <<fieldVars, db, request, plan, queried, counted, page, total>>

Plans ==
  /\ phase = "received" /\ Valid
  /\ plan' = Resolution(request) /\ phase' = "planned"
  /\ UNCHANGED <<fieldVars, db, request, queried, counted, page, total>>

\* The default query, or a custom one that keeps to the documented order.
Query ==
  /\ phase = "planned"
  /\ queried' = QueryStatement /\ phase' = "queried"
  /\ \E s \in Listings(QueryStatement) : page' = Slice(s, queried'.limit, queried'.offset)
  /\ UNCHANGED <<fieldVars, db, request, plan, counted, total>>

Count ==
  /\ phase = "queried"
  /\ counted' = CountStatement /\ phase' = "counted"
  /\ total' = Cardinality(Selected(CountStatement))
  /\ UNCHANGED <<fieldVars, db, request, plan, queried, page>>

Answers ==
  /\ phase = "counted" /\ phase' = "answered"
  /\ UNCHANGED <<fieldVars, db, request, plan, queried, counted, page, total>>

\* The trusted filters, which run for both statements, a statement, or an output
\* mapper fails.
Fails ==
  /\ phase \in {"planned", "queried", "counted"} /\ phase' = "failed"
  /\ UNCHANGED <<fieldVars, db, request, plan, queried, counted, page, total>>

Returns ==
  /\ phase \in {"refused", "answered", "failed"}
  /\ request' = None /\ phase' = "idle" /\ plan' = None
  /\ queried' = None /\ counted' = None /\ page' = None /\ total' = None
  /\ UNCHANGED <<fieldVars, db>>

List == Receives \/ Refused \/ Plans \/ Query \/ Count \/ Answers \/ Fails \/ Returns

Next == (FieldsNext /\ UNCHANGED <<db, listVars>>) \/ List

Spec == Init /\ [][Next]_vars

----
(* What a request means, in terms of public names only                     *)

Declares(name) == \E e \in Declared : EqualFold(e.name, name)

\* The fields that the asked names of a set of declarations mean.
MeaningsIn(declared) ==
  [name \in {n \in Asked : \E e \in declared : EqualFold(e.name, n)} |->
     (CHOOSE e \in declared : EqualFold(e.name, name)).field]
Meaning(name) == MeaningsIn(Declared)[name]

\* A filter and all that is below it.
Nodes[f \in Filters] == {f} \cup UNION {Nodes[f.fields[i]] : i \in DOMAIN f.fields}

WellFormed(filter) ==
  \/ filter.type = "" /\ EmptyFilter(filter)
  \/ \A f \in Nodes[filter] :
       \/ f.type = "eq" /\ f.fields = <<>> /\ Declares(f.field)
       \/ f.type \in {"and", "or"} /\ f.field = <<>> /\ f.fields # <<>>
       \/ f.type = "not" /\ f.field = <<>> /\ Len(f.fields) = 1

Admissible(r) ==
  /\ WellFormed(r.filter)
  /\ \A i \in DOMAIN r.orderBy : Declares(r.orderBy[i].field) /\ r.orderBy[i].direction \in {"", "asc", "desc"}
  /\ (r.limit > 0 /\ r.offset >= 0) \/ (r.limit = 0 /\ r.offset = 0)

\* The rows that the request is about.
Matches == Rows(db, SoftDelete, request.owners, request.joins, request.filter, MeaningsIn(Declared))

Ordering ==
  IF request.orderBy = <<>> THEN request.sorts
  ELSE [i \in DOMAIN request.orderBy |->
          [field |-> Meaning(request.orderBy[i].field),
           direction |-> IF request.orderBy[i].direction = "desc" THEN "desc" ELSE "asc"]]

(* A request with an unknown name, a malformed filter, a direction or a    *)
(* page that is not valid is refused before any statement, and no other    *)
(* request is.  (doc.go:84-87)                                             *)
RefusedBeforeStatements ==
  /\ phase = "refused" => (~Admissible(request) /\ queried = None /\ counted = None)
  /\ phase \in {"planned", "queried", "counted", "answered"} => Admissible(request)

\* The relations of the columns that a statement uses.
Needs(st) ==
  {Meaning(f.field).relation : f \in {g \in Nodes[st.filter] : Leaf(g)}}
  \cup {st.order[i].field.relation : i \in DOMAIN st.order}

(* Every relation that a statement filters or sorts by is joined, none is  *)
(* joined twice, and the count joins nothing for the ordering's sake.      *)
(* (doc.go:92-95)                                                          *)
StatementsWellFormed ==
  \A st \in {queried, counted} \ {None} :
    /\ Needs(st) \ {Base} \subseteq Range(st.defaults) \cup {j.relation : j \in st.explicit}
    /\ \A i, j \in DOMAIN st.defaults : st.defaults[i] = st.defaults[j] => i = j
    /\ Range(st.defaults) \subseteq Needs(st)

(* The total of an answer is the number of all matching rows, whatever the *)
(* ordering, the page and the row modifiers are.  (doc.go:60-62, 94-95)    *)
TotalCountsMatches == phase = "answered" => total = Cardinality(Matches)

(* An answer holds a page, of the size asked for, of the matching rows in  *)
(* the order asked for: a row stands where as many rows may come before it *)
(* as the page and the offset leave room for.  (doc.go:57-60, 83-95)       *)
PageAnswersRequest ==
  phase = "answered" =>
    LET rows == {k \in Matches : Joined(db, k, request.modifiers)}
        rest == Cardinality(rows) - request.offset
    IN /\ Range(page) \subseteq rows /\ \A i, j \in DOMAIN page : page[i] = page[j] => i = j
       /\ Len(page) = IF rest <= 0 THEN 0 ELSE IF request.limit \in 1..rest THEN request.limit ELSE rest
       /\ \A i \in DOMAIN page :
            /\ Cardinality({k \in rows : Before(db, k, page[i], Ordering)}) < request.offset + i
            /\ Cardinality({k \in rows : ~Before(db, page[i], k, Ordering)}) >= request.offset + i
       /\ \A i, j \in DOMAIN page : i < j => ~Before(db, page[j], page[i], Ordering)
====
