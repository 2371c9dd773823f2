---- MODULE CrudData ----
(***************************************************************************)
(* The data of one CRUD resource as the properties need it: rows with a    *)
(* few scalar fields, the owner that force filters restrict, a soft-delete *)
(* flag and one association, and the requests that reach the handler.      *)
(*                                                                         *)
(* Every write leaves the mark of its writer, so that two writes are never *)
(* mistaken for each other.                                                *)
(***************************************************************************)
EXTENDS Naturals, FiniteSets

CONSTANTS Calls,       \* the requests in flight
          Keys,        \* primary keys
          Seeded,      \* the keys that have a row at the start
          Fields,      \* scalar columns the update input maps
          Owners,      \* what a force filter compares, e.g. the tenant
          Requests,    \* the requests that may arrive
          SoftDelete,  \* a DeleteStrategy sets a flag, and a DeleteScope hides it
          Base,        \* the mark of the initial data
          Other,       \* the mark of writers that are not this handler
          Absent,      \* no row, or no association rows
          NotFound,    \* the answer for sqlr.ErrNotFound
          Failed,      \* the answer for any other error, and for a panic
          Doubt,       \* that answer when it was Commit that failed
          Zero,        \* the zero value of the output type
          None         \* not yet

Marks == Calls \cup {Base, Other}

Rows == [fields : [Fields -> Marks], owner : Owners, deleted : BOOLEAN]
Tables == [Keys -> Rows \cup {Absent}]

Ops == {"create", "read", "update", "patch", "delete", "deleteNoContent", "list"}

\* scope: the owners the force filters admit.  names: the scalar fields the
\* update input or the patch document holds.  relink: the document names the
\* association.  limit: the page size, 0 for none.
RequestSet == [op : Ops, id : Keys, scope : SUBSET Owners, names : SUBSET Fields,
               relink : BOOLEAN, limit : Nat]

ASSUME DataAssumption ==
  /\ IsFiniteSet(Calls) /\ IsFiniteSet(Keys)
  /\ Seeded \subseteq Keys
  /\ Requests \subseteq RequestSet
  /\ SoftDelete \in BOOLEAN
ASSUME MarksAssumption ==
  /\ Base \notin Calls /\ Other \notin Calls /\ Absent \notin Marks
  /\ Absent \notin Rows
  /\ None \notin Calls /\ None \notin Rows

\* The default lookup's scope: DeleteScope, then the force filters.
Visible(row, scope) ==
  /\ row # Absent
  /\ ~(SoftDelete /\ row.deleted)
  /\ row.owner \in scope

\* Rows on the first page of a listing of n rows.
PageSize(request, n) == IF request.limit \in 1..n THEN request.limit ELSE n

Matching(table, scope) == {k \in Keys : Visible(table[k], scope)}

====
