---- MODULE AtomicCrud ----
(***************************************************************************)
(* What the users of a CrudHandler may rely on (doc.go, handlers_crud.go): *)
(* every request acts on the resource in one indivisible step, at some     *)
(* moment before its answer.  A request that fails has changed nothing and *)
(* never will, except that a failed Commit leaves its caller in doubt.     *)
(* CrudStore is shown to implement it.                                     *)
(***************************************************************************)
EXTENDS CrudData

VARIABLES rows,    \* the entities
          links,   \* links[k]: who last wrote the association of k
          req,     \* the request of each call
          outcome, \* what the request did and found, None until it has acted
          answer   \* what its caller got, None until then

vars == <<rows, links, req, outcome, answer>>

NewRow(mark, o) == [fields |-> [f \in Fields |-> mark], owner |-> o, deleted |-> FALSE]

Init ==
  /\ \E owner \in [Seeded -> Owners] :
       rows = [k \in Keys |-> IF k \in Seeded THEN NewRow(Base, owner[k]) ELSE Absent]
  /\ links = [k \in Keys |-> IF k \in Seeded THEN Base ELSE Absent]
  /\ req \in [Calls -> Requests]
  /\ outcome = [c \in Calls |-> None]
  /\ answer = [c \in Calls |-> None]

Finds(c, o) == outcome' = [outcome EXCEPT ![c] = o]

Create(c) ==
  /\ req[c].op = "create"
  /\ \E k \in Keys, o \in Owners :
       /\ rows[k] = Absent
       /\ rows' = [rows EXCEPT ![k] = NewRow(c, o)]
       /\ links' = [links EXCEPT ![k] = c]
       /\ Finds(c, [row |-> NewRow(c, o)])

\* Update and Patch replace the fields they name in the row as it is, and
\* nothing else; Patch replaces the association only if it names it.
Modify(c) ==
  LET old == rows[req[c].id]
      new == [old EXCEPT !.fields = [f \in Fields |-> IF f \in req[c].names THEN c ELSE old.fields[f]]]
  IN /\ req[c].op \in {"update", "patch"}
     /\ Visible(old, req[c].scope)
     /\ rows' = [rows EXCEPT ![req[c].id] = new]
     /\ links' = IF req[c].op = "update" \/ req[c].relink
                 THEN [links EXCEPT ![req[c].id] = c] ELSE links
     /\ Finds(c, [row |-> new])

\* A deleted row is out of every later operation: it is deleted once.
Delete(c) ==
  LET old == rows[req[c].id] IN
  /\ req[c].op \in {"delete", "deleteNoContent"}
  /\ Visible(old, req[c].scope)
  /\ IF SoftDelete
     THEN rows' = [rows EXCEPT ![req[c].id].deleted = TRUE] /\ UNCHANGED links
     ELSE /\ rows' = [rows EXCEPT ![req[c].id] = Absent]
          /\ links' = [links EXCEPT ![req[c].id] = Absent]
  /\ Finds(c, [row |-> IF req[c].op = "delete" THEN old ELSE Absent])

Read(c) ==
  /\ req[c].op = "read"
  /\ Visible(rows[req[c].id], req[c].scope)
  /\ Finds(c, [row |-> rows[req[c].id], links |-> links[req[c].id]])
  /\ UNCHANGED <<rows, links>>

\* The page and the total describe one state of the table.
List(c) ==
  LET all == Matching(rows, req[c].scope) IN
  /\ req[c].op = "list"
  /\ \E page \in SUBSET all :
       /\ Cardinality(page) = PageSize(req[c], Cardinality(all))
       /\ Finds(c, [page |-> [k \in page |-> rows[k]], total |-> Cardinality(all)])
  /\ UNCHANGED <<rows, links>>

\* A row out of the request's scope looks like no row.
Miss(c) ==
  /\ req[c].op \notin {"create", "list"}
  /\ ~Visible(rows[req[c].id], req[c].scope)
  /\ Finds(c, NotFound)
  /\ UNCHANGED <<rows, links>>

\* Before the answer, or after one that left it open.
Act(c) == /\ answer[c] \in {None, Doubt} /\ outcome[c] = None
          /\ Create(c) \/ Modify(c) \/ Delete(c) \/ Read(c) \/ List(c) \/ Miss(c)
          /\ UNCHANGED <<req, answer>>

\* The request has written.
HasChanged(c) == outcome[c] \notin {None, NotFound} /\ req[c].op \notin {"read", "list"}

\* The caller gets the outcome, or a failure.
Answer(c) == /\ answer[c] = None
             /\ \E a \in {outcome[c], Failed, Doubt} \ {None} :
                  /\ a = Failed => ~HasChanged(c)
                  /\ answer' = [answer EXCEPT ![c] = a]
             /\ UNCHANGED <<rows, links, req, outcome>>

\* Writers that are not this handler: another handler or a job gives the row to
\* another owner, or rewrites its association.
OtherMoves(k) == /\ rows[k] # Absent
                 /\ \E o \in Owners : rows' = [rows EXCEPT ![k].owner = o]
                 /\ UNCHANGED <<links, req, outcome, answer>>
OtherLinks(k) == /\ rows[k] # Absent
                 /\ links' = [links EXCEPT ![k] = Other]
                 /\ UNCHANGED <<rows, req, outcome, answer>>

Next == \/ \E c \in Calls : Act(c) \/ Answer(c)
        \/ \E k \in Keys : OtherMoves(k) \/ OtherLinks(k)

Spec == Init /\ [][Next]_vars

====
