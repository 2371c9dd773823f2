---- MODULE CrudStore ----
(***************************************************************************)
(* The default operations of resource.go, run by concurrent requests       *)
(* through CrudHandler and TxRunner on one MySQL/InnoDB database: which    *)
(* rows a lookup may see and locks, what is written from what was read,    *)
(* and what of it the other requests can see and when.                     *)
(*                                                                         *)
(* One action is one SQL statement, or one mapper; the statements of one   *)
(* request interleave with everything the others do.                       *)
(***************************************************************************)
EXTENDS CrudData

CONSTANTS PoolSize, NoReply,
          Keep,           \* a write that leaves the association alone
          Free,           \* nobody holds the row lock
          MaxFaults,      \* bound: errors, panics and cancellations injected
          MaxOthers       \* bound: writes of other programs

ASSUME SentinelAssumption ==
  /\ Free \notin Calls /\ Keep \notin Marks \cup {Absent}
ASSUME BoundAssumption == MaxFaults \in Nat /\ MaxOthers \in Nat

\* the variables of TxRunner
VARIABLES pc, mode, tx, output, err, commitReturned, commits, rollbacks, reply
\* the database: rows and association rows as committed, the holder of each row
\* lock, the keys AUTO_INCREMENT has not given out, the uncommitted write of
\* each transaction, and the snapshot its plain reads use
VARIABLES rows, links, lock, fresh, pending, snap
\* the operation: its request, its next statement, the entity it looked up, the
\* association preloaded with it, and its result
VARIABLES req, stage, entity, loaded, result
\* the bounds used up
VARIABLES faults, others

txVars == <<pc, mode, tx, output, err, commitReturned, commits, rollbacks, reply>>
dbVars == <<rows, links, lock, fresh, pending, snap>>
opVars == <<req, stage, entity, loaded, result>>
vars == <<txVars, dbVars, opVars, faults, others>>

RowResults == [row : Rows \cup {Absent}]
ReadResults == [row : Rows, links : Marks \cup {Absent}]
Pages == UNION {[S -> Rows] : S \in SUBSET Keys}
ListResults == [page : Pages, total : Nat]
Results == RowResults \cup ReadResults \cup ListResults

\* newCrudHandler refuses a nil runner, and every operation is set.
Tx == INSTANCE TxRunner WITH Unconfigured <- {}, Values <- Results

----
Mutates(r) == r.op \in {"update", "patch", "delete", "deleteNoContent"}
EmptyPatch(r) == r.op = "patch" /\ r.names = {} /\ ~r.relink

NewRow(mark, o) == [fields |-> [f \in Fields |-> mark], owner |-> o, deleted |-> FALSE]

FirstStage(r) == CASE r.op = "create" -> "insert"
                   [] r.op = "list" -> "query"
                   [] OTHER -> "lookup"

\* The stages that are SQL statements; "output" is the output mapper.
Statements == {"insert", "lookup", "write", "query", "count"}

Init ==
  /\ Tx!Init
  /\ \E owner \in [Seeded -> Owners] :
       rows = [k \in Keys |-> IF k \in Seeded THEN NewRow(Base, owner[k]) ELSE Absent]
  /\ links = [k \in Keys |-> IF k \in Seeded THEN Base ELSE Absent]
  /\ lock = [k \in Keys |-> Free]
  /\ fresh = Keys \ Seeded
  /\ pending = [c \in Calls |-> None]
  /\ snap = [c \in Calls |-> None]
  /\ req \in [Calls -> Requests]
  /\ stage = [c \in Calls |-> FirstStage(req[c])]
  /\ entity = [c \in Calls |-> Absent]
  /\ loaded = [c \in Calls |-> Absent]
  /\ result = [c \in Calls |-> None]
  /\ faults = 0 /\ others = 0

\* c executes its next statement, in the operation, on a transaction that is
\* still open.
At(c, s) == pc[c] = "operation" /\ stage[c] = s
Executes(c, s) == At(c, s) /\ tx[c] = "open"

GoTo(c, s) == stage' = [stage EXCEPT ![c] = s]
Yields(c, r) == result' = [result EXCEPT ![c] = r]
CanLock(c, k) == lock[k] \in {Free, c}
Locks(c, k) == lock' = [lock EXCEPT ![k] = c]
Writes(c, k, row, assoc) ==
  pending' = [pending EXCEPT ![c] = [key |-> k, row |-> row, links |-> assoc]]

----
(* Create: repository.Create takes the next key; no force filter applies.  *)
Insert(c) ==
  /\ Executes(c, "insert") /\ fresh # {}
  /\ LET k == CHOOSE k \in fresh : TRUE IN
     /\ fresh' = fresh \ {k}
     /\ CanLock(c, k) /\ Locks(c, k)
     /\ \E o \in Owners : /\ Writes(c, k, NewRow(c, o), c)
                          /\ Yields(c, [row |-> NewRow(c, o)])
  /\ GoTo(c, "output")
  /\ UNCHANGED <<txVars, rows, links, snap, req, entity, loaded, faults, others>>

\* Mutants: one of the operations looks its row up without a lock.
PatchUnlocked(c) == req[c].op \in {"update", "delete", "deleteNoContent"}
ModifyUnlocked(c) == req[c].op \in {"delete", "deleteNoContent"}
DeleteUnlocked(c) == req[c].op \in {"update", "patch"}

(* The scoped identity lookup.  Update, Patch and Delete add FOR UPDATE:   *)
(* they wait for the row lock and then see the newest committed row.       *)
ForUpdate(c) == Mutates(req[c])

LookupHits(c) ==
  LET k == req[c].id IN
  /\ Executes(c, "lookup")
  /\ Visible(rows[k], req[c].scope)
  /\ IF ForUpdate(c) THEN CanLock(c, k) /\ Locks(c, k) ELSE UNCHANGED lock
  /\ entity' = [entity EXCEPT ![c] = rows[k]]
  /\ loaded' = [loaded EXCEPT ![c] = links[k]]
  /\ IF req[c].op = "read" THEN Yields(c, [row |-> rows[k], links |-> links[k]])
     ELSE IF EmptyPatch(req[c]) THEN Yields(c, [row |-> rows[k]])
     ELSE UNCHANGED result
  /\ GoTo(c, IF req[c].op = "read" \/ EmptyPatch(req[c]) THEN "output" ELSE "write")
  /\ UNCHANGED <<txVars, rows, links, fresh, pending, snap, req, faults, others>>

\* Mutant: the lookup is repeated until the row shows up.
LookupRepeats(c) ==
  /\ Executes(c, "lookup") /\ ~Visible(rows[req[c].id], req[c].scope)
  /\ UNCHANGED vars

\* No row in scope: sqlr.ErrNotFound ends the operation.  InnoDB keeps the lock
\* of a row it has looked at until the transaction ends.
LookupMisses(c) ==
  LET k == req[c].id IN
  /\ Executes(c, "lookup")
  /\ ~Visible(rows[k], req[c].scope)
  /\ IF ForUpdate(c) /\ rows[k] # Absent THEN CanLock(c, k) /\ Locks(c, k)
     ELSE (ForUpdate(c) => CanLock(c, k)) /\ UNCHANGED lock
  /\ Yields(c, NotFound)
  /\ Tx!OperationFails(c, Zero)
  /\ UNCHANGED <<rows, links, fresh, pending, snap, req, stage, entity, loaded, faults, others>>

----
(* Update and Patch build the complete row from the looked-up entity and   *)
(* write all of it; what the request does not name is as it was looked up. *)
Merged(c) ==
  [entity[c] EXCEPT !.fields = [f \in Fields |-> IF f \in req[c].names THEN c ELSE entity[c].fields[f]]]

MergedLinks(c) == IF req[c].op = "update" \/ req[c].relink THEN c ELSE loaded[c]

\* Mutants: the automatic relations are not omitted; no relation is selected.
AutoSyncs(c) == TRUE
NeverSyncsPatch(c) == req[c].op = "update"

\* builderUpdateWrite synchronizes every relation tagged sync:update.
\* builderPatchWrite omits the automatic relations the document did not select.
SyncsLinks(c) == req[c].op = "update" \/ req[c].relink

ModifyWrites(c) ==
  LET k == req[c].id IN
  /\ Executes(c, "write") /\ req[c].op \in {"update", "patch"}
  /\ CanLock(c, k) /\ Locks(c, k)
  /\ Writes(c, k, Merged(c), IF SyncsLinks(c) THEN MergedLinks(c) ELSE Keep)
  /\ Yields(c, [row |-> Merged(c)])
  /\ GoTo(c, "output")
  /\ UNCHANGED <<txVars, rows, links, fresh, snap, req, entity, loaded, faults, others>>

\* Mutant: the tags sync:delete are not applied.
LinksOutliveRow == Keep

(* Delete: the DeleteStrategy (soft delete), or repository.Delete with the *)
(* relations tagged sync:delete.                                           *)
DeletedRow(c) == IF SoftDelete THEN [entity[c] EXCEPT !.deleted = TRUE] ELSE Absent
DeletedLinks == IF SoftDelete THEN Keep ELSE Absent

DeleteWrites(c) ==
  LET k == req[c].id IN
  /\ Executes(c, "write") /\ req[c].op = "delete"
  /\ CanLock(c, k) /\ Locks(c, k)
  /\ Writes(c, k, DeletedRow(c), DeletedLinks)
  /\ Yields(c, [row |-> entity[c]])
  /\ GoTo(c, "output")
  /\ UNCHANGED <<txVars, rows, links, fresh, snap, req, entity, loaded, faults, others>>

\* Mutant: the bare entity is returned for a result.
DeleteReturnsNothing(c) ==
  LET k == req[c].id IN
  /\ Executes(c, "write") /\ req[c].op = "deleteNoContent"
  /\ CanLock(c, k) /\ Locks(c, k)
  /\ Writes(c, k, DeletedRow(c), DeletedLinks)
  /\ Yields(c, Absent)
  /\ Tx!OperationReturns(c, Absent)
  /\ UNCHANGED <<rows, links, fresh, snap, req, stage, entity, loaded, faults, others>>

\* DeleteNoContent maps no output: the operation is over with the statement.
DeleteNoContentWrites(c) ==
  LET k == req[c].id IN
  /\ Executes(c, "write") /\ req[c].op = "deleteNoContent"
  /\ CanLock(c, k) /\ Locks(c, k)
  /\ Writes(c, k, DeletedRow(c), DeletedLinks)
  /\ Yields(c, [row |-> Absent])
  /\ Tx!OperationReturns(c, [row |-> Absent])
  /\ UNCHANGED <<rows, links, fresh, snap, req, stage, entity, loaded, faults, others>>

----
(* List: the row query, then the count, both in one transaction.           *)
\* Mutant: query and count run outside a common transaction.
ViewNow(c) == rows

\* BeginTx gets no TxOptions, so the server's default isolation applies: InnoDB's
\* REPEATABLE READ, where the plain reads of a transaction share the snapshot that
\* the first of them takes.
View(c) == IF snap[c] # None THEN snap[c] ELSE rows

Query(c) ==
  LET all == Matching(View(c), req[c].scope) IN
  /\ Executes(c, "query")
  /\ snap' = [snap EXCEPT ![c] = View(c)]
  /\ \E page \in SUBSET all :
       /\ Cardinality(page) = PageSize(req[c], Cardinality(all))
       /\ Yields(c, [page |-> [k \in page |-> View(c)[k]], total |-> 0])
  /\ GoTo(c, "count")
  /\ UNCHANGED <<txVars, rows, links, lock, fresh, pending, req, entity, loaded, faults, others>>

\* Mutant: the count forgets the scope of the query.
CountUnscoped(c) ==
  /\ Executes(c, "count")
  /\ Yields(c, [result[c] EXCEPT !.total = Cardinality({k \in Keys : View(c)[k] # Absent})])
  /\ GoTo(c, "output")
  /\ UNCHANGED <<txVars, dbVars, req, entity, loaded, faults, others>>

\* The count has the scope of the query, without its page.
Count(c) ==
  /\ Executes(c, "count")
  /\ Yields(c, [result[c] EXCEPT !.total = Cardinality(Matching(View(c), req[c].scope))])
  /\ GoTo(c, "output")
  /\ UNCHANGED <<txVars, dbVars, req, entity, loaded, faults, others>>

\* The output mapper succeeds and the operation returns its value.
Output(c) ==
  /\ At(c, "output")
  /\ Tx!OperationReturns(c, result[c])
  /\ UNCHANGED <<dbVars, opVars, faults, others>>

----
(* What else can happen in an operation.                                   *)
Fault == faults < MaxFaults /\ faults' = faults + 1

\* A check of the input, a mapper, the repository or the database reports an
\* error; a lock wait timeout or a deadlock victim is one.
OperationFails(c) ==
  /\ Fault /\ Tx!OperationFails(c, Zero)
  /\ UNCHANGED <<dbVars, opVars, others>>

OperationAborts(c) ==
  /\ Fault /\ \E how \in {"panicking", "exiting"} : Tx!OperationAborts(c, how)
  /\ UNCHANGED <<dbVars, opVars, others>>

\* database/sql refuses statements on a transaction that is done.
StatementRefused(c) ==
  /\ stage[c] \in Statements /\ tx[c] # "open"
  /\ Tx!OperationFails(c, Zero)
  /\ UNCHANGED <<dbVars, opVars, faults, others>>

----
(* The transaction's end, in the database.                                 *)
Unlocked(c) == [k \in Keys |-> IF lock[k] = c THEN Free ELSE lock[k]]

\* The pending write becomes visible to the others and the locks are released.
Installs(c) ==
  LET w == pending[c] IN
  /\ lock' = Unlocked(c)
  /\ pending' = [pending EXCEPT ![c] = None]
  /\ rows' = IF w = None THEN rows ELSE [rows EXCEPT ![w.key] = w.row]
  /\ links' = IF w = None \/ w.links = Keep THEN links ELSE [links EXCEPT ![w.key] = w.links]
  /\ UNCHANGED <<fresh, snap>>

Discards(c) ==
  /\ lock' = Unlocked(c)
  /\ pending' = [pending EXCEPT ![c] = None]
  /\ UNCHANGED <<rows, links, fresh, snap>>

\* What a step of the transaction does to the data, given tx'.  A COMMIT that the
\* server has not decided keeps its locks.
Settles(c) ==
  \/ tx'[c] \in {tx[c], "orphaned", "committing"} /\ UNCHANGED dbVars
  \/ tx'[c] = "committed" /\ tx[c] \in {"open", "committing"} /\ Installs(c)
  \/ tx'[c] = "rolledback" /\ tx[c] # "rolledback" /\ Discards(c)

Begin(c) == Tx!Begin(c) /\ UNCHANGED <<dbVars, opVars, faults, others>>
BeginFails(c) == Fault /\ Tx!BeginFails(c) /\ UNCHANGED <<dbVars, opVars, others>>

CommitSucceeds(c) ==
  Tx!CommitSucceeds(c) /\ Settles(c) /\ UNCHANGED <<opVars, faults, others>>

\* A COMMIT may fail for no reason only within the bound; on a transaction that
\* is done it always fails.
CommitFails(c) ==
  /\ Tx!CommitFails(c) /\ Settles(c)
  /\ IF tx[c] = "open" THEN Fault ELSE UNCHANGED faults
  /\ UNCHANGED <<opVars, others>>
CommitPanics(c) == Fault /\ Tx!CommitPanics(c) /\ Settles(c) /\ UNCHANGED <<opVars, others>>

Rollback(c) == Tx!Rollback(c) /\ Settles(c) /\ UNCHANGED <<opVars, faults, others>>
RollbackFails(c) ==
  /\ Tx!RollbackFails(c) /\ Settles(c)
  /\ IF tx[c] = "open" THEN Fault ELSE UNCHANGED faults
  /\ UNCHANGED <<opVars, others>>

\* The steps of the call that concern neither the data nor the operation.
Returns(c) ==
  /\ Tx!NoRollback(c) \/ Tx!Return(c) \/ Tx!Exit(c)
  /\ UNCHANGED <<dbVars, opVars, faults, others>>

\* Mutant: the transaction does not follow the request's context.
ContextDetached(c) == FALSE

ContextDone(c) ==
  /\ Tx!ContextDone(c)
  /\ IF pc[c] = "exited" THEN UNCHANGED faults ELSE Fault
  /\ UNCHANGED <<dbVars, opVars, others>>
ServerEnds(c) ==
  Tx!ServerEnds(c) /\ Settles(c) /\ UNCHANGED <<opVars, faults, others>>

----
(* Writers that are not this handler.  An UPDATE of the row needs its lock; *)
(* association rows can be written without it.                             *)
OtherWrite == others < MaxOthers /\ others' = others + 1

OtherMoves(k) ==
  /\ OtherWrite /\ rows[k] # Absent /\ lock[k] = Free
  /\ \E o \in Owners \ {rows[k].owner} : rows' = [rows EXCEPT ![k].owner = o]
  /\ UNCHANGED <<txVars, links, lock, fresh, pending, snap, opVars, faults>>

OtherLinks(k) ==
  /\ OtherWrite /\ rows[k] # Absent /\ links[k] # Other
  /\ links' = [links EXCEPT ![k] = Other]
  /\ UNCHANGED <<txVars, rows, lock, fresh, pending, snap, opVars, faults>>

----
Statement(c) == \/ Insert(c) \/ LookupHits(c) \/ LookupMisses(c)
                \/ ModifyWrites(c) \/ DeleteWrites(c) \/ DeleteNoContentWrites(c)
                \/ Query(c) \/ Count(c)

Interrupted(c) == OperationFails(c) \/ OperationAborts(c)
Operation(c) == Statement(c) \/ Output(c) \/ StatementRefused(c) \/ Interrupted(c)

Finish(c) == CommitSucceeds(c) \/ CommitFails(c) \/ CommitPanics(c) \/ Rollback(c) \/ RollbackFails(c)

Step(c) == Begin(c) \/ BeginFails(c) \/ Operation(c) \/ Finish(c) \/ Returns(c)

Rest == (\A c \in Calls : Tx!Ended(c)) /\ UNCHANGED vars

Next == \/ \E c \in Calls : Step(c) \/ ContextDone(c) \/ ServerEnds(c)
        \/ \E k \in Keys : OtherMoves(k) \/ OtherLinks(k)
        \/ Rest

Spec == Init /\ [][Next]_vars

\* As for TxRunner: a request that waits for a connection or a row lock is served
\* in the end if it is free, and is not saved by an error or a cancellation.
Proceeds(c) == \/ Begin(c) \/ Statement(c) \/ Output(c) \/ StatementRefused(c)
               \/ Finish(c) \/ Returns(c)

Fairness == \A c \in Calls : /\ WF_vars(Proceeds(c))
                             /\ WF_vars(pc[c] = "exited" /\ ContextDone(c))
                             /\ WF_vars(ServerEnds(c))

FairSpec == Spec /\ Fairness

----
Pendings == [key : Keys, row : Rows \cup {Absent}, links : Marks \cup {Absent, Keep}]

ASSUME NoneAssumption == None \notin Pendings \cup Tables
ASSUME AnswerAssumption ==
  /\ {NotFound, Failed, Doubt} \cap Results = {} /\ Failed # Doubt
  /\ None \notin Results \cup {NotFound, Failed, Doubt}

TypeOK ==
  /\ Tx!TypeOK
  /\ rows \in Tables /\ links \in [Keys -> Marks \cup {Absent}]
  /\ lock \in [Keys -> Calls \cup {Free}] /\ fresh \subseteq Keys
  /\ pending \in [Calls -> Pendings \cup {None}]
  /\ snap \in [Calls -> Tables \cup {None}]
  /\ req \in [Calls -> Requests]
  /\ stage \in [Calls -> Statements \cup {"output"}]
  /\ entity \in [Calls -> Rows \cup {Absent}]
  /\ loaded \in [Calls -> Marks \cup {Absent}]
  /\ result \in [Calls -> Results \cup {None, NotFound}]
  /\ faults \in 0..MaxFaults /\ others \in 0..MaxOthers

\* The transaction holds its locks and can still be committed.
Holds(c) == tx[c] \in {"open", "committing"}

\* From its lookup to its commit, be it late, an update, patch or delete works on the row as
\* it is in the database, whatever the other requests and programs do: the
\* FOR UPDATE of builderForUpdate is on every lookup that is followed by a write.
EntityFresh ==
  \A c \in Calls :
    Mutates(req[c]) /\ entity[c] # Absent /\ Holds(c)
      => /\ lock[req[c].id] = c
         /\ rows[req[c].id] = entity[c]

\* The step makes the transaction of c visible.
Commits(c) == tx[c] # "committed" /\ tx'[c] = "committed"

\* No lost update (handlers_crud.go:120-122, "Fields omitted from the request
\* retain their current values"): PUT and PATCH write the complete row, yet what
\* another request committed to the other columns survives.
OmittedFieldsSurvive ==
  [][\A c \in Calls :
       Commits(c) /\ req[c].op \in {"update", "patch"}
         => LET old == rows[req[c].id]
                new == rows'[req[c].id]
            IN /\ new # Absent
               /\ new.owner = old.owner /\ new.deleted = old.deleted
               /\ \A f \in Fields \ req[c].names : new.fields[f] = old.fields[f]]_vars

\* doc.go:132-133, "An omitted association is not synchronized merely because it
\* exists in the complete update input": a PATCH without the association does
\* not write the preloaded one back over what somebody else made of it.
OmittedAssociationSurvives ==
  [][\A c \in Calls :
       Commits(c) /\ req[c].op = "patch" /\ ~req[c].relink => links' = links]_vars

\* A request writes no row that is out of its force filters or deleted at the
\* moment of the commit, though both were checked several statements earlier.
WritesStayInScope ==
  [][\A c \in Calls :
       Commits(c) /\ Mutates(req[c]) /\ result[c] # NotFound
         => /\ Visible(rows[req[c].id], req[c].scope)
            /\ \A k \in Keys \ {req[c].id} : rows'[k] = rows[k]]_vars

\* Only a create makes a row appear: a late update does not bring a deleted row
\* back, neither physically nor by clearing its flag.
DeletedStaysDeleted ==
  [][\A k \in Keys :
       /\ rows[k] = Absent /\ rows'[k] # Absent
            => \E c \in Calls : req[c].op = "create" /\ Commits(c)
       /\ rows[k] # Absent /\ rows[k].deleted => rows'[k] # Absent /\ rows'[k].deleted]_vars

\* Of several deletes of one row at most one is committed, however their lookups
\* and writes interleave (that the others are told "not found" is KeepsPromise).
DeletedOnce ==
  \A c, d \in Calls :
    /\ c # d /\ req[c].id = req[d].id
    /\ {req[c].op, req[d].op} \subseteq {"delete", "deleteNoContent"}
    => ~(tx[c] = "committed" /\ tx[d] = "committed")

\* doc.go:60-61, "Default query and count paths share user filters, force
\* filters, and soft-delete scope": an answered list never contradicts its
\* total, although query and count are two statements.
TotalMatchesPage ==
  \A c \in Calls :
    req[c].op = "list" /\ Tx!Answered(c, "value")
      => LET n == Cardinality(DOMAIN reply[c].value.page) IN
         n = PageSize(req[c], reply[c].value.total)

\* Every request ends, whatever locks and connections it has to wait for.
EveryCallEnds == \A c \in Calls : <>Tx!Ended(c)

\* No row stays locked: every path of the runner gives the locks back.
LocksAreReleased == \A k \in Keys : []<>(lock[k] = Free)

----
\* The moment at which a request acts in the sense of AtomicCrud: a not-found at
\* its lookup, a write at its commit, a read or a list when its snapshot is taken.
Outcome(c) ==
  IF result[c] = NotFound THEN NotFound
  ELSE IF tx[c] = "committed" THEN result[c]
  ELSE IF req[c].op = "read" THEN result[c]
  ELSE IF req[c].op = "list" /\ snap[c] # None
       THEN [result[c] EXCEPT !.total = Cardinality(Matching(snap[c], req[c].scope))]
  ELSE None

AnswerOf(c) ==
  IF reply[c] = NoReply THEN None
  ELSE IF reply[c].kind = "value" THEN reply[c].value
  ELSE IF reply[c].kind = "error" /\ result[c] = NotFound THEN NotFound
  ELSE IF commits[c] # 0 THEN Doubt
  ELSE Failed

Promise == INSTANCE AtomicCrud WITH outcome <- [c \in Calls |-> Outcome(c)],
                                    answer <- [c \in Calls |-> AnswerOf(c)]

\* The handler keeps the promise of AtomicCrud: the requests are serializable,
\* in an order that respects the moments at which they were answered, and one
\* that is answered a plain failure has changed nothing and never will.
KeepsPromise == Promise!Spec

====
