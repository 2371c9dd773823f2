# A TLA+ model of sqlh

sqlh is a Go library: it turns an entity, a few mappers and struct tags into typed
CRUD operations over a SQLR repository, each in one database transaction, and
registers them as HTTP routes.  This directory holds its specification: modules
translated from the code in `src/`, TLC configurations that check them on small
instances, and proofs that TLAPS checks for instances of any size.

    tlc -config CrudPairs.cfg MCCrudStore      # model-check one configuration
    tlapm CrudStoreProofs.tla                  # check the proofs of a module

`PROJECT.json` lists every run, the properties it checks, a mutation of the code that
each property catches, and the lines of code behind every definition.

## 1. Inventory of the system

| part | code | state it keeps | operations |
|---|---|---|---|
| transaction runner | `transaction.go` | per call: the transaction, `err`, `commitReturned`, RunValue's `output` | `Run`, `RunValue`, `InTransaction` |
| CRUD operations | `resource.go`, methods in `handlers_crud.go` | none between requests; per call: the looked-up entity and the mapped result; in the database: rows, association rows, row locks | create, read, update, patch, delete, delete without content, list |
| query builders | `builders.go` | copied tag paths | preloads, `FOR UPDATE`, relations to synchronize and to omit |
| JSON Merge Patch | `patch.go` | the document; per handler: patch path to relation, trigger to relation | `MergeInto`, selection, explicit clears |
| entity tags | `entity_tags.go` | while collecting: the types on the current path; then paths per phase, for good | parse, collect over embedded and related types |
| public query fields | `query_fields.go` | folded public name to column and relation, computed once | add (refuse collisions), resolve filter and order |
| filters and paging | `filters.go` | none | force filters, JSON filters, validation, limit and offset |
| handler lifecycle | `handlers_crud.go`, `options.go`, `newResource` | the operations; `closeOnce`, `closeErr` | construction, routes, `Close` |
| outside `src/` | SQLR, sqlc, `database/sql`, MySQL/InnoDB, json-patch, encoding/json, httpserver | pool, locks, snapshots | used by all of the above |

How they interact.  An HTTP request is one goroutine that calls a method of
`CrudHandler`.  The method hands one closure of `resource` to `TxRunner.RunValue`,
which calls it synchronously between `BeginTx` and `Commit`.  The closure calls
application callbacks (mappers, strategies) and the repository, which executes SQL on
the transaction.  Requests share no memory that changes: everything they do to one
another goes through the database (rows, row locks, snapshots) and the pool of
connections.  The request's context reaches `BeginTx`; when it is cancelled,
`database/sql` gives the transaction up under the running closure.

What is hard.  *Interleavings*: every write is read-map-write over several statements,
and PUT and PATCH write the complete row back.  *Failure*: an operation, `Commit` or
`Rollback` may return an error or panic, a `COMMIT` may succeed and its answer be
lost, and all of this runs through one deferred function with two flags.  *Resources*:
requests hold a connection while they wait for row locks.  *Values*: a PATCH must tell
an omitted field, `null`, an empty array and a zero value apart after a marshal, a
merge, a reset by reflection, a decode and a mapper that sees none of the difference.
*Names and graphs*: public names are compared under Unicode folding, Go paths meet
embedding and shadowing, relations form cycles; a mistake shows as a filter on another
column or a path that is missing.  *Construction and shutdown*: a handler is built in
ten steps that may each fail, and closed by whoever comes first.
Not hard here: there is no persistence in the process, no retry, no queue, no cache.

What makes each part correct: a value is answered only for a committed transaction, a
failure leaves nothing, nothing is finished twice and nothing leaks (runner); requests
are serializable, no update is lost, force filters and soft delete hold at the
moment of the write, a list agrees with its total (operations); omitted means kept,
null means reset or cleared, unselected associations are not written (patch); every
tagged path is found and every wrong tag refused (entity tags); a name means one
field in any spelling (query fields); a refused request has run nothing, a page is a
page of what was asked for, in that order, and its total counts all of it (lists); what
serves is completely configured, and is closed once, by all, with one answer (lifecycle).

## 2. The modules

    AtomicCall <--implements-- TxRunner <--instance-- CrudStore --implements--> AtomicCrud
                                   |                     |  \                      |
                             TxRunnerProofs       CrudStoreProofs  +---- CrudData -+
                                                         |
                                                  CrudOutcomeProofs
    PatchDocument  (the data of the default PATCH, without the database)
         |
    PatchDocumentProofs

    EntityTags  <--extends-- HandlerLifecycle         QueryFields  <--extends-- ListPlan
         |                          |                      |                       |
    EntityTagsProofs  <--  HandlerLifecycleProofs     QueryFieldsProofs  <--  ListPlanProofs

- `AtomicCall` - what a caller of `RunValue` may rely on: its effect happens at most
  once and as a whole, a value is answered only after it, and a failure only for a call
  that has none and never will.  A `Commit` without a good answer leaves the caller in
  doubt: the effect may be there, may come later or never.
- `TxRunner` - `Run` and `RunValue`.  `pc` is the position in the code; `err`,
  `output`, `commitReturned` are the variables of these names; `mode` tells a panic
  and `runtime.Goexit` from ordinary flow; `tx` is the transaction as the *server*
  sees it.  `Begin`/`BeginFails` are `BeginTx`, `Operation*` the closure,
  `Commit*` the call at line 103, `Rollback*`/`NoRollback` the deferred function,
  `Return`/`Exit` lines 128-135.  `ContextDone` is `database/sql`'s watch on the context.
  A `COMMIT` that gets no answer is executed, refused, or still `committing`: the server
  decides it later, `ServerCommits` or `ServerRollsBack`, maybe after the call has returned.
- `CrudData` - rows, requests, the scope of a lookup, the page size.
- `AtomicCrud` - what a user of the handler may rely on: each request reads or writes
  in one indivisible step before its answer; a request that is answered a plain failure
  has changed nothing and never will, one whose `Commit` failed may act later.
- `CrudStore` - the operations.  It instantiates `TxRunner` (`Tx!...`) and fills the
  operation in, one action per SQL statement: `Insert`, `LookupHits`/`LookupMisses`
  (`resource.lookup` with its scope and `FOR UPDATE`), `ModifyWrites`,
  `DeleteWrites`, `DeleteNoContentWrites`, `Query`, `Count`, and `Output` for the
  output mapper.  A write is `pending` until the commit installs it; locks are
  released by commit and rollback.
- `PatchDocument` - the steps of `resource.patch` on the data of one request after the
  other: `Receive` (lookup, `PatchInputFromEntity`), `Merge`/`MergeFails`
  (`MergeInto`), `Map` (`UpdateInput`), `Normalize`
  (`normalizePatchAssociationNulls`), `Write` (`repository.Update`).
- `EntityTags` - `collectEntityBuilderTags` as a walk: `at` is the stack of its calls (the
  type and the field each is at), `visited` is `visitedTypes`.  `Refuse`, `Pass` and
  `Enter` are the outcomes of `collectEntityBuilderTagField`, `Leave` is the deferred
  delete of `visitEntityBuilderType`.  `parentPath` and `parentIndex` are functions of the
  stack (`PathName`, `Index`).
- `HandlerLifecycle` - `stage` is the step of `NewCrudHandler`, `newCrudHandler` and
  `newResource`; the step `tags` is the walk of `EntityTags`.  Then `Close`: one program
  counter per caller through `sync.Once`, with `closeErr` written inside and read after.
- `QueryFields` - `newQueryFieldResolver`: `Automatic` and `Configured` are the two ways to
  the declared fields, `GoPath` and `RelationPath` resolve a path, `Fold` is
  `foldQueryFieldName`, `Adds`/`Refuses` are `add` and the error returns.  `Denoted` says
  what a path means without any of them: `Selectors` are the chains of fields that Go's
  selector expression stands for, and a column is meant if it is stored from their `Place`.
- `ListPlan` - `resource.list` on the resolver of `QueryFields`: `Valid` (pagination,
  modifiers, `resolve`), `Plans`, then `Query` and `Count` with the builders that
  `ApplyScope`, `ApplyQueryModifiers` and `ApplyPagination` leave behind.  A small
  evaluator of SQL (three-valued filters, joins, `ORDER BY`, `LIMIT`) stands for the database.
- `MC*` - instances for TLC.  `*Proofs` - theorems and their proofs.

Each operator that is marked "Mutant" in a module stands for a plausible mistake in
the code; it is used by no specification.

### What is abstracted

- A Go type is its list of fields; a path is the stack of fields that leads to it, which
  tells apart fields of one name.  A tag is a set of words; `malformed` stands for all
  that `parseSqlhTagValues` refuses.  SQLR's schemas are given with the entity: which
  index paths are relations and which are columns.  The model keeps a peculiarity of the
  code: embedded structs share `visitedTypes` with relations, so a type that embeds a
  struct which is embedded on the same path already is collected without it.
- What `ProvideClient`, the repository factory, `ParseSchema` and the definition factory
  do is open: they succeed or fail.  A construction that fails leaves the repository open;
  the model reaches that, and nothing in the repository says otherwise.  Close after a
  panic of SQLR's Close returns nil.  The HTTP server, which calls Close, is outside.
- A public name is a sequence of code points and a constant partition says which of
  them fold together; a Go path is a sequence of Go names.  Malformed tags do not come to
  `QueryFields`, the walk has refused them.
- A list's filters have equality for all comparisons; `and`, `or`, `not` and nesting are
  kept.  Equal rows come in any order.  NULL sorts first.  A trusted explicit join takes
  precedence over a default join, as `doc.go:92-94` says of SQLR; `OrderBy` replaces an
  earlier ordering.  Trusted modifiers join and sort but do not group.  The tables do
  not change during a request: writers between the two statements are in `CrudStore`.
  Custom `Query` and `Count` callbacks keep to the order that `doc.go:100-105` prescribes.

- A row is the mark of the last writer of every column, so two writes are never equal
  by accident; the association of a row is one mark.
- The update mapper edits the looked-up entity, which is the contract stated in
  `handlers_crud.go:115-118`.  A mapper that builds the row from nothing would lose
  columns by itself.
- Nil inputs, mapper errors, validation errors and database errors all leave the
  operation by the same error path (`OperationFails`) at any statement.
- `BeginTx` is called without options, so the isolation is the server's default.  The
  model takes InnoDB's REPEATABLE READ: plain reads share the snapshot of the first
  one, locking reads see the newest committed row.  Gap locks are left out: they only
  make requests wait or fail, and both are modelled by `OperationFails`.
- Preloads happen in the step of their lookup.  The default identity lookup is used.
- `Delete` checks for a nil `DeleteOutput` before it starts a transaction
  (`handlers_crud.go:417-419`).  The check runs no statement and is left out of `CrudStore`;
  that a handler which serves has the mapper is `OperationsConfigured`.
- In `TxRunner`, `Rollback` may report an error but not panic.
- JSON nests once, association paths are direct, documents name the fields exactly
  (encoding/json also accepts other capitalization), and an untagged field goes by one
  name (`patch.go:326-336` also accepts its lower-camel form).  json-patch is taken to be
  RFC 7396.  The mapper of `PatchDocument` may do with a relation whatever can be told
  from the merged input: take a new value, and treat nil or empty as "clear" or as "keep".

## 3. What is checked

| run | instance | what it shows |
|---|---|---|
| `TxRunner.cfg` | two calls, one connection, one unconfigured call | every combination of outcomes of the operation, `Commit` and `Rollback`, with cancellation at every point: the safety properties, termination, and that `TxRunner` implements `AtomicCall` |
| `CrudPairs.cfg` | every pair of operations but lists, one row, one fault, one foreign write, physical delete | the entity in hand is the row in the database, scope, associations, serializability, all locks are released |
| `CrudWriters.cfg` | every three writers of one row, two connections, soft delete | no lost update, one delete wins, deleted stays deleted, nobody waits for ever |
| `CrudLists.cfg` | lists, creates, deletes, a foreign move between owners; page size one or none | page and total describe one state |
| `PatchMerge.cfg` | scalars, pointer, map, struct, excluded field; documents of one or two fields | omitted fields are kept, nulls reset, excluded fields are not touched |
| `PatchAssociations.cfg` | a list relation with two input fields, a belongs-to relation, a trigger, renamed paths | clears win over the mapper, only selected relations are written |
| `HandlerLifecycle.cfg` | ten entities (cyclic, diamond, embedded, shadowed, wrongly tagged), definitions with one thing missing, three callers of Close | every handler that serves is complete, the collected paths are the right ones, Close runs once, blocks, agrees and always ends |
| `ListPlan.cfg` | 26 entities and mappings, names with two or three cases; at most 392 requests on those that are served, three rows, two authors | collisions and bad paths are refused and nothing else is; a path leads to the column that Go's selector names, though a field shadows the association or an embedded field; requests are refused before any statement; joins, totals and pages are right |
| `TxRunnerDoc.cfg`, `PatchPromoted.cfg`, `PatchHidden.cfg`, `PatchAliased.cfg` | small instances of the above | four sentences of the documentation that the code does not keep, see section 5 |

Bounds.  `PoolSize`, `Calls` and `Keys` are as small as makes waiting, sharing and
competing happen: with one connection a call that keeps it blocks the other one for
good (`MissesPanics` violates `EveryCallEnds` in `TxRunner.cfg`), with two
connections and three writers somebody holds a connection while waiting for a lock.
A lost update needs two writers of one row, a soft delete that is undone three.
`MaxFaults` counts injected errors, panics, lost commit answers and cancellations in
`CrudStore`; one is enough there since `TxRunner` alone is checked without any bound
on them.  `MaxOthers` counts writes of programs that are not this handler.  A document
of two fields covers every relation between a field that is named and one that is not
and between two paths of one relation; two keys do the same inside an object.  Requests
start on one key; creates add others.  Four types hold a cycle, a diamond below it and an
embedded struct at once; three callers of Close are one inside `Do`, one waiting for it and
one coming late.  The fold cycles are those where Unicode surprises: K and the Kelvin
sign, S and long s (ASCII with a third member), the three sigmas (no ASCII), and one pair
beyond ASCII.  Three rows, with pages of one and two and offsets 0, 1 and 3, put a page
inside, across and beyond the end; filters nest twice, over NULL and over no related row.

Symmetry is not declared, since liveness is checked: instead `MCInit` deals only one
of the orders in which a set of requests can be dealt to the calls.

Fairness.  `Fairness` is weak fairness of the steps by which a call gets on
(`Proceeds`: the scheduler runs every goroutine, calls of the database return), of
`ContextDone` for a call whose goroutine has exited (net/http cancels the context of a
finished request), and of `ServerEnds` (the server drops a connection that is gone, and
decides a `COMMIT` it has received).  Nothing saves a call that waits: `BeginFails` is not
part of `Proceeds`, so a call leaves `BeginTx` only with a connection, and an answered
call's context is not assumed to end, so a connection that a call keeps stays taken and
the next call waits for ever.  No client is assumed to cancel, and no statement is
assumed to succeed.  In `CrudStore` a request that waits for a row lock is served when the
lock stays free, and injected errors and cancellations are not fair either.  In
`HandlerLifecycle` the construction goes on and every caller of Close is scheduled; that
SQLR's Close returns or panics is part of that, since nothing else could end it.

## 4. What is proved

`TxRunnerProofs` proves, for any calls, pool size and values: `TypeOK`, `ValueOnlyAfterCommit`,
`FailureLeavesNothing`, `FinishedOnce`, `NoLeak`, and `KeepsPromise`, the
refinement of `AtomicCall`.  The safety properties are not inductive: whether a
rollback is due is decided by `commitReturned`, `mode` and `err`, and none of them
mentions `tx`.  The inductive invariant ties them at each `pc`: before the commit
nothing is counted and no error is set, in the deferred function an unreturned commit
means no commit or a panicking one, after it the transaction is closed unless the
goroutine is exiting, and a transaction is `committing` only if `Commit` was called and
has set an error or panicked.  So a call that takes effect after its answer has been
answered with a doubt.

`CrudStoreProofs` proves, for any number of requests, rows, fields, owners, faults and
foreign writes: `EntityFresh`, `WritesStayInScope`, `OmittedFieldsSurvive` and
`OmittedAssociationSurvives`.  The inductive invariant is `IInv`: a call that has not begun holds
nothing (`NotBegunHoldsNothing`); a call is past its statements when a write is pending
(`WritesLast`); a pending write holds its row's lock (`PendingLocked`); an entity that
will be written back is in scope, locked, and equal to the row (`Fresh`); and the
pending row is the entity with only the named fields replaced
(`WritesFromEntity`).  The argument for every step is that rows change only when the
holder of their lock commits, or when another program writes an unlocked row; the
lemmas `QuietKeeps` and `EndsKeeps` reduce every step of the runner to one that leaves
the data alone and one that installs or discards the pending write.  The action
properties follow at the commit, where the row is still the entity.

`CrudOutcomeProofs` builds on it and proves, for the same instances:

- `CrudTypeCorrect` (`TypeOK`) and `RequestsRunInRunner`, `Spec => Tx!Spec`: every step of a
  request is a step of `TxRunner` or leaves its variables alone.  So the theorems of
  `TxRunnerProofs` hold of every request.  What has to be shown is that an operation
  returns only results that are there (`Kinds`).
- `TotalMatchesPage`.  `PageFits` says that the page fits the snapshot until the count, and
  the total after it; `AnswersResult` follows that result through `output` to the reply.
- `DeletedOnce` and `DeletedStaysDeleted`.  Neither is inductive: a create that is under way
  could revive a row.  `KeysOnce` says that a key is fresh, is being created by one request
  or has been used, and `Gone` that a deleted row's key is used up.  A delete that commits
  writes (`WritesDue`), and the row it writes was not gone (`DeleteBuries`); so no two commit.
  `DeletedOnce` bounds the committed deletes only; what the others are told is `KeepsPromise`.
- `RequestsAreAtomic` (`KeepsPromise`): `CrudStore` implements `AtomicCrud` under the mapping
  `Outcome`, `AnswerOf`.  A lookup that misses is `Miss`, the lookup of a read is `Read`, a
  query is `List`, a commit is `Create`, `Modify` or `Delete`, a return is `Answer`, and every
  other step of a request is none.  The invariant `PromiseInv` says what the mapping relies
  on: nothing is found before the first statement (`NothingYet`); the result is what the
  pending write will do (`ResultOfWrite`), and a create, update or patch commits nothing
  but its write (`CommitsWrite`), so that the outcome shown at the commit is the one that
  was mapped to the response several steps earlier; the total is the one of the query's
  snapshot (`TotalKnown`); and what is answered without an error was committed (`AnswerDue`).
  `Fresh` then makes the write act on the row as it is at the commit (`CommitPromise`), be
  it after the answer: such a request still holds its locks and was answered in doubt (`Late`).

`PatchDocumentProofs` proves, for any update input of flat fields, any entities,
documents, association configuration and sequence of requests: `TypeOK`, so that what
`PatchInputFromEntity` reads back from the database is always a complete update input
and a belongs-to association always agrees with its foreign key; `OmittedFieldsKept`;
`NullResets`, if no field is promoted from an embedded struct that is not exported; and
`ExcludedFieldsKept`, if no nested member is excluded from JSON.  The two conditions are
needed: findings 2 and 3 of section 5 are what happens without them.  The inductive
invariant is `TypeOK` with one more conjunct, that a request in progress has a
document of `Documents`.  The argument follows one field through `MergeInto`
(`MergeIntoField`): marshalling and decoding again returns the value (`RoundTrip`,
`StructRoundTrip`), and an object merges member by member (`MergedStruct`, `MergedMap`).

For configurations with `OnePathEach` it also proves `ClearsAssociations` and
`OnlySelectedWritten`: overrides and derived paths give each relation one path, and a
belongs-to relation is named by its own field, set by no list and derived by no trigger.
The constants of `PatchAssociations.cfg` satisfy this; those of `PatchAliased.cfg` do not,
and finding 4 is what happens there.  The invariant `AInv` carries through the request
what the write relies on: a belongs-to field that the document names did not hold an
array, or the merge would have failed (`NoArrays`), so its clear is a null and reaches
the foreign key; one that it does not select has its old foreign key after the mapper
has run over the complete merged input (`UnselectedKept`); and what it clears is empty
after the normalization, because the path looked up is the one named (`Cleared`).

`EntityTagsProofs` proves, for any finite set of types and any entity over them, cyclic or
not: `WalkTypeCorrect`, `DepthIsBounded` (the recursion is never deeper than there are types)
and `PathsAreCollected`: when the walk ends it has collected the tags of exactly the paths
on which no type repeats, or has met a wrong tag on one of them.  The reference definition
is a set of chains and knows no order; the invariant `WalkInv` relates the two: the stack
is a chain, `visited` is the set of its types (so the deferred delete removes what
belongs to this call), and everything is collected that lies behind the stack in the
lexicographic order of field indices (`Behind`).

`HandlerLifecycleProofs` proves, for any number of callers of Close: `ClosedOnce`,
`CloseBlocks`, `ClosesAgree`, from an invariant that says who is inside `sync.Once` and that
`closeErr` is not read before it is final; and `OperationsConfigured`, from what each step
of the construction has checked so far.

`QueryFieldsProofs` proves, for any entity, mapping and partition of characters into fold
cycles in which ASCII folds as in Unicode: `FoldingIsEqualFold`, that
`foldQueryFieldName` gives two names one key exactly if `strings.EqualFold` holds of them;
and `NamesResolveAsDeclared`, that a definition is served exactly if its names are pairwise
different under folding and lead to columns, and that then every spelling resolves to the
declaring field.  These take the declared fields as the resolver's path resolution gives
them; `PathsLeadToColumns` is about that resolution, for types nested to any depth and paths
of any length: `FieldIndex` finds the place of a selector (`SelectorIsFound`) and nothing
where there is none (`NoSelectorNoIndex`), an association is told from a field that shadows
it (`AssociationIsSelected`), and so a path leads to the column it denotes
(`PathIsDenoted`).  It assumes `StructAssumption`: `FieldByName` knows one field of a name, and
no column is stored from a complete struct.

`ListPlanProofs` carries both over to the resource (`ServedNamesResolve`,
`ServedPathsLeadToColumns`) and proves, for
filters of any depth and width, orderings of any length and any rows:

- `RefusalsAreRight`: validation refuses exactly what is not admissible.  The recursion
  of `convertFilter` and the property's quantifier over all nodes of a filter agree
  (`ConvertsDecides`, by induction over filters), given that the resolver knows exactly the
  declared names (`ServingAgrees`); the arithmetic of the page is `ValidIsAdmissible`.
- `StatementsAreWellFormed`: the filter's joins are the relations of its leaves, each once
  (`FilterJoinsCollect`), the ordering's are those of its keys that the filter does not join
  (`OrdersAppend`), so appending one to the other joins nothing twice (`JoinsConcatenate`).
- `TotalsAreRight`: the count drops the ordering and the page but keeps scope and filter
  (`CountSelectsMatches`), and what the resolver answers for a name is what the name means.
- `PagesAreRight`: the rows' statement selects the right rows (`QuerySelectsWanted`), and
  from any order in which the database may list a finite set, limit and offset cut a page
  each of whose rows has as many rows before it as it should (`SlicesAreGood`).

The inductive invariant `ListInv` says for each phase what the later ones rely on: nothing
has been executed before the plan (`Untouched`), what is planned is admissible (`Judged`),
the plan joins and orders by what the public names mean (`PlanRight`), and executed
statements, page and total are final.  None of the properties is inductive without
`PlanRight`, since the statements are built from the plan, steps after the request
was resolved.  All of these speak of the request's meaning and not of the resolver's
table, so that steps which leave the request alone keep them (`MeaningStays`).

`Converts`, `FilterJoins` and `Nodes` are recursive functions and the joins are folds, both
defined by CHOOSE: nothing can be said of them before a solution of their equation is
known to exist.  So are `FieldIndex` and `FlattenSeq`.  The library's theorems about recursion
and induction cannot be used for that (they take operators as parameters), so
`QueryFieldsProofs` proves their set forms from `WFMin` and the well-founded order of finite sets: `RecursionExists`, a recursive
definition over a set whose parts have minimal members has a solution; `FoldExists`, for
folds; `Induction` and `FilterInduction`, over the set of those that have the property.

The proofs assume only the named assumptions on constants in `TxRunner`, `CrudData`,
`CrudStore`, `PatchDocument`, `EntityTags`, `HandlerLifecycle`, `QueryFields` and
`ListPlan`, which TLC evaluates on every run of the module.  Two of them are about data that
comes from outside: `FilterAssumption`, that no filter contains itself (the input of a list is
decoded from a JSON body, which is finite), and `DatabaseAssumption`, that a table has
finitely many rows and that the columns which are declared or sorted by hold numbered
values, which `Before` compares.

Only model-checked: all liveness (`EveryCallEnds`, `EveryTransactionEnds`,
`LocksAreReleased`, `EveryCloseEnds`), which depends on fairness and so on ENABLED, out
of the prover's reach.  Every other property that a passing run checks is a theorem.

## 5. Where code and documentation differ

1. `doc.go:11-12` promises a rollback on every error.  After an error of `Commit`
   there is none (`transaction.go:86`, `103-107`).  That is right, only the sentence is too
   wide: the transaction is over, and may be committed.  `TxRunnerDoc.cfg`.
2. `doc.go:125`: a null resets a scalar field.  `resetPatchInput` skips an embedded
   struct whose type is not exported (`patch.go:175`), while encoding/json promotes its
   exported fields: a null for one of them leaves the old value.  `PatchPromoted.cfg`.
3. `patch.go:147-149`: fields excluded from JSON are preserved.  True of the top level
   and of embedded structs; a named struct field is reset as a whole (`patch.go:193`),
   its `json:"-"` members with it.  `PatchHidden.cfg`.
4. `doc.go:126-127`: null and an empty array clear a direct association.  When
   `PatchAssociations` gives one relation two paths, `patchPathForRelation`
   (`patch.go:471-479`) consults one of them, in Go's map order, and may miss the clear.
   `PatchAliased.cfg`.

## 6. Plan

Done: the runner, since all else runs inside it, the operations over a shared database,
the patch pipeline, the handler's construction and Close with the entity tags, and lists
with the query fields.  Next, in this order:

1. Nested patch paths: `patchPathForRelation` below a relation, the ancestor and
   descendant rule of `patchAssociationPathSelected`, clears through slices and nil
   pointers.
2. The JSON form of filters (`filters.go`): which documents decode to which filter.

Not planned: the text of errors, logging, the SQL that SQLR generates, comparisons other
than equality (sqlc evaluates them), routing, content negotiation and shutdown of the
server (httpserver), and custom operations, which are application code.
