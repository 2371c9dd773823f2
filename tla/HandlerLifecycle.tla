---- MODULE HandlerLifecycle ----
(***************************************************************************)
(* A CrudHandler from NewCrudHandler to Close: the steps of the            *)
(* construction in their order, among them the walk of EntityTags, what    *)
(* each of them refuses, and concurrent calls of Close through sync.Once.  *)
(***************************************************************************)
EXTENDS EntityTags

CONSTANTS Definitions,    \* the CRUD definitions that may be met
          Callers,        \* of Close: the HTTP server, the application
          Nil, Failure,   \* the errors Close may return
          None            \* not yet

\* the definition, and the step of the construction: "serving" once there is a
\* handler, "failed" if there is none
VARIABLES definition, stage
\* the repository, closeOnce and closeErr; how often repository.Close was called
\* and how its first call ended
VARIABLES repository, closeOnce, closeErr, closes, outcome
\* the calls of Close
VARIABLES pc, answer

closeVars == <<closeOnce, closeErr, closes, outcome, pc, answer>>
vars == <<tagVars, definition, stage, repository, closeVars>>

Ops == {"create", "read", "update", "patch", "list", "delete"}
Mappers == {"CreateInput", "UpdateInput", "PatchInputFromEntity", "Output"}

\* has: the mappers that are set, and Identity.  custom: the operations that are
\* replaced.  sameId: the input's ID type is the key type.  associations,
\* triggers: the relation paths of PatchAssociations and PatchAssociationTriggers.
\* derivable: the relation paths that the json tags of the update input lead to,
\* by a JSON path that no other relation has.
DefinitionSet == [has : SUBSET (Mappers \cup {"Identity"}), custom : SUBSET Ops, sameId : BOOLEAN,
                  associations : SUBSET Seq(Names), triggers : SUBSET Seq(Names),
                  derivable : SUBSET Seq(Names)]

ASSUME CallAssumption ==
  /\ Nil # Failure /\ None # "panic"
  /\ None \notin {Nil, Failure} /\ "panic" \notin {Nil, Failure}

Init ==
  /\ WalkInit
  /\ definition \in Definitions /\ stage = "definition"
  /\ repository = "none"
  /\ closeOnce = "idle" /\ closeErr = Nil /\ closes = 0 /\ outcome = None
  /\ pc = [c \in Callers |-> "away"] /\ answer = [c \in Callers |-> None]

----
(* NewCrudHandler and newCrudHandler                                       *)

Following == [definition |-> "client", client |-> "repository", repository |-> "runner",
              runner |-> "schema", schema |-> "identity", identity |-> "resource",
              resource |-> "tags", tags |-> "fields", fields |-> "operations",
              operations |-> "serving"]

Proceeds(s, ok) == stage = s /\ ok /\ stage' = Following[s]
Fails(s) == stage = s /\ stage' = "failed"
Decides(s, ok) == Proceeds(s, ok) \/ (~ok /\ Fails(s))

\* Steps whose failure is decided elsewhere: the definition factory (or none),
\* ProvideClient (or no repository factory), NewTxRunnerWithClient, ParseSchema,
\* and newQueryFieldResolver, the subject of QueryFields.
Calls ==
  /\ \E s \in {"definition", "client", "runner", "schema", "fields"} : Proceeds(s, TRUE) \/ Fails(s)
  /\ UNCHANGED <<tagVars, definition, repository, closeVars>>

\* The factory opens a repository, returns an error, or returns neither.
OpensRepository ==
  /\ \/ Proceeds("repository", TRUE) /\ repository' \in {"open", "nil"}
     \/ Fails("repository") /\ UNCHANGED repository
  /\ UNCHANGED <<tagVars, definition, closeVars>>

ChecksIdentity ==
  /\ Decides("identity", "Identity" \in definition.has \/ definition.sameId)
  /\ UNCHANGED <<tagVars, definition, repository, closeVars>>

\* newResource needs a repository and a schema with a primary key.
ChecksResource ==
  /\ Proceeds("resource", repository # "nil") \/ Fails("resource")
  /\ UNCHANGED <<tagVars, definition, repository, closeVars>>

CollectsTags ==
  /\ stage = "tags" /\ WalkNext
  /\ UNCHANGED <<definition, stage, repository, closeVars>>

HasTags ==
  /\ status # "walking" /\ Decides("tags", status = "done")
  /\ UNCHANGED <<tagVars, definition, repository, closeVars>>

\* The mappers that the closure of a default operation calls.
Uses == [create |-> {"CreateInput", "Output"}, read |-> {"Output"},
         update |-> {"UpdateInput", "Output"},
         patch |-> {"PatchInputFromEntity", "UpdateInput", "Output"},
         list |-> {"Output"}, delete |-> {}]

\* Mutant: UpdateInput is only required with the default update operation.
RequiredLess ==
  IF "update" \in definition.custom THEN [Uses EXCEPT !.patch = @ \ {"UpdateInput"}] ELSE Uses

\* The mappers that the build functions require.
Required == [create |-> {"CreateInput", "Output"}, read |-> {"Output"},
             update |-> {"UpdateInput", "Output"},
             patch |-> {"PatchInputFromEntity", "UpdateInput", "Output"},
             list |-> {"Output"}, delete |-> {}]

UpdateSyncPaths ==
  {PathName(layout, t[2]) : t \in {u \in tags : u[1] = "sync:update"}}

\* buildPatchAssociationFields and buildPatchAssociationTriggers
AssociationsBuildable ==
  /\ definition.associations \cup definition.triggers \subseteq UpdateSyncPaths
  /\ UpdateSyncPaths \ definition.associations \subseteq definition.derivable

Buildable(op) ==
  \/ op \in definition.custom
  \/ Required[op] \subseteq definition.has /\ (op = "patch" => AssociationsBuildable)

BuildsOperations ==
  /\ Decides("operations", \A op \in Ops : Buildable(op))
  /\ UNCHANGED <<tagVars, definition, repository, closeVars>>

Construct == Calls \/ OpensRepository \/ ChecksIdentity \/ ChecksResource \/ CollectsTags
             \/ HasTags \/ BuildsOperations

----
(* CrudHandler.Close                                                       *)

At(c, p) == pc[c] = p
GoTo(c, p) == pc' = [pc EXCEPT ![c] = p]
Returns(c, e) == GoTo(c, "returned") /\ answer' = [answer EXCEPT ![c] = e]

\* Close of a nil handler returns nil.
CallsClose(c) ==
  /\ At(c, "away")
  /\ \/ stage = "serving" /\ GoTo(c, "once") /\ UNCHANGED answer
     \/ stage = "failed" /\ Returns(c, Nil)
  /\ UNCHANGED <<tagVars, definition, stage, repository, closeOnce, closeErr, closes, outcome>>

\* Mutant: a flag that is set when the repository is closed replaces the Once.
EntersUnlessDone(c) ==
  /\ At(c, "once") /\ closeOnce # "done"
  /\ closeOnce' = "running" /\ closes' = closes + 1 /\ GoTo(c, "closing")
  /\ UNCHANGED <<tagVars, definition, stage, repository, closeErr, outcome, answer>>

EntersOnce(c) ==
  /\ At(c, "once") /\ closeOnce = "idle"
  /\ closeOnce' = "running" /\ closes' = closes + 1 /\ GoTo(c, "closing")
  /\ UNCHANGED <<tagVars, definition, stage, repository, closeErr, outcome, answer>>

\* Mutant: who finds the Once taken does not wait for it.
PassesTaken(c) ==
  /\ At(c, "once") /\ closeOnce # "idle" /\ GoTo(c, "answering")
  /\ UNCHANGED <<tagVars, definition, stage, repository, closeOnce, closeErr, closes, outcome, answer>>

\* closeOnce.Do returns without a call once the first call is over.
PassesOnce(c) ==
  /\ At(c, "once") /\ closeOnce = "done" /\ GoTo(c, "answering")
  /\ UNCHANGED <<tagVars, definition, stage, repository, closeOnce, closeErr, closes, outcome, answer>>

\* Mutant: the error is returned but not stored.
ClosesUnstored(c) ==
  /\ At(c, "closing")
  /\ \E e \in {Nil, Failure} : Returns(c, e) /\ outcome' = e
  /\ closeOnce' = "done" /\ repository' = "closed"
  /\ UNCHANGED <<tagVars, definition, stage, closeErr, closes>>

\* repository.Close returns.
ClosesRepository(c) ==
  /\ At(c, "closing")
  /\ \E e \in {Nil, Failure} : closeErr' = e /\ outcome' = e
  /\ closeOnce' = "done" /\ repository' = "closed" /\ GoTo(c, "answering")
  /\ UNCHANGED <<tagVars, definition, stage, closes, answer>>

\* Mutant: a Once that is not marked by a deferred call.
PanicsHolding(c) ==
  /\ At(c, "closing")
  /\ outcome' = "panic" /\ GoTo(c, "panicked")
  /\ UNCHANGED <<tagVars, definition, stage, repository, closeOnce, closeErr, closes, answer>>

\* repository.Close panics: the Once is over all the same, closeErr was not set.
ClosePanics(c) ==
  /\ At(c, "closing")
  /\ outcome' = "panic" /\ closeOnce' = "done" /\ GoTo(c, "panicked")
  /\ UNCHANGED <<tagVars, definition, stage, repository, closeErr, closes, answer>>

AnswersClose(c) ==
  /\ At(c, "answering") /\ Returns(c, closeErr)
  /\ UNCHANGED <<tagVars, definition, stage, repository, closeOnce, closeErr, closes, outcome>>

Step(c) == EntersOnce(c) \/ PassesOnce(c) \/ ClosesRepository(c) \/ ClosePanics(c) \/ AnswersClose(c)

Next == Construct \/ \E c \in Callers : CallsClose(c) \/ Step(c)

\* The scheduler runs every goroutine, and repository.Close comes back.
Fairness == WF_vars(Construct) /\ \A c \in Callers : WF_vars(Step(c))

Spec == Init /\ [][Next]_vars
FairSpec == Spec /\ Fairness

----
TypeOK ==
  /\ WalkTypeOK
  /\ definition \in Definitions
  /\ stage \in DOMAIN Following \cup {"serving", "failed"}
  /\ repository \in {"none", "nil", "open", "closed"}
  /\ closeOnce \in {"idle", "running", "done"}
  /\ closeErr \in {Nil, Failure} /\ closes \in Nat
  /\ outcome \in {None, Nil, Failure, "panic"}
  /\ pc \in [Callers -> {"away", "once", "closing", "answering", "returned", "panicked"}]
  /\ answer \in [Callers -> {None, Nil, Failure}]

(* However many calls of Close race, SQLR's Close, which gives back the    *)
(* prepared statements, is called at most once.  (doc.go:38-40 "blocking   *)
(* and idempotent", handlers_crud.go:459)                                  *)
ClosedOnce == closes <= 1

(* No Close of a handler returns before the repository's Close is over,    *)
(* whoever called it.  (handlers_crud.go:450-451 "Close blocks until       *)
(* cleanup completes")                                                     *)
CloseBlocks == \A c \in Callers : (stage = "serving" /\ pc[c] = "returned") => outcome # None

(* Every Close that returns answers what the first one did; if that one    *)
(* panicked, nil.  (handlers_crud.go:451-452, 465)                         *)
ClosesAgree ==
  \A c \in Callers :
    (stage = "serving" /\ pc[c] = "returned") => answer[c] = IF outcome = "panic" THEN Nil ELSE outcome

(* Every Close of a handler ends, also if the repository's Close panics in *)
(* another goroutine, and the repository's Close was tried.                *)
EveryCloseEnds ==
  \A c \in Callers : pc[c] = "once" ~> (pc[c] \in {"returned", "panicked"} /\ outcome # None)

(* A handler that serves never meets a mapper that is not set, never looks *)
(* a key up with an ID of another type, and synchronizes for a PATCH only  *)
(* relations that are tagged for it: all of it is refused at construction. *)
(* (handlers_crud.go:297-342, patch.go:228-266)                            *)
OperationsConfigured ==
  stage = "serving" =>
    /\ \A op \in Ops \ definition.custom : Uses[op] \subseteq definition.has
    /\ definition.sameId \/ "Identity" \in definition.has
    /\ "patch" \notin definition.custom =>
         \A path \in definition.associations \cup definition.triggers :
           \E c \in Chains[layout] :
             /\ "sync:update" \in Field(layout, c).tag
             /\ PathName(layout, c) = path
====
