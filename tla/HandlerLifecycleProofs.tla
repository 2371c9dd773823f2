---- MODULE HandlerLifecycleProofs ----
(***************************************************************************)
(* HandlerLifecycle for any entity, definition and set of callers: what a  *)
(* handler that serves can rely on, and what its callers of Close are      *)
(* answered.                                                               *)
(***************************************************************************)
EXTENDS HandlerLifecycle, EntityTagsProofs

\* The calls that may be at work, by the state of the Once.
Guarded ==
  /\ closes \in Nat
  /\ closeOnce \in {"idle", "running", "done"}
  /\ closeOnce = "idle" => closes = 0
  /\ closeOnce # "idle" => closes = 1
  /\ closeOnce = "done" <=> outcome # None
  /\ \A c \in Callers : pc[c] = "closing" => closeOnce = "running"
  /\ \A c, d \in Callers : pc[c] = "closing" /\ pc[d] = "closing" => c = d

\* What is stored, and what was answered.
Stored ==
  /\ outcome \in {None, Nil, Failure, "panic"}
  /\ closeErr = IF outcome \in {None, "panic"} THEN Nil ELSE outcome
  /\ \A c \in Callers : pc[c] = "answering" => closeOnce = "done"
  /\ \A c \in Callers :
       (stage = "serving" /\ pc[c] = "returned") => /\ closeOnce = "done"
                                                    /\ answer[c] = closeErr
  /\ \A c \in Callers : stage \notin {"serving", "failed"} => pc[c] = "away"
  /\ \A c \in Callers : stage = "failed" => pc[c] \in {"away", "returned"}

Arrays == DOMAIN pc = Callers /\ DOMAIN answer = Callers
          /\ pc = [c \in Callers |-> pc[c]] /\ answer = [c \in Callers |-> answer[c]]

CloseInv == Arrays /\ Guarded /\ Stored

LEMMA CloseInitInv ==
  ASSUME Init
  PROVE  CloseInv
BY CallAssumption DEF Init, CloseInv, Arrays, Guarded, Stored

\* The construction is over before anybody closes.
LEMMA ConstructKeepsClose ==
  ASSUME CloseInv, Construct
  PROVE  CloseInv'
<1>1. /\ UNCHANGED closeVars
      /\ stage \notin {"serving", "failed"}
  BY DEF Construct, Calls, OpensRepository, ChecksIdentity, ChecksResource, CollectsTags, HasTags,
         BuildsOperations, Decides, Proceeds, Fails
<1>2. \A c \in Callers : pc[c] = "away"
  BY <1>1 DEF CloseInv, Stored
<1> QED BY <1>1, <1>2 DEF CloseInv, Arrays, Guarded, Stored, closeVars

LEMMA CallKeepsClose ==
  ASSUME CloseInv, NEW c \in Callers, CallsClose(c)
  PROVE  CloseInv'
BY DEF CloseInv, Arrays, Guarded, Stored, CallsClose, At, GoTo, Returns

LEMMA EntersKeepsClose ==
  ASSUME CloseInv, NEW c \in Callers, EntersOnce(c)
  PROVE  CloseInv'
BY DEF CloseInv, Arrays, Guarded, Stored, EntersOnce, At, GoTo

LEMMA PassesKeepsClose ==
  ASSUME CloseInv, NEW c \in Callers, PassesOnce(c)
  PROVE  CloseInv'
BY DEF CloseInv, Arrays, Guarded, Stored, PassesOnce, At, GoTo

LEMMA ClosesKeepsClose ==
  ASSUME CloseInv, NEW c \in Callers, ClosesRepository(c)
  PROVE  CloseInv'
BY CallAssumption DEF CloseInv, Arrays, Guarded, Stored, ClosesRepository, At, GoTo

LEMMA PanicKeepsClose ==
  ASSUME CloseInv, NEW c \in Callers, ClosePanics(c)
  PROVE  CloseInv'
BY CallAssumption DEF CloseInv, Arrays, Guarded, Stored, ClosePanics, At, GoTo

LEMMA AnswerKeepsClose ==
  ASSUME CloseInv, NEW c \in Callers, AnswersClose(c)
  PROVE  CloseInv'
BY DEF CloseInv, Arrays, Guarded, Stored, AnswersClose, At, GoTo, Returns

LEMMA CloseStepKeeps ==
  ASSUME CloseInv, [Next]_vars
  PROVE  CloseInv'
<1>1. CASE UNCHANGED vars
  BY <1>1 DEF vars, closeVars, CloseInv, Arrays, Guarded, Stored
<1>2. CASE Construct
  BY <1>2, ConstructKeepsClose
<1>3. ASSUME NEW c \in Callers, CallsClose(c) \/ Step(c)
      PROVE  CloseInv'
  BY <1>3, CallKeepsClose, EntersKeepsClose, PassesKeepsClose, ClosesKeepsClose, PanicKeepsClose,
     AnswerKeepsClose DEF Step
<1> QED BY <1>1, <1>2, <1>3 DEF Next

----
\* What the construction has established so far.
Decided ==
  /\ stage \in {"fields", "operations", "serving"} => status = "done"
  /\ stage \in {"resource", "tags", "fields", "operations", "serving"} =>
       definition.sameId \/ "Identity" \in definition.has
  /\ stage \in DOMAIN Following \cup {"serving", "failed"}

LEMMA TaggedFields ==
  ASSUME PathsCollected, status = "done", NEW path \in UpdateSyncPaths
  PROVE  \E c \in Chains[layout] : "sync:update" \in Field(layout, c).tag /\ PathName(layout, c) = path
<1>1. PICK t \in tags : t[1] = "sync:update" /\ path = PathName(layout, t[2])
  BY DEF UpdateSyncPaths
<1>2. PICK c \in Chains[layout] : t \in Tagged(layout, c)
  BY DEF PathsCollected
<1>3. t[2] = c /\ t[1] \in Field(layout, c).tag
  BY <1>2 DEF Tagged
<1> QED BY <1>1, <1>3

LEMMA BuildsConfigured ==
  ASSUME PathsCollected, Decided, BuildsOperations
  PROVE  OperationsConfigured'
<1>1. /\ UNCHANGED <<tagVars, definition>>
      /\ stage = "operations"
  BY DEF BuildsOperations, Decides, Proceeds, Fails
<1>2. SUFFICES ASSUME stage' = "serving" PROVE OperationsConfigured'
  BY DEF OperationsConfigured
<1>3. \A op \in Ops : Buildable(op)
  BY <1>2 DEF BuildsOperations, Decides, Fails, Proceeds
<1>4. \A op \in Ops \ definition.custom : Uses[op] \subseteq definition.has
  BY <1>3 DEF Buildable, Ops, Uses, Required
<1>5. definition.sameId \/ "Identity" \in definition.has
  BY <1>1 DEF Decided
<1>6. ASSUME "patch" \notin definition.custom,
             NEW path \in definition.associations \cup definition.triggers
      PROVE  \E c \in Chains[layout] : "sync:update" \in Field(layout, c).tag /\ PathName(layout, c) = path
  <2>1. path \in UpdateSyncPaths
    BY <1>3, <1>6 DEF Buildable, AssociationsBuildable, Ops
  <2> QED BY <1>1, <2>1, TaggedFields DEF Decided
<1> QED BY <1>1, <1>4, <1>5, <1>6 DEF OperationsConfigured, tagVars

LEMMA DecidedKeeps ==
  ASSUME PathsCollected, Decided, OperationsConfigured, [Next]_vars
  PROVE  Decided' /\ OperationsConfigured'
<1> USE DEF Decided, Decides, Proceeds, Fails, Following
<1>1. CASE Calls
  BY <1>1 DEF Calls, tagVars, OperationsConfigured
<1>2. CASE OpensRepository
  BY <1>2 DEF OpensRepository, tagVars, OperationsConfigured
<1>3. CASE ChecksIdentity
  BY <1>3 DEF ChecksIdentity, tagVars, OperationsConfigured
<1>4. CASE ChecksResource
  BY <1>4 DEF ChecksResource, tagVars, OperationsConfigured
<1>5. CASE CollectsTags
  BY <1>5 DEF CollectsTags, OperationsConfigured
<1>6. CASE HasTags
  BY <1>6 DEF HasTags, tagVars, OperationsConfigured
<1>7. CASE BuildsOperations
  <2>1. Decided'
    BY <1>7 DEF BuildsOperations, tagVars
  <2> QED BY <1>7, <2>1, BuildsConfigured
<1>8. ASSUME UNCHANGED <<tagVars, definition, stage>>
      PROVE  Decided' /\ OperationsConfigured'
  BY <1>8 DEF tagVars, OperationsConfigured
<1>9. ASSUME NEW c \in Callers, CallsClose(c) \/ Step(c)
      PROVE  UNCHANGED <<tagVars, definition, stage>>
  BY <1>9 DEF CallsClose, Step, EntersOnce, PassesOnce, ClosesRepository, ClosePanics, AnswersClose
<1> QED BY <1>1, <1>2, <1>3, <1>4, <1>5, <1>6, <1>7, <1>8, <1>9 DEF Next, Construct, vars

\* The construction runs the walk of EntityTags.
LEMMA WalkSteps ==
  ASSUME [Next]_vars
  PROVE  [WalkNext]_tagVars
<1>1. CASE Construct
  BY <1>1 DEF Construct, Calls, OpensRepository, ChecksIdentity, ChecksResource, CollectsTags, HasTags,
              BuildsOperations
<1>2. ASSUME NEW c \in Callers, CallsClose(c) \/ Step(c)
      PROVE  UNCHANGED tagVars
  BY <1>2 DEF CallsClose, Step, EntersOnce, PassesOnce, ClosesRepository, ClosePanics, AnswersClose
<1>3. CASE UNCHANGED vars
  BY <1>3 DEF vars
<1> QED BY <1>1, <1>2, <1>3 DEF Next

----
\* However many callers race, the repository is closed at most once.
\* (handlers_crud.go:459)
THEOREM RepositoryIsClosedOnce == Spec => []ClosedOnce
<1>1. CloseInv => ClosedOnce
  BY DEF CloseInv, Guarded, ClosedOnce
<1> QED BY CloseInitInv, CloseStepKeeps, <1>1, PTL DEF Spec

\* No Close returns before the repository's Close is over.
\* (handlers_crud.go:450-451)
THEOREM CloseIsBlocking == Spec => []CloseBlocks
<1>1. CloseInv => CloseBlocks
  BY DEF CloseInv, Guarded, Stored, CloseBlocks
<1> QED BY CloseInitInv, CloseStepKeeps, <1>1, PTL DEF Spec

\* Every caller is answered what the repository's only Close returned.
\* (handlers_crud.go:451-452, 465)
THEOREM AnswersAgree == Spec => []ClosesAgree
<1>1. CloseInv => ClosesAgree
  BY DEF CloseInv, Guarded, Stored, ClosesAgree
<1> QED BY CloseInitInv, CloseStepKeeps, <1>1, PTL DEF Spec

\* The tags of every handler are those that EntityTags says.
\* (resource.go:47, entity_tags.go:64-71)
THEOREM HandlerPathsAreCollected == Spec => []PathsCollected
<1>1. Init => WalkInit
  BY DEF Init
<1>2. WalkInv /\ [Next]_vars => WalkInv'
  BY WalkSteps, WalkStepKeeps
<1> QED BY <1>1, <1>2, WalkInitInv, DoneCollects, PTL DEF Spec

\* A handler that serves never lacks what its requests use.
\* (handlers_crud.go:297-342, patch.go:228-266)
THEOREM OperationsAreConfigured == Spec => []OperationsConfigured
<1>1. Init => Decided /\ OperationsConfigured
  BY DEF Init, Decided, OperationsConfigured, Following
<1> QED BY <1>1, DecidedKeeps, HandlerPathsAreCollected, PTL DEF Spec

====
