---- MODULE CrudStoreProofs ----
(***************************************************************************)
(* CrudStore for any calls, keys, fields, owners and requests, and any     *)
(* number of faults: what is read before a write is still true when the    *)
(* write is committed, and what follows from it.                           *)
(***************************************************************************)
EXTENDS CrudStore, TLAPS

\* The part of the types that the argument needs.
Typed ==
  /\ pc \in [Calls -> {"start", "operation", "commit", "deferred", "return", "replied", "exited"}]
  /\ tx \in [Calls -> {"none", "open", "committing", "committed", "orphaned", "rolledback"}]
  /\ rows \in [Keys -> Rows \cup {Absent}]
  /\ lock \in [Keys -> Calls \cup {Free}]
  /\ pending \in [Calls -> Pendings \cup {None}]
  /\ req \in [Calls -> Requests]
  /\ stage \in [Calls -> Statements \cup {"output"}]
  /\ entity \in [Calls -> Rows \cup {Absent}]
  /\ loaded \in [Calls -> Marks \cup {Absent}]
  /\ links \in [Keys -> Marks \cup {Absent}]
  /\ fresh \subseteq Keys

\* What an update, patch or delete has prepared, from the entity it looked up.
Prepared(c) ==
  [key |-> req[c].id,
   row |-> IF req[c].op \in {"update", "patch"} THEN Merged(c) ELSE DeletedRow(c),
   links |-> IF req[c].op \in {"update", "patch"}
             THEN IF SyncsLinks(c) THEN MergedLinks(c) ELSE Keep
             ELSE DeletedLinks]

\* A call that has not begun holds nothing.
NotBegunHoldsNothing(c) ==
  pc[c] = "start" => tx[c] = "none" /\ entity[c] = Absent /\ pending[c] = None

\* The row of an uncommitted write is locked.
PendingLocked(c) ==
  pending[c] # None /\ Holds(c) => lock[pending[c].key] = c

\* The looked-up entity is visible to the request, locked and current.
Fresh(c) ==
  Mutates(req[c]) /\ entity[c] # Absent
    => /\ Visible(entity[c], req[c].scope)
       /\ Holds(c) => lock[req[c].id] = c /\ rows[req[c].id] = entity[c]

\* A mutating request past its lookup has an entity, and writes only from it.
WritesFromEntity(c) ==
  Mutates(req[c])
    => /\ stage[c] \notin {"insert", "query", "count"}
       /\ stage[c] \in {"write", "output"} => entity[c] # Absent
       /\ pc[c] = "commit" \/ tx[c] = "committing" => entity[c] # Absent
       /\ pending[c] # None => entity[c] # Absent /\ pending[c] = Prepared(c)

\* Nothing is written before the lookup or the insert.
WritesLast(c) == stage[c] \in {"insert", "lookup"} => pending[c] = None

CallInv(c) ==
  /\ NotBegunHoldsNothing(c)
  /\ WritesLast(c)
  /\ PendingLocked(c)
  /\ Fresh(c)
  /\ WritesFromEntity(c)

IInv == Typed /\ \A c \in Calls : CallInv(c)

----
LEMMA RequestShape ==
  ASSUME Typed, NEW c \in Calls
  PROVE  req[c].id \in Keys /\ req[c].op \in Ops /\ req[c].names \in SUBSET Fields
BY DataAssumption DEF Typed, RequestSet

LEMMA RowFacts ==
  ASSUME NEW row \in Rows
  PROVE  /\ row # Absent /\ row # None
         /\ row.fields \in [Fields -> Marks] /\ row.owner \in Owners /\ row.deleted \in BOOLEAN
BY MarksAssumption DEF Rows

LEMMA WritesTyped ==
  ASSUME Typed, NEW c \in Calls, entity[c] # Absent
  PROVE  /\ Merged(c) \in Rows
         /\ DeletedRow(c) \in Rows \cup {Absent}
         /\ MergedLinks(c) \in Marks \cup {Absent}
         /\ DeletedLinks \in Marks \cup {Absent, Keep}
         /\ Prepared(c) \in Pendings
<1>1. entity[c] \in Rows
  BY DEF Typed
<1>2. Merged(c) \in Rows
  <2>1. [f \in Fields |-> IF f \in req[c].names THEN c ELSE entity[c].fields[f]] \in [Fields -> Marks]
    BY <1>1, RowFacts DEF Marks
  <2>. QED
    BY <1>1, <2>1 DEF Merged, Rows
<1>3. DeletedRow(c) \in Rows \cup {Absent}
  BY <1>1 DEF DeletedRow, Rows
<1>4. MergedLinks(c) \in Marks \cup {Absent}
  BY DEF MergedLinks, Marks, Typed
<1>5. DeletedLinks \in Marks \cup {Absent, Keep}
  BY DEF DeletedLinks
<1>. QED
  BY <1>2, <1>3, <1>4, <1>5, RequestShape DEF Prepared, Pendings

LEMMA NewRowTyped ==
  ASSUME NEW mark \in Marks, NEW o \in Owners
  PROVE  NewRow(mark, o) \in Rows
BY DEF NewRow, Rows

LEMMA InitEstablishes == Init => IInv
<1> SUFFICES ASSUME Init PROVE IInv
  OBVIOUS
<1>1. Typed
  <2>1. rows \in [Keys -> Rows \cup {Absent}]
    <3>1. PICK owner \in [Seeded -> Owners] :
            rows = [k \in Keys |-> IF k \in Seeded THEN NewRow(Base, owner[k]) ELSE Absent]
      BY DEF Init
    <3>2. \A k \in Seeded : NewRow(Base, owner[k]) \in Rows
      BY NewRowTyped DEF Marks
    <3>. QED
      BY <3>1, <3>2
  <2>2. stage \in [Calls -> Statements \cup {"output"}]
    BY DEF Init, FirstStage, Statements
  <2>. QED
    BY <2>1, <2>2 DEF Init, Tx!Init, Typed, Marks
<1>2. ASSUME NEW c \in Calls PROVE CallInv(c)
  <2>1. pc[c] = "start" /\ tx[c] = "none" /\ entity[c] = Absent /\ pending[c] = None
        /\ stage[c] = FirstStage(req[c])
    BY DEF Init, Tx!Init
  <2>2. Mutates(req[c]) => stage[c] = "lookup"
    BY <2>1 DEF Mutates, FirstStage
  <2>. QED
    BY <2>1, <2>2 DEF CallInv, NotBegunHoldsNothing, WritesLast, PendingLocked, Fresh, WritesFromEntity
<1>. QED
  BY <1>1, <1>2 DEF IInv

----
\* The transaction's part of a step of d.
TxMoves(d) ==
  \/ Tx!Begin(d) \/ Tx!BeginFails(d)
  \/ \E o : Tx!OperationReturns(d, o)
  \/ Tx!OperationFails(d, Zero)
  \/ \E how \in {"panicking", "exiting"} : Tx!OperationAborts(d, how)
  \/ Tx!CommitSucceeds(d) \/ Tx!CommitFails(d) \/ Tx!CommitPanics(d)
  \/ Tx!Rollback(d) \/ Tx!RollbackFails(d) \/ Tx!NoRollback(d)
  \/ Tx!Return(d) \/ Tx!Exit(d)
  \/ Tx!ContextDone(d) \/ Tx!ServerEnds(d)
  \/ UNCHANGED txVars

\* It concerns d alone; only BeginTx opens a transaction, only an operation
\* that returns leads to the commit, and only the commit commits.
TxFacts(d) ==
  /\ pc' \in [Calls -> {"start", "operation", "commit", "deferred", "return", "replied", "exited"}]
  /\ tx' \in [Calls -> {"none", "open", "committing", "committed", "orphaned", "rolledback"}]
  /\ \A c \in Calls \ {d} : pc'[c] = pc[c] /\ tx'[c] = tx[c]
  /\ tx'[d] = "open" => tx[d] = "open" \/ pc[d] = "start"
  /\ tx'[d] = "committing" => tx[d] = "committing" \/ (tx[d] = "open" /\ pc[d] = "commit")
  /\ pc'[d] = "start" => pc[d] = "start" /\ (tx[d] = "none" => tx'[d] = "none")
  /\ pc'[d] = "commit" => pc[d] = "commit" \/ \E o : Tx!OperationReturns(d, o)
  /\ tx'[d] = "committed" => tx[d] \in {"committed", "committing"} \/ (tx[d] = "open" /\ pc[d] = "commit")

LEMMA TxStep ==
  ASSUME Typed, NEW d \in Calls, TxMoves(d)
  PROVE  TxFacts(d)
<1> USE DEF Typed, TxFacts
<1>1. CASE Tx!Begin(d) \/ Tx!BeginFails(d)
  BY <1>1 DEF Tx!Begin, Tx!BeginFails
<1>2. CASE \E o : Tx!OperationReturns(d, o)
  BY <1>2 DEF Tx!OperationReturns
<1>3. CASE Tx!OperationFails(d, Zero)
  BY <1>3 DEF Tx!OperationFails
<1>4. CASE \E how \in {"panicking", "exiting"} : Tx!OperationAborts(d, how)
  BY <1>4 DEF Tx!OperationAborts
<1>5. CASE Tx!CommitSucceeds(d)
  BY <1>5 DEF Tx!CommitSucceeds
<1>6. CASE Tx!CommitFails(d) \/ Tx!CommitPanics(d)
  <2>1. Tx!AfterBadCommit(d) \cup {tx[d]} \subseteq {"none", "open", "committing", "committed", "orphaned", "rolledback"}
    BY DEF Tx!AfterBadCommit
  <2>2. \E s \in Tx!AfterBadCommit(d) \cup {tx[d]} : tx' = [tx EXCEPT ![d] = s]
    BY <1>6 DEF Tx!CommitFails, Tx!CommitPanics
  <2>3. pc[d] = "commit" /\ pc' = [pc EXCEPT ![d] = "deferred"]
    BY <1>6 DEF Tx!CommitFails, Tx!CommitPanics
  <2>4. /\ tx'[d] = "open" => tx[d] = "open"
        /\ tx'[d] = "committing" => tx[d] \in {"committing", "open"}
        /\ tx'[d] = "committed" => tx[d] \in {"committed", "open"}
    BY <2>2 DEF Tx!AfterBadCommit
  <2>. QED
    BY <2>1, <2>2, <2>3, <2>4
<1>7. CASE Tx!Rollback(d) \/ Tx!RollbackFails(d) \/ Tx!NoRollback(d)
  BY <1>7 DEF Tx!Rollback, Tx!RollbackFails, Tx!NoRollback, Tx!LeaveDeferred
<1>8. CASE Tx!Return(d) \/ Tx!Exit(d)
  BY <1>8 DEF Tx!Return, Tx!Exit
<1>9. CASE Tx!ContextDone(d) \/ Tx!ServerEnds(d)
  BY <1>9 DEF Tx!ContextDone, Tx!ServerEnds, Tx!ServerRollsBack, Tx!ServerCommits
<1>10. CASE UNCHANGED txVars
  BY <1>10 DEF txVars
<1>. QED
  BY <1>1, <1>2, <1>3, <1>4, <1>5, <1>6, <1>7, <1>8, <1>9, <1>10 DEF TxMoves

----
\* Nothing that the invariant of c speaks about has changed, in particular not
\* the rows that c has locked.
Untouched(c) ==
  /\ pc'[c] = pc[c] /\ tx'[c] = tx[c] /\ req'[c] = req[c] /\ stage'[c] = stage[c]
  /\ entity'[c] = entity[c] /\ loaded'[c] = loaded[c] /\ pending'[c] = pending[c]
  /\ \A k \in Keys : lock[k] = c => lock'[k] = c /\ rows'[k] = rows[k]

LEMMA UntouchedKeeps ==
  ASSUME Typed, NEW c \in Calls, CallInv(c), Untouched(c)
  PROVE  CallInv(c)'
<1>1. req[c].id \in Keys /\ (pending[c] # None => pending[c].key \in Keys)
  BY RequestShape DEF Typed, Pendings
<1>2. NotBegunHoldsNothing(c)'
  BY DEF Untouched, CallInv, NotBegunHoldsNothing
<1>3. PendingLocked(c)'
  BY <1>1 DEF Untouched, CallInv, PendingLocked, Holds
<1>4. Fresh(c)'
  BY <1>1 DEF Untouched, CallInv, Fresh, Holds, Mutates, Visible
<1>5. Prepared(c)' = Prepared(c)
  BY DEF Untouched, Prepared, Merged, DeletedRow, SyncsLinks, MergedLinks, DeletedLinks
<1>6. WritesFromEntity(c)' /\ WritesLast(c)'
  BY <1>5 DEF Untouched, CallInv, WritesFromEntity, WritesLast, Mutates
<1>. QED
  BY <1>2, <1>3, <1>4, <1>6 DEF CallInv

\* A step of d that leaves the rows, the locks and the writes alone.
Quiet(d) ==
  /\ UNCHANGED <<rows, links, lock, fresh, pending, req, entity, loaded>>
  /\ stage' \in [Calls -> Statements \cup {"output"}]
  /\ \A c \in Calls \ {d} : stage'[c] = stage[c]
  /\ Mutates(req[d]) \/ stage'[d] \in {"insert", "lookup"} => stage'[d] = stage[d]
  /\ (\E o : Tx!OperationReturns(d, o)) => stage[d] = "output"

LEMMA QuietKeeps ==
  ASSUME IInv, NEW d \in Calls, TxMoves(d), Quiet(d)
  PROVE  IInv'
<1>1. TxFacts(d)
  BY TxStep DEF IInv
<1>2. Typed'
  BY <1>1 DEF IInv, Typed, TxFacts, Quiet
<1>3. ASSUME NEW c \in Calls, c # d PROVE CallInv(c)'
  <2>1. Untouched(c)
    BY <1>1, <1>3 DEF TxFacts, Quiet, Untouched
  <2>. QED
    BY <2>1, UntouchedKeeps DEF IInv
<1>4. CallInv(d)'
  <2>1. CallInv(d) /\ Typed
    BY DEF IInv
  <2>2. NotBegunHoldsNothing(d)'
    BY <1>1, <2>1 DEF TxFacts, Quiet, CallInv, NotBegunHoldsNothing
  <2>3. PendingLocked(d)'
    BY <1>1, <2>1 DEF TxFacts, Quiet, CallInv, NotBegunHoldsNothing, PendingLocked, Holds
  <2>4. Fresh(d)'
    BY <1>1, <2>1 DEF TxFacts, Quiet, CallInv, NotBegunHoldsNothing, Fresh, Holds, Mutates, Visible
  <2>5. Prepared(d)' = Prepared(d)
    BY DEF Quiet, Prepared, Merged, DeletedRow, SyncsLinks, MergedLinks, DeletedLinks
  <2>6. WritesFromEntity(d)' /\ WritesLast(d)'
    BY <1>1, <2>1, <2>5 DEF TxFacts, Quiet, CallInv, WritesFromEntity, WritesLast, Mutates
  <2>. QED
    BY <2>2, <2>3, <2>4, <2>6 DEF CallInv
<1>. QED
  BY <1>2, <1>3, <1>4 DEF IInv

\* The steps that are no SQL write and no end of a transaction are quiet.
LEMMA QuietSteps ==
  ASSUME IInv, NEW d \in Calls,
         \/ Begin(d) \/ BeginFails(d) \/ OperationFails(d) \/ OperationAborts(d)
         \/ StatementRefused(d) \/ Output(d) \/ Query(d) \/ Count(d) \/ Returns(d)
         \/ ContextDone(d)
  PROVE  TxMoves(d) /\ Quiet(d)
<1> USE DEF TxMoves, Quiet, dbVars, opVars
<1>t. Typed /\ WritesFromEntity(d)
  BY DEF IInv, CallInv
<1>1. CASE Begin(d) \/ BeginFails(d)
  BY <1>1, <1>t DEF Begin, BeginFails, Tx!Begin, Tx!BeginFails, Tx!OperationReturns, Typed
<1>2. CASE OperationFails(d) \/ StatementRefused(d)
  <2>1. Tx!OperationFails(d, Zero) /\ UNCHANGED <<dbVars, opVars>>
    BY <1>2 DEF OperationFails, StatementRefused
  <2>. QED
    BY <2>1, <1>t DEF Tx!OperationFails, Tx!OperationReturns, Typed
<1>3. CASE OperationAborts(d)
  <2>1. (\E how \in {"panicking", "exiting"} : Tx!OperationAborts(d, how)) /\ UNCHANGED <<dbVars, opVars>>
    BY <1>3 DEF OperationAborts
  <2>. QED
    BY <2>1, <1>t DEF Tx!OperationAborts, Tx!OperationReturns, Typed
<1>4. CASE Output(d)
  BY <1>4, <1>t DEF Output, At, Typed
<1>5. CASE Query(d) \/ Count(d)
  <2>1. /\ UNCHANGED <<txVars, rows, links, lock, fresh, pending, req, entity, loaded>>
        /\ stage[d] \in {"query", "count"}
        /\ \E s \in {"count", "output"} : stage' = [stage EXCEPT ![d] = s]
        /\ pc[d] = "operation"
    BY <1>5 DEF Query, Count, Executes, At, GoTo
  <2>2. ~Mutates(req[d])
    BY <2>1, <1>t DEF WritesFromEntity
  <2>3. ~\E o : Tx!OperationReturns(d, o)
    BY <2>1, <1>t DEF Tx!OperationReturns, txVars, Typed
  <2>. QED
    BY <2>1, <2>2, <2>3, <1>t DEF Typed, Statements
<1>6. CASE Returns(d)
  BY <1>6, <1>t DEF Returns, Tx!NoRollback, Tx!Return, Tx!Exit, Tx!OperationReturns, Typed
<1>7. CASE ContextDone(d)
  <2>1. Tx!ContextDone(d) /\ UNCHANGED <<dbVars, opVars>>
    BY <1>7 DEF ContextDone
  <2>. QED
    BY <2>1, <1>t DEF Tx!ContextDone, Tx!OperationReturns, Typed
<1>. QED
  BY <1>1, <1>2, <1>3, <1>4, <1>5, <1>6, <1>7

----
\* A statement of d that may lock one row, and prepare a write.
Locking(d) ==
  /\ UNCHANGED <<rows, links, req>>
  /\ \/ lock' = lock
     \/ \E k \in Keys : CanLock(d, k) /\ lock' = [lock EXCEPT ![k] = d]
  /\ \A c \in Calls \ {d} : /\ stage'[c] = stage[c] /\ entity'[c] = entity[c]
                            /\ loaded'[c] = loaded[c] /\ pending'[c] = pending[c]

LEMMA LockingIsLocal ==
  ASSUME Typed, NEW d \in Calls, TxFacts(d), Locking(d), NEW c \in Calls, c # d
  PROVE  Untouched(c)
BY SentinelAssumption DEF Typed, TxFacts, Locking, CanLock, Untouched

\* The operation's own side of such a statement.
LEMMA LockingKeeps ==
  ASSUME IInv, NEW d \in Calls, TxMoves(d), Locking(d), Typed', CallInv(d)'
  PROVE  IInv'
<1>1. TxFacts(d)
  BY TxStep DEF IInv
<1>2. ASSUME NEW c \in Calls, c # d PROVE CallInv(c)'
  BY <1>1, <1>2, LockingIsLocal, UntouchedKeeps DEF IInv
<1>. QED
  BY <1>2 DEF IInv

LEMMA InsertKeeps == ASSUME IInv, NEW d \in Calls, Insert(d) PROVE IInv'
<1>t. Typed /\ CallInv(d)
  BY DEF IInv
<1>1. PICK k \in Keys, o \in Owners :
        /\ CanLock(d, k) /\ lock' = [lock EXCEPT ![k] = d]
        /\ pending' = [pending EXCEPT ![d] = [key |-> k, row |-> NewRow(d, o), links |-> d]]
        /\ fresh' = fresh \ {k}
  BY <1>t DEF Insert, Locks, Writes, Typed
<1>2. /\ UNCHANGED <<txVars, rows, links, req, entity, loaded>>
      /\ stage' = [stage EXCEPT ![d] = "output"]
      /\ pc[d] = "operation" /\ stage[d] = "insert"
  BY DEF Insert, Executes, At, GoTo
<1>3. TxMoves(d) /\ Locking(d)
  BY <1>1, <1>2, <1>t DEF TxMoves, Locking, Typed
<1>4. NewRow(d, o) \in Rows
  BY NewRowTyped DEF Marks
<1>5. Typed'
  <2>1. [key |-> k, row |-> NewRow(d, o), links |-> d] \in Pendings
    BY <1>4 DEF Pendings, Marks
  <2>2. pending' \in [Calls -> Pendings \cup {None}]
    BY <1>1, <1>t, <2>1 DEF Typed
  <2>. QED
    BY <1>1, <1>2, <1>t, <2>2 DEF Typed, Statements, txVars
<1>6. CallInv(d)'
  <2>1. ~Mutates(req[d])
    BY <1>2, <1>t DEF CallInv, WritesFromEntity
  <2>2. PendingLocked(d)'
    BY <1>1, <1>t DEF PendingLocked, Typed
  <2>. QED
    BY <1>2, <1>t, <2>1, <2>2
    DEF CallInv, NotBegunHoldsNothing, WritesLast, Fresh, WritesFromEntity, Mutates, Typed, txVars
<1>. QED
  BY <1>3, <1>5, <1>6, LockingKeeps

LEMMA LookupHitsKeeps == ASSUME IInv, NEW d \in Calls, LookupHits(d) PROVE IInv'
<1> DEFINE k == req[d].id
<1>t. Typed /\ CallInv(d) /\ k \in Keys
  BY RequestShape DEF IInv
<1>1. /\ stage[d] = "lookup" /\ pc[d] = "operation" /\ tx[d] = "open"
      /\ Visible(rows[k], req[d].scope)
      /\ entity' = [entity EXCEPT ![d] = rows[k]]
      /\ loaded' = [loaded EXCEPT ![d] = links[k]]
      /\ UNCHANGED <<txVars, rows, links, fresh, pending, req>>
      /\ \E s \in {"output", "write"} : stage' = [stage EXCEPT ![d] = s]
      /\ IF Mutates(req[d]) THEN CanLock(d, k) /\ lock' = [lock EXCEPT ![k] = d] ELSE lock' = lock
  BY DEF LookupHits, Executes, At, GoTo, ForUpdate, Locks
<1>2. TxMoves(d) /\ Locking(d)
  BY <1>1, <1>t DEF TxMoves, Locking, Typed
<1>3. Typed'
  BY <1>1, <1>t DEF Typed, Statements, txVars
<1>4. CallInv(d)'
  <2>1. rows[k] # Absent /\ entity'[d] = rows[k] /\ rows'[k] = rows[k]
    BY <1>1, <1>t DEF Visible, Typed
  <2>2. pending'[d] = None
    BY <1>1, <1>t DEF CallInv, WritesLast
  <2>3. NotBegunHoldsNothing(d)' /\ PendingLocked(d)' /\ WritesLast(d)'
    BY <1>1, <2>2 DEF NotBegunHoldsNothing, PendingLocked, WritesLast, txVars
  <2>4. Fresh(d)'
    BY <1>1, <1>t, <2>1 DEF Fresh, Holds, Mutates, Visible, Typed
  <2>5. stage'[d] \in {"output", "write"}
    BY <1>1, <1>t DEF Typed
  <2>6. WritesFromEntity(d)'
    BY <2>1, <2>2, <2>5 DEF WritesFromEntity
  <2>. QED
    BY <2>3, <2>4, <2>6 DEF CallInv
<1>. QED
  BY <1>2, <1>3, <1>4, LockingKeeps

LEMMA LookupMissesKeeps == ASSUME IInv, NEW d \in Calls, LookupMisses(d) PROVE IInv'
<1> DEFINE k == req[d].id
<1>t. Typed /\ CallInv(d) /\ k \in Keys
  BY RequestShape DEF IInv
<1>1. /\ stage[d] = "lookup" /\ pc[d] = "operation"
      /\ Tx!OperationFails(d, Zero)
      /\ UNCHANGED <<rows, links, fresh, pending, req, stage, entity, loaded>>
      /\ lock' = lock \/ (CanLock(d, k) /\ lock' = [lock EXCEPT ![k] = d])
  BY DEF LookupMisses, Executes, At, Locks
<1>2. TxMoves(d) /\ Locking(d)
  BY <1>1, <1>t DEF TxMoves, Locking
<1>3. TxFacts(d)
  BY <1>2, <1>t, TxStep
<1>4. Typed'
  BY <1>1, <1>t, <1>3 DEF Typed, TxFacts
<1>5. CallInv(d)'
  <2>1. /\ pc' = [pc EXCEPT ![d] = "deferred"] /\ UNCHANGED tx
        /\ \A l \in Keys : lock[l] = d => lock'[l] = d
    BY <1>1, <1>t DEF Tx!OperationFails, Typed
  <2>2. pc'[d] = "deferred" /\ tx'[d] = tx[d]
    BY <2>1, <1>t DEF Typed
  <2>3. pending[d] = None
    BY <1>1, <1>t DEF CallInv, WritesLast
  <2>4. Fresh(d)'
    BY <1>1, <1>t, <2>1, <2>2 DEF CallInv, Fresh, Holds, Mutates, Visible
  <2>5. WritesFromEntity(d)'
    BY <1>1, <1>t, <2>2, <2>3 DEF CallInv, WritesFromEntity, Mutates
  <2>6. NotBegunHoldsNothing(d)' /\ PendingLocked(d)' /\ WritesLast(d)'
    BY <1>1, <2>2, <2>3 DEF NotBegunHoldsNothing, PendingLocked, WritesLast
  <2>. QED
    BY <2>4, <2>5, <2>6 DEF CallInv
<1>. QED
  BY <1>2, <1>4, <1>5, LockingKeeps

\* Update, patch and delete write what Prepared says, from the entity.
LEMMA WriteKeeps ==
  ASSUME IInv, NEW d \in Calls, Mutates(req[d]), TxMoves(d),
         Executes(d, "write"), CanLock(d, req[d].id), Locks(d, req[d].id),
         pending' = [pending EXCEPT ![d] = Prepared(d)],
         pc'[d] # "start",
         \E s \in {"write", "output"} : stage' = [stage EXCEPT ![d] = s],
         UNCHANGED <<rows, links, fresh, req, entity, loaded>>
  PROVE  IInv'
<1> DEFINE k == req[d].id
<1>t. Typed /\ CallInv(d) /\ k \in Keys /\ TxFacts(d)
  BY RequestShape, TxStep DEF IInv
<1>1. Locking(d)
  BY <1>t DEF Locking, Typed, Locks
<1>2. stage[d] = "write" /\ stage'[d] \in {"write", "output"} /\ entity[d] # Absent /\ tx[d] = "open"
  BY <1>t DEF Executes, At, Typed, CallInv, WritesFromEntity
<1>3. Prepared(d) \in Pendings /\ pending'[d] = Prepared(d) /\ Prepared(d).key = k
  BY <1>t, <1>2, WritesTyped DEF Typed, Prepared
<1>4. Typed'
  BY <1>t, <1>3 DEF Typed, TxFacts, Locks, Statements
<1>5. lock'[k] = d
  BY <1>t DEF Locks, Typed
<1>6. Prepared(d)' = Prepared(d)
  BY DEF Prepared, Merged, DeletedRow, SyncsLinks, MergedLinks, DeletedLinks
<1>7. NotBegunHoldsNothing(d)' /\ WritesLast(d)'
  BY <1>2 DEF NotBegunHoldsNothing, WritesLast
<1>8. PendingLocked(d)'
  BY <1>3, <1>5, <1>6 DEF PendingLocked
<1>9. Fresh(d)'
  BY <1>2, <1>5, <1>t DEF CallInv, Fresh, Holds, Mutates, Visible
<1>10. WritesFromEntity(d)'
  BY <1>2, <1>3, <1>6 DEF WritesFromEntity
<1>11. CallInv(d)'
  BY <1>7, <1>8, <1>9, <1>10 DEF CallInv
<1>. QED
  BY <1>1, <1>4, <1>11, LockingKeeps

LEMMA ModifyOrDeleteKeeps ==
  ASSUME IInv, NEW d \in Calls,
         ModifyWrites(d) \/ DeleteWrites(d) \/ DeleteNoContentWrites(d)
  PROVE  IInv'
<1>t. Typed
  BY DEF IInv
<1>1. /\ Executes(d, "write") /\ CanLock(d, req[d].id) /\ Locks(d, req[d].id)
      /\ UNCHANGED <<rows, links, fresh, req, entity, loaded>>
      /\ pc[d] = "operation"
  BY DEF ModifyWrites, DeleteWrites, DeleteNoContentWrites, Executes, At
<1>2. Mutates(req[d]) /\ pending' = [pending EXCEPT ![d] = Prepared(d)]
  <2>1. CASE ModifyWrites(d)
    BY <2>1 DEF ModifyWrites, Mutates, Writes, Prepared
  <2>2. CASE DeleteWrites(d) \/ DeleteNoContentWrites(d)
    BY <2>2 DEF DeleteWrites, DeleteNoContentWrites, Mutates, Writes, Prepared
  <2>. QED
    BY <2>1, <2>2
<1>3. CASE ModifyWrites(d) \/ DeleteWrites(d)
  <2>1. UNCHANGED txVars /\ stage' = [stage EXCEPT ![d] = "output"]
    BY <1>3 DEF ModifyWrites, DeleteWrites, GoTo
  <2>2. pc'[d] # "start"
    BY <1>1, <2>1 DEF txVars
  <2>. QED
    BY <1>1, <1>2, <2>1, <2>2, WriteKeeps DEF TxMoves
<1>4. CASE DeleteNoContentWrites(d)
  <2>1. Tx!OperationReturns(d, [row |-> Absent]) /\ stage' = stage
    BY <1>4 DEF DeleteNoContentWrites
  <2>2. pc'[d] # "start"
    BY <1>t, <2>1 DEF Tx!OperationReturns, Typed
  <2>3. stage' = [stage EXCEPT ![d] = "write"]
    BY <1>1, <1>t, <2>1 DEF Executes, At, Typed
  <2>4. TxMoves(d)
    BY <2>1 DEF TxMoves
  <2>. QED
    BY <1>1, <1>2, <2>2, <2>3, <2>4, WriteKeeps
<1>. QED
  BY <1>3, <1>4

----
\* The end of the transaction of d: its write is installed or given up, and
\* nothing else changes.
Ends(d) ==
  /\ ~Holds(d)' /\ (pc'[d] = "commit" => pc[d] = "commit") /\ pc'[d] # "start"
  /\ lock' = Unlocked(d) /\ pending' = [pending EXCEPT ![d] = None]
  /\ LET w == pending[d] IN
     /\ rows' = rows \/ (w # None /\ rows' = [rows EXCEPT ![w.key] = w.row])
     /\ links' = links \/ (w # None /\ w.links # Keep /\ links' = [links EXCEPT ![w.key] = w.links])
  /\ rows' = rows \/ Holds(d)
  /\ UNCHANGED <<fresh, opVars>>

LEMMA EndsKeeps == ASSUME IInv, NEW d \in Calls, TxMoves(d), Ends(d) PROVE IInv'
<1>t. Typed /\ CallInv(d) /\ TxFacts(d)
  BY TxStep DEF IInv
<1>1. pending[d] # None => pending[d] \in Pendings
  BY <1>t DEF Typed
<1>2. Typed'
  <2>1. lock' \in [Keys -> Calls \cup {Free}]
    BY <1>t DEF Ends, Unlocked, Typed
  <2>2. rows' \in [Keys -> Rows \cup {Absent}] /\ links' \in [Keys -> Marks \cup {Absent}]
    BY <1>t, <1>1 DEF Ends, Typed, Pendings
  <2>. QED
    BY <1>t, <2>1, <2>2 DEF Ends, Typed, TxFacts, opVars
<1>3. ASSUME NEW c \in Calls, c # d PROVE CallInv(c)'
  <2>1. ASSUME NEW k \in Keys, lock[k] = c PROVE lock'[k] = c /\ rows'[k] = rows[k]
    <3>1. lock'[k] = c
      BY <2>1, <1>3 DEF Ends, Unlocked
    <3>2. CASE rows' # rows
      <4>1. pending[d] # None /\ lock[pending[d].key] = d
        BY <1>t, <3>2 DEF Ends, CallInv, PendingLocked
      <4>2. pending[d].key # k
        BY <4>1, <2>1, <1>3
      <4>. QED
        BY <3>1, <3>2, <4>2, <1>t DEF Ends, Typed
    <3>. QED
      BY <3>1, <3>2
  <2>2. Untouched(c)
    BY <1>3, <1>t, <2>1 DEF Untouched, TxFacts, Ends, opVars, Typed
  <2>. QED
    BY <2>2, <1>3, <1>t, UntouchedKeeps DEF IInv
<1>4. CallInv(d)'
  <2>1. pending'[d] = None
    BY <1>t DEF Ends, Typed
  <2>2. NotBegunHoldsNothing(d)' /\ WritesLast(d)' /\ PendingLocked(d)'
    BY <2>1 DEF Ends, NotBegunHoldsNothing, WritesLast, PendingLocked
  <2>3. Fresh(d)'
    BY <1>t DEF Ends, CallInv, Fresh, Holds, Mutates, Visible, opVars
  <2>4. WritesFromEntity(d)'
    BY <1>t, <2>1 DEF Ends, Holds, CallInv, WritesFromEntity, Mutates, opVars
  <2>. QED
    BY <2>2, <2>3, <2>4 DEF CallInv
<1>. QED
  BY <1>2, <1>3, <1>4 DEF IInv

LEMMA FinishSteps ==
  ASSUME IInv, NEW d \in Calls, Finish(d) \/ ServerEnds(d)
  PROVE  TxMoves(d) /\ (Quiet(d) \/ Ends(d))
<1>t. Typed /\ CallInv(d)
  BY DEF IInv
<1>1. TxMoves(d) /\ Settles(d) /\ UNCHANGED opVars
  BY DEF Finish, CommitSucceeds, CommitFails, CommitPanics, Rollback, RollbackFails, ServerEnds, TxMoves
<1>2. /\ pc[d] # "operation" \/ tx' # tx
      /\ pc'[d] = "commit" => pc[d] = "commit"
      /\ pc'[d] = "start" => pc[d] = "start"
  <2>1. CASE ServerEnds(d)
    BY <2>1, <1>t DEF ServerEnds, Tx!ServerEnds, Tx!ServerRollsBack, Tx!ServerCommits, Typed
  <2>2. CASE Finish(d)
    BY <2>2, <1>t DEF Finish, CommitSucceeds, CommitFails, CommitPanics, Rollback, RollbackFails,
         Tx!CommitSucceeds, Tx!CommitFails, Tx!CommitPanics, Tx!Rollback, Tx!RollbackFails,
         Tx!LeaveDeferred, Typed
  <2>. QED
    BY <2>1, <2>2
<1>3. CASE UNCHANGED dbVars
  <2>1. ~\E o : Tx!OperationReturns(d, o)
    BY <1>2 DEF Tx!OperationReturns
  <2>. QED
    BY <1>1, <1>3, <1>t, <2>1 DEF Quiet, dbVars, opVars, Typed
<1>4. CASE tx'[d] = "committed" /\ Holds(d) /\ Installs(d)
  <2>1. pc'[d] # "start"
    BY <1>2, <1>4, <1>t DEF CallInv, NotBegunHoldsNothing, Holds
  <2>. QED
    BY <1>1, <1>2, <1>4, <2>1 DEF Ends, Installs, Holds
<1>5. CASE tx'[d] = "rolledback" /\ tx[d] # "rolledback" /\ Discards(d)
  <2>1. pc'[d] # "start"
    <3>1. TxFacts(d)
      BY <1>1, <1>t, TxStep
    <3>. QED
      BY <1>5, <1>t, <3>1 DEF TxFacts, CallInv, NotBegunHoldsNothing
  <2>. QED
    BY <1>1, <1>2, <1>5, <2>1 DEF Ends, Discards, Holds
<1>. QED
  BY <1>1, <1>3, <1>4, <1>5 DEF Settles, Holds, dbVars

----
\* Other programs write a row only while nobody has it locked.
LEMMA OthersKeep ==
  ASSUME IInv, NEW k \in Keys, OtherMoves(k) \/ OtherLinks(k)
  PROVE  IInv'
<1>t. Typed
  BY DEF IInv
<1>1. /\ UNCHANGED <<txVars, lock, fresh, pending, opVars>>
      /\ \/ rows' = rows
         \/ lock[k] = Free /\ \E o \in Owners : rows' = [rows EXCEPT ![k].owner = o]
      /\ links' = links \/ links' = [links EXCEPT ![k] = Other]
      /\ rows[k] # Absent
  BY DEF OtherMoves, OtherLinks
<1>2. rows' \in [Keys -> Rows \cup {Absent}]
  <2>1. \A o \in Owners : [rows[k] EXCEPT !.owner = o] \in Rows
    BY <1>1, <1>t DEF Typed, Rows
  <2>. QED
    BY <1>1, <1>t, <2>1 DEF Typed
<1>3. Typed'
  BY <1>1, <1>2, <1>t DEF Typed, txVars, opVars, Marks
<1>4. ASSUME NEW c \in Calls PROVE Untouched(c)
  BY <1>1, <1>t, SentinelAssumption DEF Untouched, txVars, opVars, Typed
<1>. QED
  BY <1>3, <1>4, <1>t, UntouchedKeeps DEF IInv

LEMMA StutterKeeps == ASSUME IInv, UNCHANGED vars PROVE IInv'
<1>1. Typed' /\ \A c \in Calls : Untouched(c)
  BY DEF IInv, Typed, Untouched, vars, txVars, dbVars, opVars
<1>. QED
  BY <1>1, UntouchedKeeps DEF IInv

LEMMA Inductive == IInv /\ [Next]_vars => IInv'
<1> SUFFICES ASSUME IInv, [Next]_vars PROVE IInv'
  OBVIOUS
<1>1. ASSUME NEW d \in Calls, Step(d) \/ ContextDone(d) \/ ServerEnds(d) PROVE IInv'
  <2>1. CASE \/ Begin(d) \/ BeginFails(d) \/ OperationFails(d) \/ OperationAborts(d)
             \/ StatementRefused(d) \/ Output(d) \/ Query(d) \/ Count(d) \/ Returns(d)
             \/ ContextDone(d)
    BY <2>1, QuietSteps, QuietKeeps
  <2>2. CASE Insert(d)
    BY <2>2, InsertKeeps
  <2>3. CASE LookupHits(d)
    BY <2>3, LookupHitsKeeps
  <2>4. CASE LookupMisses(d)
    BY <2>4, LookupMissesKeeps
  <2>5. CASE ModifyWrites(d) \/ DeleteWrites(d) \/ DeleteNoContentWrites(d)
    BY <2>5, ModifyOrDeleteKeeps
  <2>6. CASE Finish(d) \/ ServerEnds(d)
    BY <2>6, FinishSteps, QuietKeeps, EndsKeeps
  <2>. QED
    BY <1>1, <2>1, <2>2, <2>3, <2>4, <2>5, <2>6 DEF Step, Operation, Interrupted, Statement
<1>2. ASSUME NEW k \in Keys, OtherMoves(k) \/ OtherLinks(k) PROVE IInv'
  BY <1>2, OthersKeep
<1>3. CASE UNCHANGED vars
  BY <1>3, StutterKeeps
<1>. QED
  BY <1>1, <1>2, <1>3 DEF Next, Rest

\* IInv holds in every reachable state.
THEOREM InvariantHolds == Spec => []IInv
BY InitEstablishes, Inductive, PTL DEF Spec

----
\* Between its lookup and its commit an update, patch or delete works on the
\* current row (EntityFresh): the FOR UPDATE lock is enough, for any number of
\* requests, rows, faults and foreign writers.
THEOREM EntitiesAreFresh == Spec => []EntityFresh
<1>1. IInv => EntityFresh
  BY DEF IInv, CallInv, Fresh, EntityFresh
<1>. QED
  BY <1>1, InvariantHolds, PTL

\* COMMIT is being called, or the server has one to decide.
Committable(c) == \/ tx[c] = "open" /\ pc[c] = "commit"
                  \/ tx[c] = "committing"

\* What a commit of c does to the data.
LEMMA CommitInstalls ==
  ASSUME IInv, [Next]_vars, NEW c \in Calls, Commits(c)
  PROVE  Committable(c) /\ Installs(c)
<1>t. Typed /\ \A d \in Calls : CallInv(d)
  BY DEF IInv
<1>1. tx[c] # "committed" /\ tx'[c] = "committed"
  BY DEF Commits
<1>2. ASSUME NEW d \in Calls, TxMoves(d) PROVE c = d /\ Committable(c)
  <2>1. TxFacts(d)
    BY <1>2, <1>t, TxStep
  <2>. QED
    BY <1>1, <2>1 DEF TxFacts, Committable
<1>3. ASSUME NEW d \in Calls, Step(d) \/ ContextDone(d) \/ ServerEnds(d)
      PROVE  Committable(c) /\ Installs(c)
  <2>1. CASE Finish(d) \/ ServerEnds(d)
    <3>1. c = d /\ Committable(c)
      BY <2>1, <1>2, FinishSteps
    <3>2. Settles(d)
      BY <2>1 DEF Finish, CommitSucceeds, CommitFails, CommitPanics, Rollback, RollbackFails, ServerEnds
    <3>. QED
      BY <1>1, <3>1, <3>2 DEF Settles
  <2>2. CASE \/ Begin(d) \/ BeginFails(d) \/ OperationFails(d) \/ OperationAborts(d)
             \/ StatementRefused(d) \/ Output(d) \/ Query(d) \/ Count(d) \/ Returns(d)
             \/ ContextDone(d)
    <3>1. c = d /\ Committable(c) /\ TxMoves(d)
      BY <2>2, <1>2, QuietSteps
    <3>2. CASE Begin(d)
      BY <1>1, <3>1, <3>2, <1>t DEF Begin, Tx!Begin, Typed
    <3>3. CASE BeginFails(d) \/ OperationFails(d) \/ OperationAborts(d) \/ StatementRefused(d)
      BY <1>1, <3>3 DEF BeginFails, OperationFails, OperationAborts, StatementRefused,
           Tx!BeginFails, Tx!OperationFails, Tx!OperationAborts
    <3>4. CASE Output(d) \/ Query(d) \/ Count(d) \/ Returns(d)
      BY <1>1, <3>4 DEF Output, Query, Count, Returns, txVars, Tx!OperationReturns,
           Tx!NoRollback, Tx!Return, Tx!Exit
    <3>5. CASE ContextDone(d)
      BY <1>1, <3>1, <3>5, <1>t DEF ContextDone, Tx!ContextDone, Typed
    <3>. QED
      BY <2>2, <3>2, <3>3, <3>4, <3>5
  <2>3. CASE \/ Insert(d) \/ LookupHits(d) \/ LookupMisses(d)
             \/ ModifyWrites(d) \/ DeleteWrites(d) \/ DeleteNoContentWrites(d)
    <3>1. UNCHANGED tx
      BY <2>3 DEF Insert, LookupHits, LookupMisses, ModifyWrites, DeleteWrites, DeleteNoContentWrites,
           txVars, Tx!OperationFails, Tx!OperationReturns
    <3>. QED
      BY <1>1, <3>1
  <2>. QED
    BY <1>3, <2>1, <2>2, <2>3 DEF Step, Operation, Interrupted, Statement
<1>4. CASE (\E k \in Keys : OtherMoves(k) \/ OtherLinks(k)) \/ UNCHANGED vars
  <2>1. UNCHANGED tx
    BY <1>4 DEF OtherMoves, OtherLinks, txVars, vars
  <2>. QED
    BY <1>1, <2>1
<1>. QED
  BY <1>3, <1>4 DEF Next, Rest

\* A committing update, patch or delete has its entity: visible, locked and
\* current; what it installs is what Prepared made of it, if anything.
LEMMA CommitFromEntity ==
  ASSUME IInv, [Next]_vars, NEW c \in Calls, Commits(c), Mutates(req[c])
  PROVE  /\ req[c].id \in Keys
         /\ entity[c] \in Rows /\ rows[req[c].id] = entity[c]
         /\ Visible(rows[req[c].id], req[c].scope)
         /\ pending[c] = None \/ pending[c] = Prepared(c)
         /\ Installs(c)
<1>1. Typed /\ CallInv(c) /\ Committable(c) /\ Installs(c)
  BY CommitInstalls DEF IInv
<1>2. entity[c] # Absent
  BY <1>1 DEF CallInv, WritesFromEntity, Committable
<1>3. Visible(entity[c], req[c].scope) /\ rows[req[c].id] = entity[c]
  BY <1>1, <1>2 DEF CallInv, Fresh, Committable, Holds
<1>. QED
  BY <1>1, <1>2, <1>3, RequestShape DEF Typed, CallInv, WritesFromEntity

\* A row is visible to the request that changes it at the moment of the commit,
\* and no other row changes with it (WritesStayInScope).
THEOREM ScopeIsKept == Spec => WritesStayInScope
<1>1. ASSUME IInv, [Next]_vars, NEW c \in Calls, Commits(c), Mutates(req[c])
      PROVE  /\ Visible(rows[req[c].id], req[c].scope)
             /\ \A k \in Keys \ {req[c].id} : rows'[k] = rows[k]
  <2>1. /\ Visible(rows[req[c].id], req[c].scope) /\ Installs(c) /\ Typed
        /\ pending[c] = None \/ pending[c] = Prepared(c)
    BY <1>1, CommitFromEntity DEF IInv
  <2>2. rows' = rows \/ rows' = [rows EXCEPT ![Prepared(c).key] = Prepared(c).row]
    BY <2>1 DEF Installs
  <2>3. Prepared(c).key = req[c].id
    BY DEF Prepared
  <2>. QED
    BY <2>1, <2>2, <2>3 DEF Typed
<1>2. IInv /\ [Next]_vars =>
        [\A c \in Calls :
           Commits(c) /\ Mutates(req[c]) /\ result[c] # NotFound
             => /\ Visible(rows[req[c].id], req[c].scope)
                /\ \A k \in Keys \ {req[c].id} : rows'[k] = rows[k]]_vars
  BY <1>1
<1>. QED
  BY <1>2, InvariantHolds, PTL DEF Spec, WritesStayInScope

\* No update or patch loses what another request committed to the fields that
\* it does not name (OmittedFieldsSurvive).
THEOREM NoLostUpdate == Spec => OmittedFieldsSurvive
<1>1. ASSUME IInv, [Next]_vars, NEW c \in Calls, Commits(c), req[c].op \in {"update", "patch"}
      PROVE  LET old == rows[req[c].id]
                 new == rows'[req[c].id]
             IN /\ new # Absent
                /\ new.owner = old.owner /\ new.deleted = old.deleted
                /\ \A f \in Fields \ req[c].names : new.fields[f] = old.fields[f]
  <2> DEFINE k == req[c].id
  <2>1. Mutates(req[c])
    BY <1>1 DEF Mutates
  <2>2. /\ k \in Keys /\ entity[c] \in Rows /\ rows[k] = entity[c] /\ Installs(c)
        /\ pending[c] = None \/ pending[c] = Prepared(c)
    BY <1>1, <2>1, CommitFromEntity
  <2>3. rows \in [Keys -> Rows \cup {Absent}]
    BY <1>1 DEF IInv, Typed
  <2>4. CASE pending[c] = None
    <3>1. rows'[k] = entity[c]
      BY <2>2, <2>4 DEF Installs
    <3>. QED
      BY <2>2, <3>1, RowFacts
  <2>5. CASE pending[c] # None
    <3>1. Prepared(c).key = k /\ Prepared(c).row = Merged(c)
      BY <1>1 DEF Prepared
    <3>2. rows'[k] = Merged(c)
      BY <2>2, <2>3, <2>5, <3>1 DEF Installs
    <3>3. Merged(c) \in Rows
      BY <1>1, <2>2, RowFacts, WritesTyped DEF IInv
    <3>4. /\ Merged(c).owner = entity[c].owner /\ Merged(c).deleted = entity[c].deleted
          /\ \A f \in Fields \ req[c].names : Merged(c).fields[f] = entity[c].fields[f]
      BY <2>2 DEF Merged, Rows
    <3>. QED
      BY <2>2, <3>2, <3>3, <3>4, RowFacts
  <2>. QED
    BY <2>4, <2>5
<1>2. IInv /\ [Next]_vars =>
        [\A c \in Calls :
           Commits(c) /\ req[c].op \in {"update", "patch"}
             => LET old == rows[req[c].id]
                    new == rows'[req[c].id]
                IN /\ new # Absent
                   /\ new.owner = old.owner /\ new.deleted = old.deleted
                   /\ \A f \in Fields \ req[c].names : new.fields[f] = old.fields[f]]_vars
  BY <1>1
<1>. QED
  BY <1>2, InvariantHolds, PTL DEF Spec, OmittedFieldsSurvive

\* A patch that does not name the association never writes it
\* (OmittedAssociationSurvives).
THEOREM NoUnnamedAssociation == Spec => OmittedAssociationSurvives
<1>1. ASSUME IInv, [Next]_vars, NEW c \in Calls, Commits(c), req[c].op = "patch", ~req[c].relink
      PROVE  links' = links
  <2>1. Mutates(req[c])
    BY <1>1 DEF Mutates
  <2>2. Installs(c) /\ (pending[c] = None \/ pending[c] = Prepared(c))
    BY <1>1, <2>1, CommitFromEntity
  <2>3. Prepared(c).links = Keep
    BY <1>1 DEF Prepared, SyncsLinks
  <2>. QED
    BY <2>2, <2>3 DEF Installs
<1>2. IInv /\ [Next]_vars =>
        [\A c \in Calls :
           Commits(c) /\ req[c].op = "patch" /\ ~req[c].relink => links' = links]_vars
  BY <1>1
<1>. QED
  BY <1>2, InvariantHolds, PTL DEF Spec, OmittedAssociationSurvives

====
