---- MODULE CrudOutcomeProofs ----
(***************************************************************************)
(* CrudStore for any calls, keys, fields, owners, requests and faults:     *)
(* that its requests run inside TxRunner, what a list answers, that a row  *)
(* is deleted once and stays deleted, and that it implements AtomicCrud.   *)
(***************************************************************************)
EXTENDS CrudStoreProofs, FiniteSetTheorems

LEMMA ResultShapes ==
  /\ \A row \in Rows \cup {Absent} : [row |-> row] \in Results
  /\ \A row \in Rows, l \in Marks \cup {Absent} : [row |-> row, links |-> l] \in Results
  /\ ListResults \subseteq Results
BY DEF Results, RowResults, ReadResults

LEMMA MatchingFinite ==
  ASSUME NEW table, NEW scope
  PROVE  /\ IsFiniteSet(Matching(table, scope)) /\ Matching(table, scope) \subseteq Keys
         /\ Cardinality(Matching(table, scope)) \in Nat
<1>1. Matching(table, scope) \subseteq Keys
  BY DEF Matching
<1>2. IsFiniteSet(Matching(table, scope))
  BY <1>1, DataAssumption, FS_Subset
<1>. QED
  BY <1>1, <1>2, FS_CardinalityType

\* A result is there once the output mapper is due; it is a page and its total
\* for a list only.
Kinds(c) ==
  /\ stage[c] \in {"query", "count"} => req[c].op = "list"
  /\ req[c].op = "list" => stage[c] \in {"query", "count", "output"}
  /\ stage[c] = "output" => result[c] \in Results
  /\ stage[c] = "count" => snap[c] # None
  /\ req[c].op = "list" /\ stage[c] \in {"count", "output"} => result[c] \in ListResults

OInv == TypeOK /\ \A c \in Calls : Kinds(c)

LEMMA OTyped == ASSUME TypeOK PROVE Typed
BY DEF TypeOK, Tx!TypeOK, Tx!TxStates, Typed, Tables

----
\* The steps of TxRunner, with what its operations may return.
RunnerMoves(d) ==
  \/ Tx!Begin(d) \/ Tx!BeginFails(d)
  \/ \E o \in Results : Tx!OperationReturns(d, o)
  \/ Tx!OperationFails(d, Zero)
  \/ \E how \in {"panicking", "exiting"} : Tx!OperationAborts(d, how)
  \/ Tx!CommitSucceeds(d) \/ Tx!CommitFails(d) \/ Tx!CommitPanics(d)
  \/ Tx!Rollback(d) \/ Tx!RollbackFails(d) \/ Tx!NoRollback(d)
  \/ Tx!Return(d) \/ Tx!Exit(d)
  \/ Tx!ContextDone(d) \/ Tx!ServerEnds(d)
  \/ UNCHANGED txVars

\* What c's own transaction, answer, operation and result are stays as it is.
Apart(c) ==
  /\ pc'[c] = pc[c] /\ mode'[c] = mode[c] /\ tx'[c] = tx[c] /\ output'[c] = output[c]
  /\ err'[c] = err[c] /\ commits'[c] = commits[c] /\ reply'[c] = reply[c]

LEMMA RunnerTyped ==
  ASSUME Tx!TypeOK, NEW d \in Calls, RunnerMoves(d)
  PROVE  Tx!TypeOK' /\ \A c \in Calls \ {d} : Apart(c)
<1> USE DEF Tx!TypeOK, Tx!Outputs, Tx!TxStates, Tx!Causes, Apart
<1>1. CASE Tx!Begin(d) \/ Tx!BeginFails(d)
  BY <1>1 DEF Tx!Begin, Tx!BeginFails
<1>2. CASE \E o \in Results : Tx!OperationReturns(d, o)
  BY <1>2 DEF Tx!OperationReturns
<1>3. CASE Tx!OperationFails(d, Zero)
  BY <1>3 DEF Tx!OperationFails
<1>4. CASE \E how \in {"panicking", "exiting"} : Tx!OperationAborts(d, how)
  BY <1>4 DEF Tx!OperationAborts
<1>5. CASE Tx!CommitSucceeds(d)
  BY <1>5 DEF Tx!CommitSucceeds, Tx!CallsCommit
<1>6. CASE Tx!CommitFails(d) \/ Tx!CommitPanics(d)
  <2>1. Tx!AfterBadCommit(d) \cup {tx[d]} \subseteq {"none", "open", "committing", "committed", "orphaned", "rolledback"}
    BY DEF Tx!AfterBadCommit
  <2>2. PICK s \in {"none", "open", "committing", "committed", "orphaned", "rolledback"} : tx' = [tx EXCEPT ![d] = s]
    BY <1>6, <2>1 DEF Tx!CommitFails, Tx!CommitPanics
  <2>3. CASE Tx!CommitFails(d)
    BY <2>2, <2>3 DEF Tx!CommitFails, Tx!CallsCommit
  <2>4. CASE Tx!CommitPanics(d)
    BY <2>2, <2>4 DEF Tx!CommitPanics, Tx!CallsCommit
  <2>. QED
    BY <1>6, <2>3, <2>4
<1>7. CASE Tx!Rollback(d) \/ Tx!RollbackFails(d) \/ Tx!NoRollback(d)
  BY <1>7 DEF Tx!Rollback, Tx!RollbackFails, Tx!NoRollback, Tx!CallsRollback, Tx!LeaveDeferred
<1>8. CASE Tx!Return(d) \/ Tx!Exit(d)
  <2>1. Tx!ReplyOf(d) \in Tx!Replies
    BY DEF Tx!ReplyOf, Tx!Replies, Tx!Answers
  <2>. QED
    BY <1>8, <2>1 DEF Tx!Return, Tx!Exit
<1>9. CASE Tx!ContextDone(d) \/ Tx!ServerEnds(d)
  BY <1>9 DEF Tx!ContextDone, Tx!ServerEnds, Tx!ServerRollsBack, Tx!ServerCommits
<1>10. CASE UNCHANGED txVars
  BY <1>10 DEF txVars
<1>. QED
  BY <1>1, <1>2, <1>3, <1>4, <1>5, <1>6, <1>7, <1>8, <1>9, <1>10 DEF RunnerMoves

\* A step of RunnerMoves is one of TxRunner.
LEMMA RunnerSteps ==
  ASSUME NEW d \in Calls, RunnerMoves(d)
  PROVE  [Tx!Next]_(Tx!vars)
<1>1. CASE \E o \in Results : Tx!OperationReturns(d, o)
  BY <1>1 DEF Tx!Operation, Tx!Step, Tx!Proceeds, Tx!Next
<1>2. CASE Tx!OperationFails(d, Zero)
  BY <1>2 DEF Tx!Outputs, Tx!Operation, Tx!Step, Tx!Proceeds, Tx!Next
<1>3. CASE \E how \in {"panicking", "exiting"} : Tx!OperationAborts(d, how)
  BY <1>3 DEF Tx!Operation, Tx!Step, Tx!Proceeds, Tx!Next
<1>4. CASE UNCHANGED txVars
  BY <1>4 DEF txVars, Tx!vars
<1>. QED
  BY <1>1, <1>2, <1>3, <1>4
  DEF RunnerMoves, Tx!Next, Tx!Step, Tx!Proceeds, Tx!Commit, Tx!Deferred

----
\* The types of the data, of the operations and of the bounds.
DataTyped ==
  /\ rows \in Tables /\ links \in [Keys -> Marks \cup {Absent}]
  /\ lock \in [Keys -> Calls \cup {Free}] /\ fresh \subseteq Keys
  /\ pending \in [Calls -> Pendings \cup {None}]
  /\ snap \in [Calls -> Tables \cup {None}]

OpTyped ==
  /\ req \in [Calls -> Requests]
  /\ stage \in [Calls -> Statements \cup {"output"}]
  /\ entity \in [Calls -> Rows \cup {Absent}]
  /\ loaded \in [Calls -> Marks \cup {Absent}]
  /\ result \in [Calls -> Results \cup {None, NotFound}]

BoundTyped == faults \in 0..MaxFaults /\ others \in 0..MaxOthers

LEMMA TypeParts == TypeOK <=> Tx!TypeOK /\ DataTyped /\ OpTyped /\ BoundTyped
BY DEF TypeOK, DataTyped, OpTyped, BoundTyped

LEMMA InitTyped == Init => OInv
<1> SUFFICES ASSUME Init PROVE OInv
  OBVIOUS
<1>1. Tx!TypeOK
  BY DEF Init, Tx!Init, Tx!TypeOK, Tx!Outputs, Tx!TxStates, Tx!Causes, Tx!Replies
<1>2. DataTyped
  BY InitEstablishes DEF Init, IInv, Typed, DataTyped, Tables
<1>3. OpTyped
  BY InitEstablishes DEF Init, IInv, Typed, OpTyped
<1>4. BoundTyped
  BY BoundAssumption DEF Init, BoundTyped
<1>5. \A c \in Calls : stage[c] = FirstStage(req[c])
  BY DEF Init
<1>6. \A c \in Calls : Kinds(c)
  BY <1>5 DEF Kinds, FirstStage
<1>. QED
  BY <1>1, <1>2, <1>3, <1>4, <1>6, TypeParts DEF OInv

\* The operation of c is as it was.
Idle(c) ==
  /\ req'[c] = req[c] /\ stage'[c] = stage[c] /\ result'[c] = result[c]
  /\ snap'[c] = snap[c] /\ pending'[c] = pending[c]

\* A step of d, with what it leaves alone of the other calls.
Moves(d) ==
  /\ RunnerMoves(d) /\ UNCHANGED req
  /\ \A c \in Calls \ {d} : Idle(c)
  /\ DataTyped' /\ OpTyped' /\ BoundTyped' /\ Kinds(d)'

LEMMA KindsKept == ASSUME NEW c \in Calls, Kinds(c), Idle(c) PROVE Kinds(c)'
BY DEF Kinds, Idle

LEMMA MovesKeep ==
  ASSUME OInv, NEW d \in Calls, Moves(d)
  PROVE  OInv'
<1>1. Tx!TypeOK'
  BY RunnerTyped DEF OInv, TypeOK, Moves
<1>2. \A c \in Calls : Kinds(c)'
  BY KindsKept DEF OInv, Moves
<1>. QED
  BY <1>1, <1>2 DEF OInv, Moves, TypeOK, DataTyped, OpTyped, BoundTyped

\* Steps of the runner that concern neither data nor operation.
LEMMA RunnerOnly ==
  ASSUME OInv, NEW d \in Calls,
         \/ Begin(d) \/ BeginFails(d) \/ OperationFails(d) \/ OperationAborts(d)
         \/ StatementRefused(d) \/ Output(d) \/ Returns(d) \/ ContextDone(d)
  PROVE  Moves(d) /\ UNCHANGED <<dbVars, opVars>>
<1>1. RunnerMoves(d)
  <2>1. CASE Output(d)
    BY <2>1 DEF Output, At, RunnerMoves, OInv, Kinds
  <2>. QED
    BY <2>1 DEF Begin, BeginFails, OperationFails, OperationAborts, StatementRefused, Returns,
                ContextDone, RunnerMoves
<1>2. UNCHANGED <<dbVars, opVars>> /\ UNCHANGED others /\ (UNCHANGED faults \/ Fault)
  <2>1. CASE Begin(d) \/ Output(d) \/ Returns(d) \/ StatementRefused(d)
    BY <2>1 DEF Begin, Output, Returns, StatementRefused
  <2>2. CASE BeginFails(d) \/ OperationFails(d)
    BY <2>2 DEF BeginFails, OperationFails
  <2>3. CASE OperationAborts(d)
    BY <2>3 DEF OperationAborts
  <2>4. CASE ContextDone(d)
    BY <2>4 DEF ContextDone
  <2>. QED
    BY <2>1, <2>2, <2>3, <2>4
<1>3. BoundTyped'
  BY <1>2, BoundAssumption DEF OInv, TypeOK, BoundTyped, Fault
<1>4. DataTyped' /\ OpTyped' /\ Kinds(d)' /\ \A c \in Calls : Idle(c)
  BY <1>2 DEF OInv, TypeOK, DataTyped, OpTyped, Kinds, Idle, dbVars, opVars
<1>. QED
  BY <1>1, <1>2, <1>3, <1>4 DEF Moves, opVars

\* The end of a transaction.
LEMMA Endings ==
  ASSUME OInv, NEW d \in Calls, Finish(d) \/ ServerEnds(d)
  PROVE  Moves(d) /\ Settles(d) /\ UNCHANGED opVars
<1>1. Settles(d) /\ UNCHANGED opVars /\ UNCHANGED others /\ (UNCHANGED faults \/ Fault)
  BY DEF Finish, CommitSucceeds, CommitFails, CommitPanics, Rollback, RollbackFails, ServerEnds
<1>2. RunnerMoves(d)
  BY DEF Finish, CommitSucceeds, CommitFails, CommitPanics, Rollback, RollbackFails, ServerEnds,
         RunnerMoves
<1>3. BoundTyped'
  BY <1>1, BoundAssumption DEF OInv, TypeOK, BoundTyped, Fault
<1>4. DataTyped' /\ \A c \in Calls \ {d} : pending'[c] = pending[c] /\ snap'[c] = snap[c]
  <2> USE DEF OInv, TypeOK, DataTyped
  <2>1. CASE UNCHANGED dbVars
    BY <2>1 DEF dbVars
  <2>2. CASE Installs(d) \/ Discards(d)
    <3>1. lock' \in [Keys -> Calls \cup {Free}]
      BY <2>2 DEF Installs, Discards, Unlocked
    <3>2. pending[d] # None => pending[d] \in Pendings
      OBVIOUS
    <3>3. rows' \in Tables /\ links' \in [Keys -> Marks \cup {Absent}]
      BY <2>2, <3>2 DEF Installs, Discards, Pendings, Tables
    <3>4. pending' = [pending EXCEPT ![d] = None] /\ UNCHANGED <<fresh, snap>>
      BY <2>2 DEF Installs, Discards
    <3>. QED
      BY <3>1, <3>3, <3>4
  <2>. QED
    BY <1>1, <2>1, <2>2 DEF Settles
<1>5. snap'[d] = snap[d]
  BY <1>1 DEF Settles, Installs, Discards, dbVars
<1>6. OpTyped' /\ Kinds(d)'
  BY <1>1, <1>5 DEF OInv, TypeOK, OpTyped, Kinds, opVars
<1>. QED
  BY <1>1, <1>2, <1>3, <1>4, <1>6 DEF Moves, Idle, opVars

----
LEMMA InsertMoves ==
  ASSUME OInv, NEW d \in Calls, Insert(d)
  PROVE  Moves(d)
<1> USE DEF OInv, TypeOK
<1>1. PICK k \in fresh, o \in Owners :
        /\ lock' = [lock EXCEPT ![k] = d] /\ fresh' = fresh \ {k}
        /\ pending' = [pending EXCEPT ![d] = [key |-> k, row |-> NewRow(d, o), links |-> d]]
        /\ result' = [result EXCEPT ![d] = [row |-> NewRow(d, o)]]
  BY DEF Insert, Locks, Writes, Yields
<1>2. /\ UNCHANGED <<txVars, rows, links, snap, req, entity, loaded, faults, others>>
      /\ stage' = [stage EXCEPT ![d] = "output"] /\ stage[d] = "insert"
  BY DEF Insert, Executes, At, GoTo
<1>3. NewRow(d, o) \in Rows /\ d \in Marks
  BY NewRowTyped DEF Marks
<1>4. [key |-> k, row |-> NewRow(d, o), links |-> d] \in Pendings
  BY <1>3 DEF Pendings
<1>5. [row |-> NewRow(d, o)] \in Results
  BY <1>3, ResultShapes
<1>6. DataTyped'
  BY <1>1, <1>2, <1>4 DEF DataTyped
<1>7. OpTyped'
  BY <1>1, <1>2, <1>5 DEF OpTyped, Statements
<1>8. Kinds(d)'
  BY <1>1, <1>2, <1>5 DEF Kinds
<1>9. \A c \in Calls \ {d} : Idle(c)
  BY <1>1, <1>2 DEF Idle
<1>. QED
  BY <1>2, <1>6, <1>7, <1>8, <1>9 DEF Moves, RunnerMoves, BoundTyped

LEMMA LookupMoves ==
  ASSUME OInv, NEW d \in Calls, LookupHits(d) \/ LookupMisses(d)
  PROVE  Moves(d)
<1> USE DEF OInv, TypeOK
<1> DEFINE k == req[d].id
<1>1. k \in Keys /\ Typed
  BY OTyped, RequestShape
<1>2. /\ UNCHANGED <<rows, links, fresh, pending, snap, req, faults, others>>
      /\ lock' = lock \/ lock' = [lock EXCEPT ![k] = d]
      /\ stage[d] = "lookup"
  BY DEF LookupHits, LookupMisses, Executes, At, Locks
<1>3. DataTyped'
  BY <1>1, <1>2 DEF DataTyped
<1>4. CASE LookupHits(d)
  <2>1. /\ entity' = [entity EXCEPT ![d] = rows[k]] /\ loaded' = [loaded EXCEPT ![d] = links[k]]
        /\ UNCHANGED txVars /\ Visible(rows[k], req[d].scope)
    BY <1>4 DEF LookupHits
  <2>2. rows[k] \in Rows /\ links[k] \in Marks \cup {Absent}
    BY <1>1, <2>1 DEF Visible, Tables
  <2>3. \/ stage' = [stage EXCEPT ![d] = "write"] /\ result' = result
        \/ /\ stage' = [stage EXCEPT ![d] = "output"]
           /\ \E r \in Results : result' = [result EXCEPT ![d] = r]
    BY <1>4, <2>2, ResultShapes DEF LookupHits, GoTo, Yields
  <2>4. OpTyped'
    BY <1>2, <2>1, <2>2, <2>3 DEF OpTyped, Statements
  <2>5. Kinds(d)'
    BY <1>2, <2>3 DEF Kinds
  <2>6. \A c \in Calls \ {d} : Idle(c)
    BY <1>2, <2>3 DEF Idle
  <2>. QED
    BY <1>2, <1>3, <2>1, <2>4, <2>5, <2>6 DEF Moves, RunnerMoves, BoundTyped
<1>5. CASE LookupMisses(d)
  <2>1. /\ result' = [result EXCEPT ![d] = NotFound] /\ UNCHANGED <<stage, entity, loaded>>
        /\ Tx!OperationFails(d, Zero)
    BY <1>5 DEF LookupMisses, Yields
  <2>2. OpTyped'
    BY <1>2, <2>1 DEF OpTyped
  <2>3. Kinds(d)'
    BY <1>2, <2>1 DEF Kinds
  <2>4. \A c \in Calls \ {d} : Idle(c)
    BY <1>2, <2>1 DEF Idle
  <2>. QED
    BY <1>2, <1>3, <2>1, <2>2, <2>3, <2>4 DEF Moves, RunnerMoves, BoundTyped
<1>. QED
  BY <1>4, <1>5

LEMMA WriteMoves ==
  ASSUME IInv, OInv, NEW d \in Calls,
         ModifyWrites(d) \/ DeleteWrites(d) \/ DeleteNoContentWrites(d)
  PROVE  /\ Moves(d) /\ Mutates(req[d]) /\ UNCHANGED <<rows, fresh>>
         /\ pending'[d] = Prepared(d) /\ Prepared(d) \in Pendings
<1> USE DEF OInv, TypeOK
<1> DEFINE k == req[d].id
<1>1. k \in Keys /\ Typed /\ CallInv(d)
  BY OTyped, RequestShape DEF IInv
<1>2. /\ UNCHANGED <<rows, links, fresh, snap, req, entity, loaded, faults, others>>
      /\ lock' = [lock EXCEPT ![k] = d]
      /\ stage[d] = "write" /\ Mutates(req[d])
  BY DEF ModifyWrites, DeleteWrites, DeleteNoContentWrites, Executes, At, Locks, Mutates
<1>3. entity[d] # Absent
  BY <1>1, <1>2 DEF CallInv, WritesFromEntity
<1>4. Prepared(d) \in Pendings /\ Merged(d) \in Rows /\ entity[d] \in Rows
  BY <1>1, <1>3, WritesTyped
<1>5. pending' = [pending EXCEPT ![d] = Prepared(d)]
  <2>1. CASE ModifyWrites(d)
    BY <2>1 DEF ModifyWrites, Writes, Prepared
  <2>2. CASE DeleteWrites(d) \/ DeleteNoContentWrites(d)
    BY <2>2 DEF DeleteWrites, DeleteNoContentWrites, Writes, Prepared
  <2>. QED
    BY <2>1, <2>2
<1>6. PICK r \in Results :
        /\ result' = [result EXCEPT ![d] = r]
        /\ \/ UNCHANGED txVars /\ stage' = [stage EXCEPT ![d] = "output"]
           \/ Tx!OperationReturns(d, r) /\ stage' = stage
  <2>1. CASE ModifyWrites(d)
    BY <2>1, <1>4, ResultShapes DEF ModifyWrites, Yields, GoTo
  <2>2. CASE DeleteWrites(d)
    BY <2>2, <1>4, ResultShapes DEF DeleteWrites, Yields, GoTo
  <2>3. CASE DeleteNoContentWrites(d)
    BY <2>3, ResultShapes DEF DeleteNoContentWrites, Yields
  <2>. QED
    BY <2>1, <2>2, <2>3
<1>7. DataTyped'
  BY <1>1, <1>2, <1>4, <1>5 DEF DataTyped
<1>8. OpTyped'
  BY <1>2, <1>6 DEF OpTyped, Statements
<1>9. Kinds(d)'
  BY <1>1, <1>2, <1>6 DEF Kinds, CallInv, WritesFromEntity, Mutates
<1>10. \A c \in Calls \ {d} : Idle(c)
  BY <1>2, <1>5, <1>6 DEF Idle
<1>11. RunnerMoves(d)
  BY <1>6 DEF RunnerMoves
<1>. QED
  BY <1>2, <1>4, <1>5, <1>7, <1>8, <1>9, <1>10, <1>11 DEF Moves, BoundTyped

----
\* The page that is in hand fits the snapshot it was taken from, then its total.
PageFits(c) ==
  req[c].op = "list"
    => /\ stage[c] = "count"
            => Cardinality(DOMAIN result[c].page)
                 = PageSize(req[c], Cardinality(Matching(snap[c], req[c].scope)))
       /\ stage[c] = "output"
            => Cardinality(DOMAIN result[c].page) = PageSize(req[c], result[c].total)

LEMMA QueryMoves ==
  ASSUME OInv, NEW d \in Calls, Query(d)
  PROVE  Moves(d) /\ PageFits(d)' /\ UNCHANGED <<txVars, rows, fresh, pending>> /\ stage'[d] = "count"
<1> USE DEF OInv, TypeOK
<1> DEFINE all == Matching(View(d), req[d].scope)
<1>1. View(d) \in Tables
  BY DEF View
<1>2. PICK page \in SUBSET all :
        /\ Cardinality(page) = PageSize(req[d], Cardinality(all))
        /\ result' = [result EXCEPT ![d] = [page |-> [k \in page |-> View(d)[k]], total |-> 0]]
  BY DEF Query, Yields
<1>3. /\ UNCHANGED <<txVars, rows, links, lock, fresh, pending, req, entity, loaded, faults, others>>
      /\ snap' = [snap EXCEPT ![d] = View(d)]
      /\ stage' = [stage EXCEPT ![d] = "count"] /\ stage[d] = "query"
  BY DEF Query, Executes, At, GoTo
<1>4. [page |-> [k \in page |-> View(d)[k]], total |-> 0] \in ListResults
  <2>1. page \in SUBSET Keys
    BY DEF Matching
  <2>2. \A k \in page : View(d)[k] \in Rows
    BY <1>1, <2>1 DEF Matching, Visible, Tables
  <2>3. [k \in page |-> View(d)[k]] \in [page -> Rows]
    BY <2>2
  <2>4. [k \in page |-> View(d)[k]] \in Pages
    BY <2>1, <2>3 DEF Pages
  <2>. QED
    BY <2>4 DEF ListResults
<1>5. DataTyped'
  BY <1>1, <1>3 DEF DataTyped
<1>6. OpTyped'
  BY <1>2, <1>3, <1>4, ResultShapes DEF OpTyped, Statements
<1>7. snap'[d] = View(d) /\ View(d) # None
  BY <1>1, <1>3, NoneAssumption
<1>8. Kinds(d)'
  BY <1>2, <1>3, <1>4, <1>7 DEF Kinds
<1>9. \A c \in Calls \ {d} : Idle(c)
  BY <1>2, <1>3 DEF Idle
<1>10. PageFits(d)'
  <2>1. result'[d].page = [k \in page |-> View(d)[k]]
    BY <1>2
  <2>2. DOMAIN result'[d].page = page
    BY <2>1
  <2>. QED
    BY <1>2, <1>3, <1>7, <2>2 DEF PageFits, PageSize, Matching
<1>. QED
  BY <1>3, <1>5, <1>6, <1>8, <1>9, <1>10 DEF Moves, RunnerMoves, BoundTyped

LEMMA CountMoves ==
  ASSUME OInv, NEW d \in Calls, Count(d), PageFits(d)
  PROVE  Moves(d) /\ PageFits(d)' /\ UNCHANGED <<txVars, rows, fresh, pending>> /\ stage'[d] = "output"
<1> USE DEF OInv, TypeOK
<1> DEFINE n == Cardinality(Matching(View(d), req[d].scope))
<1>1. /\ UNCHANGED <<txVars, dbVars, req, entity, loaded, faults, others>>
      /\ result' = [result EXCEPT ![d] = [result[d] EXCEPT !.total = n]]
      /\ stage' = [stage EXCEPT ![d] = "output"] /\ stage[d] = "count"
  BY DEF Count, Executes, At, GoTo, Yields
<1>2. result[d] \in ListResults /\ View(d) = snap[d] /\ req[d].op = "list"
  BY <1>1 DEF Kinds, View
<1>3. n \in Nat
  BY MatchingFinite
<1>4. /\ result'[d] = [result[d] EXCEPT !.total = n] /\ result'[d] \in ListResults
      /\ result'[d].page = result[d].page /\ result'[d].total = n
  BY <1>1, <1>2, <1>3 DEF ListResults
<1>5. DataTyped'
  BY <1>1 DEF DataTyped, dbVars
<1>6. OpTyped'
  BY <1>1, <1>4, ResultShapes DEF OpTyped, Statements
<1>7. Kinds(d)'
  BY <1>1, <1>2, <1>4, ResultShapes DEF Kinds
<1>8. \A c \in Calls \ {d} : Idle(c)
  BY <1>1 DEF Idle, dbVars
<1>9. PageFits(d)'
  BY <1>1, <1>2, <1>4 DEF PageFits, PageSize
<1>. QED
  BY <1>1, <1>5, <1>6, <1>7, <1>8, <1>9 DEF Moves, RunnerMoves, BoundTyped, dbVars

----
\* Other programs.
LEMMA OthersTyped ==
  ASSUME OInv, NEW k \in Keys, OtherMoves(k) \/ OtherLinks(k)
  PROVE  OInv' /\ UNCHANGED <<txVars, lock, fresh, pending, snap, opVars>>
<1> USE DEF OInv, TypeOK
<1>1. UNCHANGED <<txVars, lock, fresh, pending, snap, opVars>> /\ UNCHANGED faults /\ OtherWrite
  BY DEF OtherMoves, OtherLinks
<1>2. rows' \in Tables /\ links' \in [Keys -> Marks \cup {Absent}]
  <2>1. CASE OtherMoves(k)
    <3>1. rows[k] \in Rows
      BY <2>1 DEF OtherMoves, Tables
    <3>2. \A o \in Owners : [rows[k] EXCEPT !.owner = o] \in Rows
      BY <3>1 DEF Rows
    <3>3. PICK o \in Owners : rows' = [rows EXCEPT ![k].owner = o]
      BY <2>1 DEF OtherMoves
    <3>. QED
      BY <2>1, <3>2, <3>3 DEF OtherMoves, Tables
  <2>2. CASE OtherLinks(k)
    BY <2>2 DEF OtherLinks, Marks
  <2>. QED
    BY <2>1, <2>2
<1>3. others' \in 0..MaxOthers
  BY <1>1, BoundAssumption DEF OtherWrite
<1>4. Tx!TypeOK'
  BY <1>1 DEF txVars, Tx!TypeOK
<1>5. \A c \in Calls : Kinds(c)'
  BY <1>1 DEF Kinds, opVars
<1>. QED
  BY <1>1, <1>2, <1>3, <1>4, <1>5 DEF opVars

\* What every step is.
LEMMA StepMoves ==
  ASSUME IInv, OInv, NEW d \in Calls, PageFits(d), Step(d) \/ ContextDone(d) \/ ServerEnds(d)
  PROVE  Moves(d)
BY RunnerOnly, Endings, InsertMoves, LookupMoves, WriteMoves, QueryMoves, CountMoves
DEF Step, Operation, Interrupted, Statement

----
\* What goes to the caller of a list is the page and the total in hand.
AnswersResult(c) ==
  req[c].op = "list"
    => /\ pc[c] \in {"commit", "deferred", "return"} /\ mode[c] = "running" /\ err[c] = {}
            => stage[c] = "output" /\ output[c] = result[c]
       /\ Tx!Answered(c, "value")
            => pc[c] = "replied" /\ stage[c] = "output" /\ reply[c].value = result[c]

\* The runner takes the output from the mapper to the reply.
LEMMA RunnerCarries ==
  ASSUME Tx!TypeOK, NEW d \in Calls, RunnerMoves(d), AnswersResult(d), req[d].op = "list",
         req'[d] = req[d], stage'[d] = stage[d], result'[d] = result[d],
         \A o \in Results : Tx!OperationReturns(d, o) => stage[d] = "output" /\ o = result[d]
  PROVE  AnswersResult(d)'
<1> USE DEF Tx!TypeOK, AnswersResult, Tx!Answered
<1>1. CASE Tx!Begin(d) \/ Tx!BeginFails(d)
  <2>1. pc[d] = "start" /\ reply'[d] = reply[d] /\ (pc'[d] = "operation" \/ err'[d] = {"begin"})
        /\ pc'[d] # "replied" /\ pc'[d] \in {"operation", "return"}
    BY <1>1 DEF Tx!Begin, Tx!BeginFails
  <2>2. ~Tx!Answered(d, "value")
    BY <2>1
  <2>. QED
    BY <2>1, <2>2
<1>2. CASE \E o \in Results : Tx!OperationReturns(d, o)
  <2>1. PICK o \in Results : Tx!OperationReturns(d, o)
    BY <1>2
  <2>2. pc[d] = "operation" /\ reply'[d] = reply[d] /\ output'[d] = o
    BY <2>1 DEF Tx!OperationReturns
  <2>3. stage[d] = "output" /\ o = result[d]
    BY <2>1
  <2>. QED
    BY <2>2, <2>3
<1>3. CASE Tx!OperationFails(d, Zero)
  BY <1>3 DEF Tx!OperationFails
<1>4. CASE \E how \in {"panicking", "exiting"} : Tx!OperationAborts(d, how)
  BY <1>4 DEF Tx!OperationAborts
<1>5. CASE Tx!CommitSucceeds(d)
  BY <1>5 DEF Tx!CommitSucceeds
<1>6. CASE Tx!CommitFails(d) \/ Tx!CommitPanics(d)
  <2>1. CASE Tx!CommitFails(d)
    BY <2>1 DEF Tx!CommitFails
  <2>2. CASE Tx!CommitPanics(d)
    BY <2>2 DEF Tx!CommitPanics
  <2>. QED
    BY <1>6, <2>1, <2>2
<1>7. CASE Tx!Rollback(d) \/ Tx!RollbackFails(d) \/ Tx!NoRollback(d)
  <2>1. CASE Tx!Rollback(d)
    BY <2>1 DEF Tx!Rollback, Tx!LeaveDeferred
  <2>2. CASE Tx!RollbackFails(d)
    BY <2>2 DEF Tx!RollbackFails, Tx!LeaveDeferred
  <2>3. CASE Tx!NoRollback(d)
    BY <2>3 DEF Tx!NoRollback, Tx!LeaveDeferred
  <2>. QED
    BY <1>7, <2>1, <2>2, <2>3
<1>8. CASE Tx!Return(d)
  <2>1. /\ reply'[d] = Tx!ReplyOf(d) /\ pc'[d] = "replied" /\ pc[d] = "return"
        /\ mode[d] \in {"running", "panicking"}
    BY <1>8 DEF Tx!Return
  <2>2. Tx!ReplyOf(d).kind = "value"
          => mode[d] = "running" /\ err[d] = {} /\ Tx!ReplyOf(d).value = output[d]
    BY <2>1 DEF Tx!ReplyOf
  <2>. QED
    BY <2>1, <2>2
<1>9. CASE Tx!Exit(d)
  BY <1>9 DEF Tx!Exit
<1>10. CASE Tx!ContextDone(d) \/ Tx!ServerEnds(d)
  BY <1>10 DEF Tx!ContextDone, Tx!ServerEnds, Tx!ServerRollsBack, Tx!ServerCommits
<1>11. CASE UNCHANGED txVars
  BY <1>11 DEF txVars
<1>. QED
  BY <1>1, <1>2, <1>3, <1>4, <1>5, <1>6, <1>7, <1>8, <1>9, <1>10, <1>11 DEF RunnerMoves

ListInv(c) == PageFits(c) /\ AnswersResult(c)

LEMMA ListKept ==
  ASSUME NEW c \in Calls, ListInv(c), Apart(c), Idle(c)
  PROVE  ListInv(c)'
BY DEF ListInv, PageFits, AnswersResult, Tx!Answered, Apart, Idle, PageSize, Matching

LEMMA ListStep ==
  ASSUME IInv, OInv, NEW d \in Calls, ListInv(d), Step(d) \/ ContextDone(d) \/ ServerEnds(d)
  PROVE  ListInv(d)'
<1> USE DEF ListInv
<1>t. /\ Moves(d) /\ Kinds(d) /\ req'[d] = req[d] /\ Tx!TypeOK /\ RunnerMoves(d)
      /\ stage[d] \in Statements \cup {"output"}
  BY StepMoves DEF OInv, TypeOK, Moves
<1>1. CASE req[d].op # "list"
  <2>1. req'[d].op # "list"
    BY <1>1, <1>t
  <2>. QED
    BY <2>1 DEF PageFits, AnswersResult
<1>2. CASE Query(d) \/ Count(d)
  <2>1. PageFits(d)' /\ UNCHANGED txVars
    BY <1>2, QueryMoves, CountMoves
  <2>2. pc'[d] = "operation" /\ pc[d] = "operation" /\ UNCHANGED reply
    BY <1>2, <2>1 DEF Query, Count, Executes, At, txVars
  <2>3. ~Tx!Answered(d, "value") \/ req[d].op # "list"
    BY <2>2 DEF AnswersResult
  <2>4. AnswersResult(d)'
    BY <1>t, <2>2, <2>3 DEF AnswersResult, Tx!Answered
  <2>. QED
    BY <2>1, <2>4
<1>3. CASE /\ req[d].op = "list"
           /\ \/ Begin(d) \/ BeginFails(d) \/ OperationFails(d) \/ OperationAborts(d)
              \/ StatementRefused(d) \/ Output(d) \/ Returns(d) \/ ContextDone(d)
              \/ Finish(d) \/ ServerEnds(d)
  <2>1. UNCHANGED opVars /\ snap'[d] = snap[d]
    BY <1>3, RunnerOnly, Endings DEF dbVars, Settles, Installs, Discards
  <2>2. PageFits(d)'
    BY <2>1 DEF PageFits, PageSize, Matching, opVars
  <2>3. ASSUME NEW o \in Results, Tx!OperationReturns(d, o) PROVE stage[d] = "output" /\ o = result[d]
    <3>1. pc[d] = "operation" /\ pc'[d] = "commit" /\ output'[d] = o
      BY <2>3, <1>t DEF Tx!OperationReturns, Tx!TypeOK
    <3>2. CASE Output(d)
      BY <3>1, <3>2, <1>t DEF Output, At, Tx!OperationReturns, Tx!TypeOK
    <3>3. CASE \/ Begin(d) \/ BeginFails(d) \/ OperationFails(d) \/ OperationAborts(d)
               \/ StatementRefused(d) \/ Returns(d) \/ ContextDone(d)
      BY <3>1, <3>3, <1>t DEF Begin, BeginFails, OperationFails, OperationAborts, StatementRefused,
           Returns, ContextDone, Tx!Begin, Tx!BeginFails, Tx!OperationFails, Tx!OperationAborts,
           Tx!NoRollback, Tx!Return, Tx!Exit, Tx!ContextDone, Tx!TypeOK
    <3>4. CASE Finish(d) \/ ServerEnds(d)
      BY <3>1, <3>4, <1>t DEF Finish, CommitSucceeds, CommitFails, CommitPanics, Rollback,
           RollbackFails, ServerEnds, Tx!CommitSucceeds, Tx!CommitFails, Tx!CommitPanics,
           Tx!Rollback, Tx!RollbackFails, Tx!ServerEnds, Tx!ServerRollsBack, Tx!ServerCommits, Tx!TypeOK
    <3>. QED
      BY <1>3, <3>2, <3>3, <3>4
  <2>4. AnswersResult(d)'
    BY <1>3, <1>t, <2>1, <2>3, RunnerCarries DEF opVars
  <2>. QED
    BY <2>2, <2>4
<1>4. CASE \/ Insert(d) \/ LookupHits(d) \/ LookupMisses(d)
           \/ ModifyWrites(d) \/ DeleteWrites(d) \/ DeleteNoContentWrites(d)
  <2>1. stage[d] \in {"insert", "lookup", "write"}
    BY <1>4 DEF Insert, LookupHits, LookupMisses, ModifyWrites, DeleteWrites, DeleteNoContentWrites,
         Executes, At
  <2>. QED
    BY <2>1, <1>t, <1>1 DEF Kinds
<1>. QED
  BY <1>1, <1>2, <1>3, <1>4 DEF Step, Operation, Interrupted, Statement

----
RInv == IInv /\ OInv /\ \A c \in Calls : ListInv(c)

LEMMA InitR == Init => RInv
<1> SUFFICES ASSUME Init PROVE RInv
  OBVIOUS
<1>1. IInv /\ OInv
  BY InitEstablishes, InitTyped
<1>2. ASSUME NEW c \in Calls PROVE ListInv(c)
  <2>1. pc[c] = "start" /\ reply[c] = NoReply /\ stage[c] = FirstStage(req[c])
    BY DEF Init, Tx!Init
  <2>2. stage[c] \notin {"count", "output"}
    BY <2>1 DEF FirstStage
  <2>. QED
    BY <2>1, <2>2 DEF ListInv, PageFits, AnswersResult, Tx!Answered
<1>. QED
  BY <1>1, <1>2 DEF RInv

LEMMA RInductive == RInv /\ [Next]_vars => RInv'
<1> SUFFICES ASSUME RInv, [Next]_vars PROVE RInv'
  OBVIOUS
<1> USE DEF RInv
<1>1. IInv'
  BY Inductive
<1>2. ASSUME NEW d \in Calls, Step(d) \/ ContextDone(d) \/ ServerEnds(d)
      PROVE  OInv' /\ \A c \in Calls : ListInv(c)'
  <2>1. Moves(d)
    BY <1>2, StepMoves DEF ListInv
  <2>2. OInv' /\ \A c \in Calls \ {d} : Apart(c) /\ Idle(c)
    BY <2>1, MovesKeep, RunnerTyped DEF Moves, OInv, TypeOK
  <2>3. ListInv(d)'
    BY <1>2, ListStep
  <2>. QED
    BY <2>2, <2>3, ListKept
<1>3. ASSUME NEW k \in Keys, OtherMoves(k) \/ OtherLinks(k)
      PROVE  OInv' /\ \A c \in Calls : ListInv(c)'
  <2>1. OInv' /\ \A c \in Calls : Apart(c) /\ Idle(c)
    BY <1>3, OthersTyped DEF Apart, Idle, txVars, opVars
  <2>. QED
    BY <2>1, ListKept
<1>4. CASE UNCHANGED vars
  <2>1. \A c \in Calls : Apart(c) /\ Idle(c)
    BY <1>4 DEF Apart, Idle, vars, txVars, dbVars, opVars
  <2>2. TypeOK'
    BY <1>4 DEF OInv, TypeOK, Tx!TypeOK, vars, txVars, dbVars, opVars
  <2>3. OInv'
    BY <2>1, <2>2, KindsKept DEF OInv
  <2>4. ASSUME NEW c \in Calls PROVE ListInv(c)'
    <3>1. ListInv(c) /\ Apart(c) /\ Idle(c)
      BY <2>1
    <3>. QED
      BY <3>1, ListKept
  <2>. QED
    BY <1>1, <2>3, <2>4
<1>. QED
  BY <1>1, <1>2, <1>3, <1>4 DEF Next, Rest

LEMMA RAlways == Spec => []RInv
BY InitR, RInductive, PTL DEF Spec

\* Every variable keeps its type (TypeOK): in particular no operation returns
\* before its result is there, and the bounds of the model are kept.
THEOREM CrudTypeCorrect == Spec => []TypeOK
<1>1. RInv => TypeOK
  BY DEF RInv, OInv
<1>. QED
  BY <1>1, RAlways, PTL

\* An answered list never contradicts its total (TotalMatchesPage), for any
\* number of rows and of writers between its query and its count: both read the
\* snapshot, and no later step replaces what they found.
THEOREM TotalsMatchPages == Spec => []TotalMatchesPage
<1>1. ASSUME RInv, NEW c \in Calls, req[c].op = "list", Tx!Answered(c, "value")
      PROVE  Cardinality(DOMAIN reply[c].value.page) = PageSize(req[c], reply[c].value.total)
  <2>1. ListInv(c)
    BY <1>1 DEF RInv
  <2>. QED
    BY <1>1, <2>1 DEF ListInv, PageFits, AnswersResult
<1>2. RInv => TotalMatchesPage
  BY <1>1 DEF TotalMatchesPage
<1>. QED
  BY <1>2, RAlways, PTL

\* Whatever the operations do, their requests are calls of TxRunner: what
\* TxRunnerProofs proves of the runner holds of every request of the handler.
THEOREM RequestsRunInRunner == Spec => Tx!Spec
<1>1. Init => Tx!Init
  BY DEF Init
<1>2. ASSUME RInv, [Next]_vars PROVE [Tx!Next]_(Tx!vars)
  <2>1. ASSUME NEW d \in Calls, Step(d) \/ ContextDone(d) \/ ServerEnds(d)
        PROVE  [Tx!Next]_(Tx!vars)
    BY <1>2, <2>1, StepMoves, RunnerSteps DEF RInv, ListInv, Moves
  <2>2. CASE (\E k \in Keys : OtherMoves(k) \/ OtherLinks(k)) \/ UNCHANGED vars
    BY <2>2 DEF OtherMoves, OtherLinks, vars, txVars, Tx!vars
  <2>. QED
    BY <1>2, <2>1, <2>2 DEF Next, Rest
<1>3. RInv /\ [Next]_vars => [Tx!Next]_(Tx!vars)
  BY <1>2
<1>. QED
  BY <1>1, <1>3, RAlways, PTL DEF Spec, Tx!Spec

----
Removes(c) == req[c].op \in {"delete", "deleteNoContent"}
Creating(c) == req[c].op = "create" /\ pending[c] # None

\* Only a create and the mutating operations write, and a delete commits
\* nothing but its write.
WritesDue(c) ==
  /\ pc[c] = "start" => stage[c] # "output"
  /\ stage[c] = "insert" => req[c].op = "create"
  /\ pending[c] # None => req[c].op = "create" \/ Mutates(req[c])
  /\ Removes(c) /\ (\/ tx[c] = "open" /\ (stage[c] = "output" \/ pc[c] = "commit")
                    \/ tx[c] = "committing")
       => pending[c] # None

\* A key is given out once: it has a row or is being created by one request,
\* and only a soft delete sets the flag.
KeysOnce ==
  /\ \A k \in Keys : rows[k] # Absent => k \notin fresh /\ (rows[k].deleted => SoftDelete)
  /\ \A c \in Calls : Creating(c)
       => /\ pending[c].key \in Keys \ fresh /\ rows[pending[c].key] = Absent
          /\ pending[c].row \in Rows /\ ~pending[c].row.deleted
  /\ \A c, d \in Calls : c # d /\ Creating(c) /\ Creating(d) => pending[c].key # pending[d].key

\* The row of k was there and is deleted, and nobody is about to create it.
Gone(k) ==
  /\ k \notin fresh
  /\ \A c \in Calls : Creating(c) => pending[c].key # k
  /\ rows[k] = Absent \/ (SoftDelete /\ rows[k].deleted)

DInv ==
  /\ RInv
  /\ \A c \in Calls : WritesDue(c)
  /\ KeysOnce
  /\ \A c \in Calls : Removes(c) /\ tx[c] = "committed" => Gone(req[c].id)
  /\ DeletedOnce

LEMMA InitD == Init => DInv
<1> SUFFICES ASSUME Init PROVE DInv
  OBVIOUS
<1>1. \A c \in Calls : /\ pc[c] = "start" /\ tx[c] = "none" /\ pending[c] = None
                       /\ stage[c] = FirstStage(req[c]) /\ req[c] \in RequestSet
  BY DataAssumption DEF Init, Tx!Init
<1>2. \A c \in Calls : WritesDue(c)
  BY <1>1 DEF WritesDue, FirstStage, RequestSet, Ops
<1>3. KeysOnce
  <2>1. PICK owner \in [Seeded -> Owners] :
          rows = [k \in Keys |-> IF k \in Seeded THEN NewRow(Base, owner[k]) ELSE Absent]
    BY DEF Init
  <2>2. \A k \in Keys : rows[k] # Absent => k \notin fresh /\ ~rows[k].deleted
    BY <2>1 DEF Init, NewRow
  <2>. QED
    BY <1>1, <2>2 DEF KeysOnce, Creating
<1>. QED
  BY <1>1, <1>2, <1>3, InitR DEF DInv, DeletedOnce

----
\* Nothing is written or committed: at most the write of d is given up.
Still(d) == UNCHANGED <<rows, fresh>> /\ pending'[d] \in {pending[d], None}

Inserts(d) ==
  \E k \in fresh : /\ UNCHANGED rows /\ fresh' = fresh \ {k} /\ req[d].op = "create"
                   /\ pending'[d] # None /\ pending'[d].key = k
                   /\ pending'[d].row \in Rows /\ ~pending'[d].row.deleted

Prepares(d) == UNCHANGED <<rows, fresh>> /\ Mutates(req[d]) /\ pending'[d] # None

\* Every step of d does one of these to the data, and keeps WritesDue.
LEMMA DataMoves ==
  ASSUME RInv, NEW d \in Calls, WritesDue(d), Step(d) \/ ContextDone(d) \/ ServerEnds(d)
  PROVE  /\ Still(d) \/ Inserts(d) \/ Prepares(d) \/ (Commits(d) /\ Installs(d))
         /\ tx'[d] = "committed" => tx[d] = "committed" \/ Commits(d)
         /\ WritesDue(d)'
<1>t. /\ IInv /\ OInv /\ ListInv(d) /\ TypeOK /\ Typed /\ CallInv(d) /\ Moves(d)
      /\ Kinds(d)
  BY StepMoves DEF RInv, OInv, IInv, ListInv
<1>m. req' = req /\ Mutates(req[d])' = Mutates(req[d]) /\ Removes(d)' = Removes(d)
      /\ (Removes(d) => Mutates(req[d]))
  BY <1>t DEF Moves, Mutates, Removes
<1>1. CASE \/ Begin(d) \/ BeginFails(d) \/ OperationFails(d) \/ OperationAborts(d)
           \/ StatementRefused(d) \/ Output(d) \/ Returns(d) \/ ContextDone(d)
  <2>1. UNCHANGED <<dbVars, opVars>>
    BY <1>1, <1>t, RunnerOnly
  <2>2. tx'[d] \in {tx[d], "open", "orphaned"} /\ (tx'[d] = "open" => tx[d] = "open" \/ pc[d] = "start")
    BY <1>1, <1>t DEF Typed, Begin, BeginFails, OperationFails, OperationAborts, StatementRefused, Output,
         Returns, ContextDone, Tx!Begin, Tx!BeginFails, Tx!OperationFails, Tx!OperationAborts,
         Tx!OperationReturns, Tx!NoRollback, Tx!Return, Tx!Exit, Tx!ContextDone, Tx!LeaveDeferred
  <2>3. pc'[d] = "commit" => stage[d] = "output" \/ pc[d] = "commit"
    BY <1>1, <1>t DEF Typed, Begin, BeginFails, OperationFails, OperationAborts, StatementRefused, Output,
         Returns, ContextDone, Tx!Begin, Tx!BeginFails, Tx!OperationFails, Tx!OperationAborts,
         Tx!OperationReturns, Tx!NoRollback, Tx!Return, Tx!Exit, Tx!ContextDone, Tx!LeaveDeferred, At
  <2>4. pc'[d] = "start" => pc[d] = "start"
    BY <1>1, <1>t DEF Typed, Begin, BeginFails, OperationFails, OperationAborts, StatementRefused, Output,
         Returns, ContextDone, Tx!Begin, Tx!BeginFails, Tx!OperationFails, Tx!OperationAborts,
         Tx!OperationReturns, Tx!NoRollback, Tx!Return, Tx!Exit, Tx!ContextDone, Tx!LeaveDeferred
  <2>5. pc[d] = "start" => stage[d] # "output"
    BY DEF WritesDue
  <2>. QED
    BY <1>m, <2>1, <2>2, <2>3, <2>4, <2>5 DEF Still, WritesDue, dbVars, opVars
<1>2. CASE Finish(d) \/ ServerEnds(d)
  <2>1. Settles(d) /\ UNCHANGED opVars
    BY <1>2, <1>t, Endings
  <2>2. /\ pc'[d] = "commit" => pc[d] = "commit"
        /\ pc'[d] = "start" => pc[d] = "start"
    BY <1>2, <1>t DEF Typed, Finish, CommitSucceeds, CommitFails, CommitPanics, Rollback, RollbackFails,
         ServerEnds, Tx!CommitSucceeds, Tx!CommitFails, Tx!CommitPanics, Tx!Rollback,
         Tx!RollbackFails, Tx!LeaveDeferred, Tx!ServerEnds, Tx!ServerRollsBack, Tx!ServerCommits
  <2>f. tx'[d] = "committing" => tx[d] = "committing" \/ (tx[d] = "open" /\ pc[d] = "commit")
    BY <1>2, <1>t, FinishSteps, TxStep DEF TxFacts
  <2>3. \/ tx'[d] \in {tx[d], "orphaned", "committing"} /\ Still(d) /\ pending'[d] = pending[d]
        \/ Commits(d) /\ Installs(d) /\ pending'[d] = None
        \/ tx'[d] = "rolledback" /\ Still(d) /\ pending'[d] = None
    BY <1>t, <2>1 DEF Settles, Still, Commits, Installs, Discards, dbVars, Typed
  <2>. QED
    BY <1>m, <2>1, <2>2, <2>f, <2>3 DEF WritesDue, opVars, Commits
<1>3. CASE Insert(d)
  <2>1. PICK k \in fresh, o \in Owners :
          /\ fresh' = fresh \ {k} /\ UNCHANGED <<txVars, rows>>
          /\ pending'[d] = [key |-> k, row |-> NewRow(d, o), links |-> d]
    BY <1>3, <1>t DEF Insert, Writes, Typed
  <2>2. pc[d] = "operation" /\ stage[d] = "insert"
    BY <1>3 DEF Insert, Executes, At
  <2>3. req[d].op = "create" /\ NewRow(d, o) \in Rows /\ ~NewRow(d, o).deleted
    BY <2>2, NewRowTyped DEF WritesDue, NewRow, Marks
  <2>4. pending'[d] \in Pendings
    BY <2>1, <2>3, <1>t DEF Pendings, Marks, Typed
  <2>5. pending'[d] # None
    BY <2>4, NoneAssumption
  <2>6. ~Removes(d) /\ stage'[d] = "output"
    BY <1>3, <1>t, <2>3 DEF Removes, Insert, GoTo, Typed
  <2>. QED
    BY <1>m, <2>1, <2>2, <2>3, <2>5, <2>6 DEF Inserts, WritesDue, txVars
<1>4. CASE LookupHits(d) \/ LookupMisses(d)
  <2>1. UNCHANGED <<rows, fresh, pending, tx>> /\ stage[d] = "lookup" /\ pc[d] = "operation" /\ tx[d] = "open"
    BY <1>4 DEF LookupHits, LookupMisses, Executes, At, txVars, Tx!OperationFails
  <2>2. pc'[d] \in {"operation", "deferred"}
    BY <1>4, <2>1, <1>t DEF LookupHits, LookupMisses, txVars, Tx!OperationFails, Typed
  <2>3. stage'[d] \in {"lookup", "write", "output"} /\ (Removes(d) => stage'[d] # "output")
    BY <1>4, <2>1, <1>t DEF LookupHits, LookupMisses, GoTo, EmptyPatch, Removes, Typed
  <2>. QED
    BY <1>m, <2>1, <2>2, <2>3 DEF Still, WritesDue
<1>5. CASE ModifyWrites(d) \/ DeleteWrites(d) \/ DeleteNoContentWrites(d)
  <2>1. Mutates(req[d]) /\ UNCHANGED <<rows, fresh>> /\ pending'[d] # None
    BY <1>5, <1>t, WriteMoves, NoneAssumption
  <2>2. tx'[d] = tx[d] /\ pc'[d] # "start"
    BY <1>5, <1>t DEF ModifyWrites, DeleteWrites, DeleteNoContentWrites, txVars, Executes, At,
         Tx!OperationReturns, Typed
  <2>3. stage'[d] # "insert"
    BY <1>5, <1>t DEF ModifyWrites, DeleteWrites, DeleteNoContentWrites, GoTo, Executes, At, Typed
  <2>. QED
    BY <1>m, <2>1, <2>2, <2>3 DEF Prepares, WritesDue
<1>6. CASE Query(d) \/ Count(d)
  <2>1. UNCHANGED <<txVars, rows, fresh, pending>> /\ pc[d] = "operation" /\ stage'[d] \in {"count", "output"}
        /\ stage[d] \in {"query", "count"}
    BY <1>6, <1>t, QueryMoves, CountMoves DEF ListInv, Query, Count, Executes, At
  <2>2. ~Removes(d)
    BY <1>t, <2>1 DEF Kinds, Removes
  <2>. QED
    BY <1>m, <2>1, <2>2 DEF Still, WritesDue, txVars
<1>. QED
  BY <1>1, <1>2, <1>3, <1>4, <1>5, <1>6 DEF Step, Operation, Interrupted, Statement

----
\* What a commit of d makes of the rows: nothing, the row of a key that had
\* none, or a new version of a row that d may see.
Creates(d) ==
  /\ Creating(d)
  /\ rows' = [rows EXCEPT ![pending[d].key] = pending[d].row]

Rewrites(d) ==
  /\ req[d].id \in Keys /\ rows[req[d].id] \in Rows
  /\ ~(SoftDelete /\ rows[req[d].id].deleted)
  /\ \E new \in Rows \cup {Absent} :
       /\ rows' = [rows EXCEPT ![req[d].id] = new]
       /\ new # Absent => (new.deleted => SoftDelete)
       /\ Removes(d) => new = Absent \/ (SoftDelete /\ new.deleted)

LEMMA CommitWrites ==
  ASSUME DInv, [Next]_vars, NEW d \in Calls, Commits(d)
  PROVE  /\ UNCHANGED fresh /\ pending' = [pending EXCEPT ![d] = None]
         /\ \/ UNCHANGED rows /\ ~Removes(d)
            \/ Creates(d)
            \/ Rewrites(d)
<1>t. /\ IInv /\ Typed /\ WritesDue(d) /\ KeysOnce
  BY DEF DInv, RInv, IInv
<1>1. Installs(d) /\ Committable(d)
  BY <1>t, CommitInstalls
<1>2. CASE pending[d] = None
  BY <1>t, <1>1, <1>2 DEF Installs, WritesDue, Committable
<1>3. CASE Creating(d)
  BY <1>1, <1>3 DEF Installs, Creates, Creating
<1>4. CASE pending[d] # None /\ Mutates(req[d])
  <2> DEFINE k == req[d].id
  <2>1. /\ k \in Keys /\ entity[d] \in Rows /\ rows[k] = entity[d] /\ pending[d] = Prepared(d)
        /\ Visible(rows[k], req[d].scope)
    BY <1>t, <1>4, CommitFromEntity
  <2>2. ~rows[k].deleted
    BY <1>t, <2>1, RowFacts DEF KeysOnce, Visible
  <2>3. rows' = [rows EXCEPT ![k] = Prepared(d).row]
    BY <1>1, <1>4, <2>1 DEF Installs, Prepared
  <2>4. Prepared(d).row = IF req[d].op \in {"update", "patch"} THEN Merged(d) ELSE DeletedRow(d)
    BY DEF Prepared
  <2>5. Merged(d) \in Rows /\ DeletedRow(d) \in Rows \cup {Absent}
    BY <1>t, <2>1, RowFacts, WritesTyped
  <2>6. Merged(d).deleted = entity[d].deleted
    BY <2>1 DEF Merged, Rows
  <2>7. DeletedRow(d) = Absent \/ (SoftDelete /\ DeletedRow(d).deleted)
    BY <2>1, DataAssumption DEF DeletedRow, Rows
  <2>. QED
    BY <1>1, <2>1, <2>2, <2>3, <2>4, <2>5, <2>6, <2>7 DEF Rewrites, Removes, Installs
<1>. QED
  BY <1>2, <1>3, <1>4, <1>t DEF WritesDue, Creating

\* Other programs move rows between owners, no more.
LEMMA OthersRows ==
  ASSUME OInv, NEW k \in Keys, OtherMoves(k) \/ OtherLinks(k), NEW j \in Keys
  PROVE  /\ rows'[j] = Absent <=> rows[j] = Absent
         /\ rows[j] # Absent => rows'[j].deleted = rows[j].deleted
<1>1. rows \in Tables
  BY DEF OInv, TypeOK
<1>2. CASE OtherLinks(k)
  BY <1>2 DEF OtherLinks
<1>3. CASE OtherMoves(k)
  <2>1. rows[k] \in Rows
    BY <1>1, <1>3 DEF OtherMoves, Tables
  <2>2. PICK o \in Owners : rows' = [rows EXCEPT ![k].owner = o]
    BY <1>3 DEF OtherMoves
  <2>3. [rows[k] EXCEPT !.owner = o] \in Rows /\ [rows[k] EXCEPT !.owner = o].deleted = rows[k].deleted
    BY <2>1 DEF Rows
  <2>4. rows'[j] = IF j = k THEN [rows[k] EXCEPT !.owner = o] ELSE rows[j]
    BY <1>1, <2>2 DEF Tables
  <2>. QED
    BY <2>1, <2>3, <2>4, RowFacts
<1>. QED
  BY <1>2, <1>3

\* The kinds of steps, for the deletions.
Kind(d) == Still(d) \/ Inserts(d) \/ Prepares(d) \/ Commits(d)

LEMMA Kept ==
  ASSUME DInv, [Next]_vars, NEW d \in Calls, Moves(d), Kind(d)
  PROVE  /\ KeysOnce'
         /\ \A k \in Keys : Gone(k) => Gone(k)'
<1>t. /\ Typed /\ KeysOnce /\ req' = req /\ rows \in Tables
      /\ \A c \in Calls \ {d} : pending'[c] = pending[c]
      /\ \A c \in Calls \ {d} : Creating(c)' = Creating(c)
  BY DEF DInv, RInv, IInv, Typed, Tables, Moves, Idle, Creating
<1>1. CASE Still(d)
  <2>1. Creating(d)' => Creating(d) /\ pending'[d] = pending[d]
    BY <1>1, <1>t DEF Still, Creating
  <2>2. KeysOnce'
    BY <1>1, <1>t, <2>1 DEF Still, KeysOnce
  <2>3. ASSUME NEW k \in Keys, Gone(k) PROVE Gone(k)'
    BY <1>1, <1>t, <2>1, <2>3 DEF Still, Gone
  <2>. QED
    BY <2>2, <2>3
<1>2. CASE Prepares(d)
  <2>1. ~Creating(d)'
    BY <1>2, <1>t DEF Prepares, Creating, Mutates
  <2>2. KeysOnce'
    BY <1>2, <1>t, <2>1 DEF Prepares, KeysOnce
  <2>3. ASSUME NEW k \in Keys, Gone(k) PROVE Gone(k)'
    BY <1>2, <1>t, <2>1, <2>3 DEF Prepares, Gone
  <2>. QED
    BY <2>2, <2>3
<1>3. CASE Inserts(d)
  <2>1. PICK k \in fresh : /\ UNCHANGED rows /\ fresh' = fresh \ {k}
                           /\ pending'[d].key = k
                           /\ pending'[d].row \in Rows /\ ~pending'[d].row.deleted
    BY <1>3 DEF Inserts
  <2>2. k \in Keys /\ rows[k] = Absent
    BY <1>t DEF Typed, KeysOnce
  <2>3. \A c \in Calls \ {d} : Creating(c) => pending[c].key # k
    BY <1>t DEF KeysOnce
  <2>4. KeysOnce'
    BY <1>t, <2>1, <2>2, <2>3 DEF KeysOnce
  <2>5. ASSUME NEW j \in Keys, Gone(j) PROVE Gone(j)'
    BY <1>t, <2>1, <2>5 DEF Gone
  <2>. QED
    BY <2>4, <2>5
<1>4. CASE Commits(d)
  <2>1. /\ UNCHANGED fresh /\ pending' = [pending EXCEPT ![d] = None]
        /\ UNCHANGED rows \/ Creates(d) \/ Rewrites(d)
    BY <1>4, CommitWrites
  <2>2. ~Creating(d)'
    BY <1>t, <2>1 DEF Typed, Creating
  <2>3. CASE UNCHANGED rows
    BY <1>t, <2>1, <2>2, <2>3 DEF KeysOnce, Gone
  <2>4. CASE Creates(d)
    <3> DEFINE k == pending[d].key
    <3>1. /\ k \in Keys \ fresh /\ rows[k] = Absent /\ pending[d].row \in Rows /\ ~pending[d].row.deleted
          /\ rows' = [rows EXCEPT ![k] = pending[d].row]
          /\ \A c \in Calls \ {d} : Creating(c) => pending[c].key # k
      BY <1>t, <2>4 DEF Creates, KeysOnce
    <3>2. \A j \in Keys : rows'[j] = IF j = k THEN pending[d].row ELSE rows[j]
      BY <1>t, <3>1 DEF Tables
    <3>3. KeysOnce'
      BY <1>t, <2>1, <2>2, <3>1, <3>2 DEF KeysOnce
    <3>4. ASSUME NEW j \in Keys, Gone(j) PROVE Gone(j)'
      BY <1>t, <2>1, <2>2, <2>4, <3>2, <3>4 DEF Gone, Creates
    <3>. QED
      BY <3>3, <3>4
  <2>5. CASE Rewrites(d)
    <3> DEFINE k == req[d].id
    <3>1. PICK new \in Rows \cup {Absent} :
            /\ rows' = [rows EXCEPT ![k] = new]
            /\ new # Absent => (new.deleted => SoftDelete)
      BY <2>5 DEF Rewrites
    <3>2. k \in Keys /\ rows[k] # Absent /\ ~(SoftDelete /\ rows[k].deleted) /\ k \notin fresh
      BY <1>t, <2>5, RowFacts DEF Rewrites, KeysOnce
    <3>3. \A j \in Keys : rows'[j] = IF j = k THEN new ELSE rows[j]
      BY <1>t, <3>1 DEF Tables
    <3>4. KeysOnce'
      BY <1>t, <2>1, <2>2, <3>1, <3>2, <3>3 DEF KeysOnce
    <3>5. ASSUME NEW j \in Keys, Gone(j) PROVE Gone(j)'
      BY <1>t, <2>1, <2>2, <3>2, <3>3, <3>5 DEF Gone
    <3>. QED
      BY <3>4, <3>5
  <2>. QED
    BY <2>1, <2>3, <2>4, <2>5
<1>. QED
  BY <1>1, <1>2, <1>3, <1>4 DEF Kind

----
\* A delete that commits finds a row, and leaves none.
LEMMA DeleteBuries ==
  ASSUME DInv, [Next]_vars, NEW d \in Calls, Moves(d), Commits(d), Removes(d)
  PROVE  ~Gone(req[d].id) /\ Gone(req[d].id)' /\ req[d].id \in Keys
<1> DEFINE k == req[d].id
<1>t. /\ KeysOnce /\ rows \in Tables /\ req' = req
      /\ \A c \in Calls \ {d} : pending'[c] = pending[c]
      /\ pending \in [Calls -> Pendings \cup {None}]
  BY DEF DInv, RInv, IInv, Typed, Tables, Moves, Idle
<1>1. Rewrites(d) /\ UNCHANGED fresh /\ pending' = [pending EXCEPT ![d] = None]
  BY CommitWrites DEF Creates, Creating, Removes
<1>2. k \in Keys /\ rows[k] # Absent /\ ~(SoftDelete /\ rows[k].deleted)
  BY <1>1, RowFacts DEF Rewrites
<1>3. k \notin fresh /\ \A c \in Calls : Creating(c) => pending[c].key # k
  BY <1>t, <1>2 DEF KeysOnce
<1>4. rows'[k] = Absent \/ (SoftDelete /\ rows'[k].deleted)
  BY <1>t, <1>1, <1>2 DEF Rewrites, Tables
<1>5. \A c \in Calls : Creating(c)' => Creating(c) /\ pending'[c].key = pending[c].key
  BY <1>t, <1>1 DEF Creating
<1>. QED
  BY <1>t, <1>1, <1>2, <1>3, <1>4, <1>5 DEF Gone

LEMMA DInductive == DInv /\ [Next]_vars => DInv'
<1> SUFFICES ASSUME DInv, [Next]_vars PROVE DInv'
  OBVIOUS
<1>t. /\ RInv /\ RInv' /\ OInv /\ KeysOnce /\ TypeOK /\ \A c \in Calls : WritesDue(c)
      /\ \A c \in Calls : req[c].id \in Keys
  BY RInductive, RequestShape DEF DInv, RInv, OInv, IInv
<1>1. ASSUME NEW d \in Calls, Step(d) \/ ContextDone(d) \/ ServerEnds(d)
      PROVE  DInv'
  <2>1. Moves(d) /\ req' = req
    BY <1>t, <1>1, StepMoves DEF RInv, ListInv, Moves
  <2>2. /\ Kind(d) /\ WritesDue(d)'
        /\ tx'[d] = "committed" => tx[d] = "committed" \/ Commits(d)
    BY <1>t, <1>1, DataMoves DEF Kind
  <2>3. \A c \in Calls \ {d} : Apart(c) /\ Idle(c)
    BY <1>t, <2>1, RunnerTyped DEF Moves, TypeOK
  <2>4. \A c \in Calls : WritesDue(c)'
    BY <1>t, <2>1, <2>2, <2>3 DEF WritesDue, Apart, Idle, Mutates, Removes
  <2>5. KeysOnce' /\ \A k \in Keys : Gone(k) => Gone(k)'
    BY <2>1, <2>2, Kept
  <2>6. \A c \in Calls : Removes(c)' = Removes(c)
    BY <2>1 DEF Removes
  <2>7. ASSUME NEW c \in Calls, Removes(c)', tx'[c] = "committed" PROVE Gone(req[c].id)'
    <3>1. CASE tx[c] = "committed"
      <4>1. Gone(req[c].id) /\ req'[c].id = req[c].id
        BY <2>1, <2>6, <2>7, <3>1 DEF DInv
      <4>. QED
        BY <1>t, <2>5, <4>1
    <3>2. CASE tx[c] # "committed"
      <4>1. c = d /\ Commits(d) /\ Removes(d)
        BY <2>2, <2>3, <2>6, <2>7, <3>2 DEF Apart
      <4>. QED
        BY <2>1, <4>1, DeleteBuries
    <3>. QED
      BY <3>1, <3>2
  <2>8. ASSUME NEW c \in Calls, NEW e \in Calls, c # e, req[c].id = req[e].id,
               Removes(c), Removes(e), tx'[c] = "committed", tx'[e] = "committed", tx[c] # "committed"
        PROVE  FALSE
    <3>1. c = d /\ Commits(d)
      BY <2>2, <2>3, <2>8 DEF Apart
    <3>2. tx[e] = "committed"
      BY <2>3, <2>8, <3>1 DEF Apart
    <3>3. Gone(req[d].id)
      BY <2>8, <3>1, <3>2 DEF DInv
    <3>. QED
      BY <2>1, <2>8, <3>1, <3>3, DeleteBuries
  <2>9. DeletedOnce'
    <3>1. ASSUME NEW c \in Calls, NEW e \in Calls, c # e, req'[c].id = req'[e].id,
                 {req'[c].op, req'[e].op} \subseteq {"delete", "deleteNoContent"},
                 tx'[c] = "committed", tx'[e] = "committed"
          PROVE  FALSE
      <4>1. Removes(c) /\ Removes(e) /\ req[c].id = req[e].id
        BY <2>1, <3>1 DEF Removes
      <4>2. tx[c] = "committed" /\ tx[e] = "committed"
        BY <2>8, <3>1, <4>1
      <4>. QED
        BY <2>1, <3>1, <4>2 DEF DInv, DeletedOnce
    <3>. QED
      BY <3>1 DEF DeletedOnce
  <2>. QED
    BY <1>t, <2>1, <2>4, <2>5, <2>7, <2>9 DEF DInv
<1>2. ASSUME NEW k \in Keys, OtherMoves(k) \/ OtherLinks(k) PROVE DInv'
  <2>1. UNCHANGED <<pc, tx, stage, req, fresh, pending>>
    BY <1>t, <1>2, OthersTyped DEF txVars, opVars
  <2>2. \A j \in Keys : /\ rows'[j] = Absent <=> rows[j] = Absent
                        /\ rows[j] # Absent => rows'[j].deleted = rows[j].deleted
    BY <1>t, <1>2, OthersRows
  <2>3. \A c \in Calls : WritesDue(c)'
    BY <1>t, <2>1 DEF WritesDue, Mutates, Removes
  <2>4. KeysOnce'
    BY <1>t, <2>1, <2>2 DEF KeysOnce, Creating
  <2>5. ASSUME NEW j \in Keys, Gone(j) PROVE Gone(j)'
    BY <2>1, <2>2, <2>5 DEF Gone, Creating
  <2>6. \A c \in Calls : Removes(c)' /\ tx'[c] = "committed" => Gone(req[c].id)'
    BY <1>t, <2>1, <2>5 DEF DInv, Removes
  <2>7. DeletedOnce'
    BY <2>1 DEF DInv, DeletedOnce
  <2>. QED
    BY <1>t, <2>1, <2>3, <2>4, <2>6, <2>7 DEF DInv
<1>3. CASE UNCHANGED vars
  <2>1. UNCHANGED <<pc, tx, stage, req, fresh, pending, rows>>
    BY <1>3 DEF vars, txVars, dbVars, opVars
  <2>2. /\ \A c \in Calls : WritesDue(c)'
        /\ KeysOnce'
        /\ DeletedOnce'
        /\ \A c \in Calls : Removes(c)' /\ tx'[c] = "committed" => Gone(req[c].id)'
    BY <2>1 DEF DInv, WritesDue, KeysOnce, DeletedOnce, Gone, Creating, Mutates, Removes
  <2>. QED
    BY <1>t, <2>1, <2>2 DEF DInv
<1>. QED
  BY <1>1, <1>2, <1>3 DEF Next, Rest

LEMMA DAlways == Spec => []DInv
BY InitD, DInductive, PTL DEF Spec

\* Of any number of deletes of one row at most one commits (DeletedOnce): the
\* others wait for its lock and then find no row in scope.
THEOREM RowsDeletedOnce == Spec => []DeletedOnce
<1>1. DInv => DeletedOnce
  BY DEF DInv
<1>. QED
  BY <1>1, DAlways, PTL

\* A deleted row stays deleted, physically or by its flag, whatever updates
\* were under way, and a row appears only by a create (DeletedStaysDeleted).
THEOREM DeletedRowsStayDeleted == Spec => DeletedStaysDeleted
<1> DEFINE Keeps(k) ==
      /\ rows[k] = Absent /\ rows'[k] # Absent
           => \E c \in Calls : req[c].op = "create" /\ Commits(c)
      /\ rows[k] # Absent /\ rows[k].deleted => rows'[k] # Absent /\ rows'[k].deleted
<1>1. ASSUME DInv, [Next]_vars, NEW k \in Keys PROVE Keeps(k)
  <2>t. OInv /\ KeysOnce /\ rows \in Tables /\ RInv /\ \A c \in Calls : WritesDue(c)
    BY <1>1 DEF DInv, RInv, OInv, TypeOK
  <2>1. ASSUME NEW d \in Calls, Step(d) \/ ContextDone(d) \/ ServerEnds(d) PROVE Keeps(k)
    <3>1. CASE UNCHANGED rows
      BY <3>1
    <3>2. CASE Commits(d)
      <4>1. UNCHANGED rows \/ Creates(d) \/ Rewrites(d)
        BY <1>1, <3>2, CommitWrites
      <4>2. CASE Creates(d)
        <5>1. req[d].op = "create" /\ rows[pending[d].key] = Absent
          BY <2>t, <4>2 DEF Creates, Creating, KeysOnce
        <5>2. rows[k] # Absent => rows'[k] = rows[k]
          BY <2>t, <4>2, <5>1 DEF Creates, Tables
        <5>. QED
          BY <3>2, <5>1, <5>2
      <4>3. CASE Rewrites(d)
        <5>1. rows[req[d].id] # Absent /\ ~(SoftDelete /\ rows[req[d].id].deleted)
          BY <4>3, RowFacts DEF Rewrites
        <5>2. ~rows[req[d].id].deleted
          BY <2>t, <4>3, <5>1 DEF KeysOnce, Rewrites
        <5>3. k # req[d].id => rows'[k] = rows[k]
          BY <2>t, <4>3 DEF Rewrites, Tables
        <5>. QED
          BY <5>1, <5>2, <5>3
      <4>. QED
        BY <3>1, <4>1, <4>2, <4>3
    <3>3. UNCHANGED rows \/ Commits(d)
      BY <2>t, <2>1, DataMoves DEF Still, Inserts, Prepares
    <3>. QED
      BY <3>1, <3>2, <3>3
  <2>2. ASSUME NEW j \in Keys, OtherMoves(j) \/ OtherLinks(j) PROVE Keeps(k)
    BY <2>t, <2>2, OthersRows
  <2>3. CASE UNCHANGED vars
    BY <2>3 DEF vars, dbVars
  <2>. QED
    BY <1>1, <2>1, <2>2, <2>3 DEF Next, Rest
<1>2. DInv /\ [Next]_vars =>
        [\A k \in Keys :
           /\ rows[k] = Absent /\ rows'[k] # Absent
                => \E c \in Calls : req[c].op = "create" /\ Commits(c)
           /\ rows[k] # Absent /\ rows[k].deleted => rows'[k] # Absent /\ rows'[k].deleted]_vars
  BY <1>1
<1>. QED
  BY <1>2, DAlways, PTL DEF Spec, DeletedStaysDeleted

----
(* CrudStore keeps the promise of AtomicCrud.                              *)

\* A request that has yet to look anything up has no result, and one that found
\* nothing does not get to the commit.
NothingYet(c) ==
  /\ stage[c] \in {"insert", "lookup", "query"} /\ pc[c] \in {"start", "operation"}
       => result[c] = None /\ snap[c] = None
  /\ pc[c] \in {"start", "operation", "commit"} \/ tx[c] = "committing" => result[c] # NotFound
  /\ req[c].op = "create" => stage[c] \in {"insert", "output"}

\* The row that an update, patch or delete answers.
Due(c) == IF req[c].op \in {"update", "patch"} THEN Merged(c)
          ELSE IF req[c].op = "delete" THEN entity[c] ELSE Absent

\* The result tells what the commit will do.
ResultOfWrite(c) ==
  /\ req[c].op = "create" /\ pending[c] # None
       => \E o \in Owners : /\ pending[c].row = NewRow(c, o) /\ pending[c].links = c
                            /\ result[c] = [row |-> NewRow(c, o)]
  /\ Mutates(req[c]) /\ pending[c] # None => result[c] = [row |-> Due(c)]
  /\ EmptyPatch(req[c])
       => /\ stage[c] # "write" /\ pending[c] = None
          /\ stage[c] = "output" => result[c] = [row |-> entity[c]]

\* An operation returns what its output mapper got, DeleteNoContent aside, and a
\* create, update or patch commits nothing but its write.
CommitsWrite(c) ==
  /\ (pc[c] = "commit" \/ tx[c] = "committing") /\ req[c].op # "deleteNoContent"
       => stage[c] = "output"
  /\ /\ req[c].op \in {"create", "update", "patch"}
     /\ (stage[c] = "output" /\ tx[c] = "open") \/ tx[c] = "committing"
    => EmptyPatch(req[c]) \/ pending[c] # None

\* The total is the one of the moment of the query.
TotalKnown(c) ==
  req[c].op = "list" /\ stage[c] = "output"
    => snap[c] # None /\ result[c].total = Cardinality(Matching(snap[c], req[c].scope))

\* Without an error the caller gets the result, of a committed request.
AnswerDue(c) ==
  /\ mode[c] = "running" /\ err[c] = {} /\ pc[c] \in {"commit", "deferred", "return"}
       => /\ output[c] = result[c] /\ result[c] \in Results
          /\ pc[c] # "commit" => tx[c] = "committed"
  /\ reply[c] # NoReply => pc[c] = "replied"

PromiseInv(c) ==
  NothingYet(c) /\ ResultOfWrite(c) /\ CommitsWrite(c) /\ TotalKnown(c) /\ AnswerDue(c)

\* Only a transaction whose COMMIT was called is committed, and the caller of an
\* undecided one has an error or a panic, if anything.
Late(c) ==
  /\ tx[c] \in {"committing", "committed"} => commits[c] # 0
  /\ tx[c] = "committing"
       => /\ pc[c] \in {"deferred", "return", "replied", "exited"}
          /\ mode[c] # "running" \/ err[c] # {}
          /\ reply[c] # NoReply => reply[c].kind # "value"

PInv == DInv /\ \A c \in Calls : PromiseInv(c) /\ Late(c)

LEMMA InitP == Init => PInv
<1> SUFFICES ASSUME Init PROVE PInv
  OBVIOUS
<1>1. DInv
  BY InitD
<1>2. ASSUME NEW c \in Calls PROVE PromiseInv(c)
  <2>1. /\ pc[c] = "start" /\ tx[c] = "none" /\ pending[c] = None /\ snap[c] = None /\ result[c] = None
        /\ stage[c] = FirstStage(req[c]) /\ reply[c] = NoReply
    BY <1>2 DEF Init, Tx!Init
  <2>2. stage[c] \notin {"write", "output"} /\ (req[c].op = "create" => stage[c] = "insert")
    BY <2>1 DEF FirstStage
  <2>. QED
    BY <2>1, <2>2, AnswerAssumption DEF PromiseInv, NothingYet, ResultOfWrite, CommitsWrite, TotalKnown, AnswerDue
<1>3. ASSUME NEW c \in Calls PROVE Late(c)
  BY DEF Init, Tx!Init, Late
<1>. QED
  BY <1>1, <1>2, <1>3 DEF PInv

----
\* How the runner's own state of a call moves.
LEMMA RunnerFacts ==
  ASSUME Tx!TypeOK, NEW d \in Calls, RunnerMoves(d), pc[d] = "start" => tx[d] = "none"
  PROVE  /\ pc'[d] \in {"start", "operation"} => pc[d] \in {"start", "operation"}
         /\ pc'[d] = "commit" => pc[d] \in {"operation", "commit"}
         /\ tx[d] = "committed" => tx'[d] = "committed"
         /\ tx'[d] = "open" => tx[d] = "open" \/ pc[d] = "start"
         /\ tx'[d] = "committing" => tx[d] = "committing" \/ (tx[d] = "open" /\ pc[d] = "commit")
         /\ reply'[d] = reply[d] \/ Tx!Return(d)
         /\ commits'[d] = commits[d] \/ pc[d] = "commit"
<1> USE DEF Tx!TypeOK
<1>1. CASE Tx!Begin(d) \/ Tx!BeginFails(d)
  BY <1>1 DEF Tx!Begin, Tx!BeginFails
<1>2. CASE \/ \E o \in Results : Tx!OperationReturns(d, o)
           \/ Tx!OperationFails(d, Zero)
           \/ \E how \in {"panicking", "exiting"} : Tx!OperationAborts(d, how)
  BY <1>2 DEF Tx!OperationReturns, Tx!OperationFails, Tx!OperationAborts
<1>3. CASE Tx!CommitSucceeds(d)
  BY <1>3 DEF Tx!CommitSucceeds
<1>4. CASE Tx!CommitFails(d) \/ Tx!CommitPanics(d)
  <2>1. PICK s \in Tx!AfterBadCommit(d) \cup {tx[d]} : tx' = [tx EXCEPT ![d] = s]
    BY <1>4 DEF Tx!CommitFails, Tx!CommitPanics
  <2>2. pc' = [pc EXCEPT ![d] = "deferred"] /\ reply' = reply /\ pc[d] = "commit"
    BY <1>4 DEF Tx!CommitFails, Tx!CommitPanics
  <2>3. /\ s = "open" => tx[d] = "open"
        /\ tx[d] = "committed" => s = "committed"
        /\ s = "committing" => tx[d] \in {"open", "committing"}
    BY DEF Tx!AfterBadCommit
  <2>. QED
    BY <2>1, <2>2, <2>3
<1>5. CASE Tx!Rollback(d) \/ Tx!RollbackFails(d) \/ Tx!NoRollback(d)
  BY <1>5 DEF Tx!Rollback, Tx!RollbackFails, Tx!NoRollback, Tx!LeaveDeferred, Tx!CallsRollback
<1>6. CASE Tx!Return(d) \/ Tx!Exit(d)
  BY <1>6 DEF Tx!Return, Tx!Exit
<1>7. CASE Tx!ContextDone(d) \/ Tx!ServerEnds(d)
  BY <1>7 DEF Tx!ContextDone, Tx!ServerEnds, Tx!ServerRollsBack, Tx!ServerCommits
<1>8. CASE UNCHANGED txVars
  BY <1>8 DEF txVars
<1>. QED
  BY <1>1, <1>2, <1>3, <1>4, <1>5, <1>6, <1>7, <1>8 DEF RunnerMoves

\* A COMMIT without an answer is followed by an error or a panic.
LEMMA LateStep ==
  ASSUME Tx!TypeOK, NEW d \in Calls, RunnerMoves(d), AnswerDue(d), Late(d)
  PROVE  Late(d)'
<1> USE DEF Tx!TypeOK, AnswerDue, Late
<1>1. CASE \/ Tx!Begin(d) \/ Tx!BeginFails(d)
           \/ \E o \in Results : Tx!OperationReturns(d, o)
           \/ Tx!OperationFails(d, Zero)
           \/ \E how \in {"panicking", "exiting"} : Tx!OperationAborts(d, how)
  <2>1. /\ pc[d] \in {"start", "operation"} /\ UNCHANGED <<commits, reply>>
        /\ tx'[d] \in {tx[d], "open"}
    BY <1>1 DEF Tx!Begin, Tx!BeginFails, Tx!OperationReturns, Tx!OperationFails, Tx!OperationAborts
  <2>. QED
    BY <2>1
<1>2. CASE Tx!CommitSucceeds(d)
  <2>1. tx'[d] = "committed" /\ commits'[d] = commits[d] + 1
    BY <1>2 DEF Tx!CommitSucceeds, Tx!CallsCommit
  <2>. QED
    BY <2>1
<1>3. CASE Tx!CommitFails(d) \/ Tx!CommitPanics(d)
  <2>1. /\ pc[d] = "commit" /\ pc'[d] = "deferred" /\ reply' = reply
        /\ commits'[d] = commits[d] + 1
        /\ mode'[d] # "running" \/ err'[d] # {}
    BY <1>3 DEF Tx!CommitFails, Tx!CommitPanics, Tx!CallsCommit
  <2>. QED
    BY <2>1
<1>4. CASE Tx!Rollback(d) \/ Tx!RollbackFails(d) \/ Tx!NoRollback(d)
  <2>1. /\ UNCHANGED <<commits, reply, mode>> /\ pc'[d] = "return"
        /\ tx'[d] \in {tx[d], "rolledback", "orphaned"} /\ (err[d] # {} => err'[d] # {})
    BY <1>4 DEF Tx!Rollback, Tx!RollbackFails, Tx!NoRollback, Tx!LeaveDeferred, Tx!CallsRollback
  <2>. QED
    BY <2>1
<1>5. CASE Tx!Return(d)
  <2>1. /\ UNCHANGED <<commits, mode, err, tx>> /\ pc'[d] = "replied"
        /\ reply'[d] = Tx!ReplyOf(d)
    BY <1>5 DEF Tx!Return
  <2>2. mode[d] # "running" \/ err[d] # {} => Tx!ReplyOf(d).kind # "value" \/ mode[d] = "exiting"
    BY DEF Tx!ReplyOf
  <2>. QED
    BY <1>5, <2>1, <2>2 DEF Tx!Return
<1>6. CASE Tx!Exit(d)
  BY <1>6 DEF Tx!Exit
<1>7. CASE Tx!ContextDone(d) \/ Tx!ServerEnds(d)
  BY <1>7 DEF Tx!ContextDone, Tx!ServerEnds, Tx!ServerRollsBack, Tx!ServerCommits
<1>8. CASE UNCHANGED txVars
  BY <1>8 DEF txVars
<1>. QED
  BY <1>1, <1>2, <1>3, <1>4, <1>5, <1>6, <1>7, <1>8 DEF RunnerMoves

\* What an operation returns reaches the reply, and only past the commit.
LEMMA AnswerCarried ==
  ASSUME Tx!TypeOK, NEW d \in Calls, RunnerMoves(d), AnswerDue(d),
         result'[d] = result[d] \/ pc[d] = "operation",
         \A o \in Results : Tx!OperationReturns(d, o) => o = result'[d]
  PROVE  AnswerDue(d)'
<1> USE DEF Tx!TypeOK, AnswerDue
<1>1. CASE Tx!Begin(d) \/ Tx!BeginFails(d)
  <2>1. /\ pc[d] = "start" /\ reply'[d] = reply[d]
        /\ pc'[d] = "operation" \/ (pc'[d] = "return" /\ err'[d] = {"begin"})
    BY <1>1 DEF Tx!Begin, Tx!BeginFails
  <2>. QED
    BY <2>1
<1>2. CASE \E o \in Results : Tx!OperationReturns(d, o)
  <2>1. PICK o \in Results : Tx!OperationReturns(d, o)
    BY <1>2
  <2>2. pc[d] = "operation" /\ pc'[d] = "commit" /\ reply'[d] = reply[d] /\ output'[d] = o
    BY <2>1 DEF Tx!OperationReturns
  <2>3. o = result'[d] /\ reply[d] = NoReply
    BY <2>1, <2>2
  <2>. QED
    BY <2>2, <2>3
<1>3. CASE Tx!OperationFails(d, Zero)
  <2>1. pc[d] = "operation" /\ reply'[d] = reply[d] /\ err'[d] # {}
    BY <1>3 DEF Tx!OperationFails
  <2>. QED
    BY <2>1
<1>10. CASE \E how \in {"panicking", "exiting"} : Tx!OperationAborts(d, how)
  <2>1. pc[d] = "operation" /\ reply'[d] = reply[d] /\ mode'[d] # "running"
    BY <1>10 DEF Tx!OperationAborts
  <2>. QED
    BY <2>1
<1>4. CASE Tx!CommitSucceeds(d)
  <2>1. /\ pc[d] = "commit" /\ tx'[d] = "committed" /\ result'[d] = result[d]
        /\ UNCHANGED <<mode, output, err, reply>>
    BY <1>4 DEF Tx!CommitSucceeds
  <2>. QED
    BY <2>1
<1>5. CASE Tx!CommitFails(d) \/ Tx!CommitPanics(d)
  <2>1. CASE Tx!CommitFails(d)
    <3>1. pc[d] = "commit" /\ reply'[d] = reply[d] /\ err'[d] # {}
      BY <2>1 DEF Tx!CommitFails
    <3>. QED
      BY <3>1
  <2>2. CASE Tx!CommitPanics(d)
    <3>1. pc[d] = "commit" /\ reply'[d] = reply[d] /\ mode'[d] # "running"
      BY <2>2 DEF Tx!CommitPanics
    <3>. QED
      BY <3>1
  <2>. QED
    BY <1>5, <2>1, <2>2
<1>6. CASE Tx!Rollback(d) \/ Tx!RollbackFails(d) \/ Tx!NoRollback(d)
  <2>1. /\ pc[d] = "deferred" /\ reply'[d] = reply[d] /\ result'[d] = result[d]
        /\ mode'[d] = mode[d] /\ output'[d] = output[d]
        /\ err[d] # {} => err'[d] # {}
        /\ mode[d] # "running" \/ err'[d] # {} \/ tx'[d] = tx[d]
    <3>1. CASE Tx!Rollback(d)
      BY <3>1 DEF Tx!Rollback, Tx!LeaveDeferred, Tx!NeedsRollback
    <3>2. CASE Tx!RollbackFails(d)
      BY <3>2 DEF Tx!RollbackFails, Tx!LeaveDeferred
    <3>3. CASE Tx!NoRollback(d)
      BY <3>3 DEF Tx!NoRollback, Tx!LeaveDeferred
    <3>. QED
      BY <1>6, <3>1, <3>2, <3>3
  <2>. QED
    BY <2>1
<1>7. CASE Tx!Return(d) \/ Tx!Exit(d)
  <2>1. pc[d] = "return" /\ pc'[d] \in {"replied", "exited"} /\ (pc'[d] = "replied" \/ reply'[d] = reply[d])
    BY <1>7 DEF Tx!Return, Tx!Exit
  <2>. QED
    BY <2>1
<1>8. CASE Tx!ContextDone(d) \/ Tx!ServerEnds(d)
  <2>1. tx[d] \in {"open", "orphaned", "committing"} /\ UNCHANGED <<pc, mode, output, err, reply>>
    BY <1>8 DEF Tx!ContextDone, Tx!ServerEnds, Tx!ServerRollsBack, Tx!ServerCommits
  <2>. QED
    BY <2>1
<1>9. CASE UNCHANGED txVars
  BY <1>9 DEF txVars
<1>. QED
  BY <1>1, <1>2, <1>3, <1>4, <1>5, <1>6, <1>7, <1>8, <1>9, <1>10 DEF RunnerMoves

----
\* What the steps of other calls and of other programs leave of a call.
LEMMA PromiseKept ==
  ASSUME NEW c \in Calls, PromiseInv(c), Late(c), Apart(c), Idle(c), entity'[c] = entity[c]
  PROVE  PromiseInv(c)' /\ Late(c)'
<1>1. EmptyPatch(req[c])' = EmptyPatch(req[c]) /\ Mutates(req[c])' = Mutates(req[c])
  BY DEF Idle, EmptyPatch, Mutates
<1>2. Due(c)' = Due(c)
  BY DEF Idle, Due, Merged
<1>3. \A o \in Owners : NewRow(c, o)' = NewRow(c, o)
  BY DEF NewRow
<1>4. NothingYet(c)'
  BY DEF PromiseInv, NothingYet, Apart, Idle
<1>5. ResultOfWrite(c)'
  BY <1>1, <1>2 DEF PromiseInv, ResultOfWrite, Apart, Idle
<1>6. CommitsWrite(c)'
  BY <1>1 DEF PromiseInv, CommitsWrite, Apart, Idle
<1>7. TotalKnown(c)'
  BY DEF PromiseInv, TotalKnown, Apart, Idle, Matching
<1>8. AnswerDue(c)'
  BY DEF PromiseInv, AnswerDue, Apart, Idle
<1>9. Late(c)'
  BY DEF Late, Apart
<1>. QED
  BY <1>4, <1>5, <1>6, <1>7, <1>8, <1>9 DEF PromiseInv

LEMMA EntityIsLocal ==
  ASSUME OInv, NEW d \in Calls, Step(d) \/ ContextDone(d) \/ ServerEnds(d),
         NEW c \in Calls, c # d
  PROVE  entity'[c] = entity[c]
<1>1. CASE \/ Begin(d) \/ BeginFails(d) \/ OperationFails(d) \/ OperationAborts(d)
           \/ StatementRefused(d) \/ Output(d) \/ Returns(d) \/ ContextDone(d)
  BY <1>1, RunnerOnly DEF opVars
<1>2. CASE Finish(d) \/ ServerEnds(d)
  BY <1>2, Endings DEF opVars
<1>3. CASE LookupHits(d)
  BY <1>3 DEF LookupHits, OInv, TypeOK
<1>4. CASE \/ Insert(d) \/ LookupMisses(d) \/ ModifyWrites(d) \/ DeleteWrites(d)
           \/ DeleteNoContentWrites(d) \/ Query(d) \/ Count(d)
  BY <1>4 DEF Insert, LookupMisses, ModifyWrites, DeleteWrites, DeleteNoContentWrites, Query, Count
<1>. QED
  BY <1>1, <1>2, <1>3, <1>4 DEF Step, Operation, Interrupted, Statement

\* A step of the runner on which the operation only returns what it has found,
\* and at most gives its write up with the transaction.
Calm(d) ==
  /\ RunnerMoves(d) /\ UNCHANGED opVars /\ snap'[d] = snap[d]
  /\ pending'[d] = pending[d] \/ (pending'[d] = None /\ tx'[d] \notin {"open", "committing"})
  /\ \A o \in Results : Tx!OperationReturns(d, o) => stage[d] = "output" /\ o = result[d]

LEMMA CalmKeeps ==
  ASSUME Tx!TypeOK, NEW d \in Calls, PromiseInv(d), WritesDue(d), NotBegunHoldsNothing(d), Calm(d)
  PROVE  PromiseInv(d)'
<1>1. /\ pc'[d] \in {"start", "operation"} => pc[d] \in {"start", "operation"}
      /\ pc'[d] = "commit" => pc[d] \in {"operation", "commit"}
      /\ tx'[d] = "open" => tx[d] = "open" \/ pc[d] = "start"
      /\ tx'[d] = "committing" => tx[d] = "committing" \/ (tx[d] = "open" /\ pc[d] = "commit")
  BY RunnerFacts DEF Calm, NotBegunHoldsNothing
<1>2. UNCHANGED <<req, stage, entity, result>>
  BY DEF Calm, opVars
<1>3. EmptyPatch(req[d])' = EmptyPatch(req[d]) /\ Mutates(req[d])' = Mutates(req[d])
  BY <1>2 DEF EmptyPatch, Mutates
<1>4. Due(d)' = Due(d)
  BY <1>2 DEF Due, Merged
<1>5. NothingYet(d)'
  BY <1>1, <1>2 DEF PromiseInv, NothingYet, Calm
<1>6. ResultOfWrite(d)'
  BY <1>2, <1>3, <1>4 DEF PromiseInv, ResultOfWrite, Calm
<1>7. pc'[d] = "commit" => pc[d] = "commit" \/ stage[d] = "output"
  <2>1. SUFFICES ASSUME pc'[d] = "commit", pc[d] = "operation" PROVE stage[d] = "output"
    BY <1>1
  <2>2. PICK o \in Results : Tx!OperationReturns(d, o)
    BY <2>1 DEF Calm, RunnerMoves, Tx!TypeOK, Tx!Begin, Tx!BeginFails, Tx!OperationFails,
         Tx!OperationAborts, Tx!CommitSucceeds, Tx!CommitFails, Tx!CommitPanics, Tx!Rollback,
         Tx!RollbackFails, Tx!NoRollback, Tx!Return, Tx!Exit, Tx!ContextDone, Tx!ServerEnds, Tx!ServerRollsBack, Tx!ServerCommits, txVars
  <2>. QED
    BY <2>2 DEF Calm
<1>8. CommitsWrite(d)'
  BY <1>1, <1>2, <1>3, <1>7 DEF PromiseInv, CommitsWrite, Calm, WritesDue
<1>9. TotalKnown(d)'
  BY <1>2 DEF PromiseInv, TotalKnown, Calm, Matching
<1>10. AnswerDue(d)'
  BY <1>2, AnswerCarried DEF PromiseInv, Calm
<1>. QED
  BY <1>5, <1>6, <1>8, <1>9, <1>10 DEF PromiseInv

LEMMA CalmSteps ==
  ASSUME RInv, NEW d \in Calls,
         \/ Begin(d) \/ BeginFails(d) \/ OperationFails(d) \/ OperationAborts(d)
         \/ StatementRefused(d) \/ Output(d) \/ Returns(d) \/ ContextDone(d)
         \/ Finish(d) \/ ServerEnds(d)
  PROVE  Calm(d)
<1>t. Tx!TypeOK /\ OInv /\ pending \in [Calls -> Pendings \cup {None}]
  BY DEF RInv, OInv, TypeOK
<1>1. CASE \/ Begin(d) \/ BeginFails(d) \/ OperationFails(d) \/ OperationAborts(d)
           \/ StatementRefused(d) \/ Returns(d) \/ ContextDone(d)
  <2>1. Moves(d) /\ UNCHANGED <<dbVars, opVars>>
    BY <1>1, <1>t, RunnerOnly
  <2>2. ASSUME NEW o \in Results, Tx!OperationReturns(d, o) PROVE FALSE
    <3>1. pc[d] = "operation" /\ pc'[d] = "commit"
      BY <2>2, <1>t DEF Tx!OperationReturns, Tx!TypeOK
    <3>. QED
      BY <3>1, <1>1, <1>t DEF Begin, BeginFails, OperationFails, OperationAborts, StatementRefused,
           Returns, ContextDone, Tx!Begin, Tx!BeginFails, Tx!OperationFails, Tx!OperationAborts,
           Tx!NoRollback, Tx!Return, Tx!Exit, Tx!ContextDone, Tx!TypeOK
  <2>. QED
    BY <2>1, <2>2 DEF Calm, Moves, dbVars
<1>2. CASE Output(d)
  <2>1. Moves(d) /\ UNCHANGED <<dbVars, opVars>>
    BY <1>2, <1>t, RunnerOnly
  <2>2. stage[d] = "output" /\ output'[d] = result[d]
    BY <1>2, <1>t DEF Output, At, Tx!OperationReturns, Tx!TypeOK
  <2>3. \A o \in Results : Tx!OperationReturns(d, o) => o = result[d]
    BY <2>2, <1>t DEF Tx!OperationReturns, Tx!TypeOK
  <2>. QED
    BY <2>1, <2>2, <2>3 DEF Calm, Moves, dbVars
<1>3. CASE Finish(d) \/ ServerEnds(d)
  <2>1. Moves(d) /\ Settles(d) /\ UNCHANGED opVars
    BY <1>3, <1>t, Endings
  <2>2. /\ snap'[d] = snap[d]
        /\ pending'[d] = pending[d] \/ (pending'[d] = None /\ tx'[d] \notin {"open", "committing"})
    BY <2>1, <1>t DEF Settles, Installs, Discards, dbVars
  <2>3. ASSUME NEW o \in Results, Tx!OperationReturns(d, o) PROVE FALSE
    <3>1. pc[d] = "operation" /\ pc'[d] = "commit"
      BY <2>3, <1>t DEF Tx!OperationReturns, Tx!TypeOK
    <3>. QED
      BY <3>1, <1>3, <1>t DEF Finish, CommitSucceeds, CommitFails, CommitPanics, Rollback, RollbackFails,
           ServerEnds, Tx!CommitSucceeds, Tx!CommitFails, Tx!CommitPanics, Tx!Rollback,
           Tx!RollbackFails, Tx!ServerEnds, Tx!ServerRollsBack, Tx!ServerCommits, Tx!TypeOK
  <2>. QED
    BY <2>1, <2>2, <2>3 DEF Calm, Moves
<1>. QED
  BY <1>1, <1>2, <1>3

----
\* Nothing that AtomicCrud speaks of changes with the step.
Silent(d) == UNCHANGED <<rows, links>> /\ Outcome(d)' = Outcome(d) /\ AnswerOf(d)' = AnswerOf(d)

\* A statement is executed while nobody has an answer, and what it finds is kept
\* until the operation returns.
LEMMA StatementFacts ==
  ASSUME PInv, NEW d \in Calls, Statement(d)
  PROVE  /\ OInv /\ IInv /\ TypeOK /\ Typed /\ PromiseInv(d) /\ Kinds(d) /\ WritesDue(d) /\ Moves(d)
         /\ req' = req /\ pc[d] = "operation" /\ tx[d] = "open" /\ reply[d] = NoReply
         /\ result[d] # NotFound
<1>1. /\ OInv /\ IInv /\ TypeOK /\ Typed /\ PromiseInv(d) /\ Kinds(d) /\ WritesDue(d) /\ ListInv(d)
  BY DEF PInv, DInv, RInv, OInv, IInv
<1>2. pc[d] = "operation" /\ tx[d] = "open"
  BY DEF Statement, Insert, LookupHits, LookupMisses, ModifyWrites, DeleteWrites, DeleteNoContentWrites,
         Query, Count, Executes, At
<1>3. Moves(d)
  BY <1>1, StepMoves DEF Step, Operation, ListInv
<1>. QED
  BY <1>1, <1>2, <1>3 DEF Moves, PromiseInv, NothingYet, AnswerDue

\* Where the runner stays as it is, the answer is not due.
LEMMA NotDue ==
  ASSUME NEW d \in Calls, UNCHANGED txVars, pc[d] = "operation", reply[d] = NoReply
  PROVE  AnswerDue(d)' /\ AnswerOf(d)' = AnswerOf(d)
BY DEF txVars, AnswerDue, AnswerOf

LEMMA InsertPromise ==
  ASSUME PInv, NEW d \in Calls, Insert(d)
  PROVE  PromiseInv(d)' /\ Silent(d)
<1>t. /\ OInv /\ TypeOK /\ Typed /\ PromiseInv(d) /\ WritesDue(d)
      /\ req' = req /\ pc[d] = "operation" /\ tx[d] = "open" /\ reply[d] = NoReply
  BY StatementFacts DEF Statement
<1>1. PICK k \in fresh, o \in Owners :
        /\ pending' = [pending EXCEPT ![d] = [key |-> k, row |-> NewRow(d, o), links |-> d]]
        /\ result' = [result EXCEPT ![d] = [row |-> NewRow(d, o)]]
  BY DEF Insert, Writes, Yields
<1>2. /\ UNCHANGED <<txVars, rows, links, snap, entity>>
      /\ stage'[d] = "output" /\ stage[d] = "insert"
  BY <1>t DEF Insert, Executes, At, GoTo, Typed
<1>3. req[d].op = "create" /\ result[d] = None
  BY <1>t, <1>2 DEF WritesDue, PromiseInv, NothingYet
<1>4. pending'[d] = [key |-> k, row |-> NewRow(d, o), links |-> d] /\ result'[d] = [row |-> NewRow(d, o)]
  BY <1>t, <1>1 DEF Typed, TypeOK
<1>5. result'[d] \in Results /\ result'[d] # NotFound /\ pending'[d] # None
  <2>1. NewRow(d, o) \in Rows /\ d \in Marks
    BY NewRowTyped DEF Marks
  <2>2. pending'[d] \in Pendings
    BY <1>t, <1>4, <2>1 DEF Pendings, Typed
  <2>. QED
    BY <1>4, <2>1, <2>2, ResultShapes, AnswerAssumption, NoneAssumption
<1>6. pc' = pc /\ tx' = tx
  BY <1>2 DEF txVars
<1>7. AnswerDue(d)' /\ AnswerOf(d)' = AnswerOf(d)
  BY <1>t, <1>2, NotDue
<1>8. ~Mutates(req'[d]) /\ ~EmptyPatch(req'[d])
  BY <1>t, <1>3 DEF Mutates, EmptyPatch
<1>9. ResultOfWrite(d)'
  <2>1. pending'[d].row = NewRow(d, o) /\ pending'[d].links = d
    BY <1>4
  <2>. QED
    BY <1>4, <1>8, <2>1 DEF ResultOfWrite
<1>10. NothingYet(d)' /\ CommitsWrite(d)' /\ TotalKnown(d)'
  BY <1>t, <1>2, <1>3, <1>5 DEF NothingYet, CommitsWrite, TotalKnown
<1>11. Outcome(d) = None /\ Outcome(d)' = None
  BY <1>t, <1>3, <1>5, <1>6, AnswerAssumption DEF Outcome
<1>. QED
  BY <1>2, <1>7, <1>9, <1>10, <1>11 DEF PromiseInv, Silent

----
\* The step is the moment at which d acts, in the sense of AtomicCrud.
Acting(d) == Outcome(d) = None /\ AnswerOf(d) \in {None, Doubt} /\ AnswerOf(d)' = AnswerOf(d)

Reads(d) ==
  /\ Acting(d) /\ UNCHANGED <<rows, links>>
  /\ req[d].op = "read" /\ Visible(rows[req[d].id], req[d].scope)
  /\ Outcome(d)' = [row |-> rows[req[d].id], links |-> links[req[d].id]]

Misses(d) ==
  /\ Acting(d) /\ UNCHANGED <<rows, links>>
  /\ req[d].op \notin {"create", "list"} /\ ~Visible(rows[req[d].id], req[d].scope)
  /\ Outcome(d)' = NotFound

Lists(d) ==
  LET all == Matching(rows, req[d].scope) IN
  /\ Acting(d) /\ UNCHANGED <<rows, links>>
  /\ req[d].op = "list"
  /\ \E page \in SUBSET all :
       /\ Cardinality(page) = PageSize(req[d], Cardinality(all))
       /\ Outcome(d)' = [page |-> [k \in page |-> rows[k]], total |-> Cardinality(all)]

LEMMA LookupHitsPromise ==
  ASSUME PInv, NEW d \in Calls, LookupHits(d)
  PROVE  PromiseInv(d)' /\ (Silent(d) \/ Reads(d))
<1> DEFINE k == req[d].id
<1>t. /\ OInv /\ TypeOK /\ Typed /\ PromiseInv(d) /\ WritesDue(d) /\ Kinds(d)
      /\ req' = req /\ pc[d] = "operation" /\ tx[d] = "open" /\ reply[d] = NoReply
  BY StatementFacts DEF Statement
<1>1. /\ UNCHANGED <<txVars, rows, links, snap, pending>> /\ stage[d] = "lookup"
      /\ Visible(rows[k], req[d].scope) /\ entity'[d] = rows[k]
  BY <1>t DEF LookupHits, Executes, At, Typed
<1>2. result[d] = None /\ pending[d] = None /\ req[d].op \notin {"create", "list"}
  BY <1>t, <1>1 DEF PromiseInv, NothingYet, PInv, DInv, RInv, IInv, CallInv, WritesLast, Kinds
<1>3. k \in Keys /\ rows[k] \in Rows /\ links[k] \in Marks \cup {Absent}
  BY <1>t, <1>1, RequestShape DEF Visible, Typed
<1>4. \/ /\ req[d].op = "read" /\ result'[d] = [row |-> rows[k], links |-> links[k]]
         /\ stage'[d] = "output"
      \/ /\ EmptyPatch(req[d]) /\ result'[d] = [row |-> rows[k]] /\ stage'[d] = "output"
      \/ /\ req[d].op # "read" /\ ~EmptyPatch(req[d]) /\ result'[d] = None /\ stage'[d] = "write"
  BY <1>t, <1>1, <1>2 DEF LookupHits, Yields, GoTo, Typed, TypeOK
<1>5. result'[d] # NotFound
  BY <1>3, <1>4, ResultShapes, AnswerAssumption
<1>6. pc' = pc /\ tx' = tx
  BY <1>1 DEF txVars
<1>7. AnswerDue(d)' /\ AnswerOf(d)' = AnswerOf(d) /\ AnswerOf(d) = None
  BY <1>t, <1>1, NotDue DEF AnswerOf
<1>8. EmptyPatch(req'[d]) = EmptyPatch(req[d]) /\ (EmptyPatch(req[d]) => req[d].op = "patch")
  BY <1>t DEF EmptyPatch
<1>9. ResultOfWrite(d)'
  BY <1>1, <1>2, <1>4, <1>8 DEF ResultOfWrite, EmptyPatch
<1>10. NothingYet(d)' /\ CommitsWrite(d)' /\ TotalKnown(d)'
  BY <1>t, <1>1, <1>2, <1>4, <1>5, <1>6, <1>8 DEF NothingYet, CommitsWrite, TotalKnown
<1>11. CASE req[d].op = "read"
  <2>1. Outcome(d) = None
    BY <1>t, <1>2, <1>11, AnswerAssumption DEF Outcome
  <2>2. Outcome(d)' = [row |-> rows[k], links |-> links[k]]
    BY <1>t, <1>4, <1>5, <1>6, <1>8, <1>11 DEF Outcome
  <2>. QED
    BY <1>1, <1>7, <1>9, <1>10, <1>11, <2>1, <2>2 DEF PromiseInv, Reads, Acting
<1>12. CASE req[d].op # "read"
  <2>1. Outcome(d) = None /\ Outcome(d)' = None
    BY <1>t, <1>2, <1>5, <1>6, <1>12, AnswerAssumption DEF Outcome
  <2>. QED
    BY <1>1, <1>7, <1>9, <1>10, <2>1 DEF PromiseInv, Silent
<1>. QED
  BY <1>11, <1>12

LEMMA LookupMissesPromise ==
  ASSUME PInv, NEW d \in Calls, LookupMisses(d)
  PROVE  PromiseInv(d)' /\ Misses(d)
<1> DEFINE k == req[d].id
<1>t. /\ OInv /\ TypeOK /\ Typed /\ PromiseInv(d) /\ WritesDue(d) /\ Kinds(d)
      /\ req' = req /\ pc[d] = "operation" /\ tx[d] = "open" /\ reply[d] = NoReply
  BY StatementFacts DEF Statement
<1>1. /\ UNCHANGED <<rows, links, snap, pending, stage, entity>> /\ stage[d] = "lookup"
      /\ ~Visible(rows[k], req[d].scope) /\ result'[d] = NotFound
  BY <1>t DEF LookupMisses, Executes, At, Yields, TypeOK
<1>2. result[d] = None /\ pending[d] = None /\ req[d].op \notin {"create", "list"}
  BY <1>t, <1>1 DEF PromiseInv, NothingYet, PInv, DInv, RInv, IInv, CallInv, WritesLast, Kinds
<1>3. pc'[d] = "deferred" /\ err'[d] # {} /\ tx' = tx /\ reply' = reply
  BY <1>t DEF LookupMisses, Tx!OperationFails, TypeOK, Tx!TypeOK
<1>4. AnswerDue(d)' /\ AnswerOf(d)' = None /\ AnswerOf(d) = None
  BY <1>t, <1>3 DEF AnswerDue, AnswerOf
<1>5. ResultOfWrite(d)'
  BY <1>t, <1>1, <1>2 DEF ResultOfWrite
<1>6. NothingYet(d)' /\ CommitsWrite(d)' /\ TotalKnown(d)'
  BY <1>t, <1>1, <1>2, <1>3 DEF NothingYet, CommitsWrite, TotalKnown
<1>7. Outcome(d) = None /\ Outcome(d)' = NotFound
  BY <1>t, <1>1, <1>2, AnswerAssumption DEF Outcome
<1>. QED
  BY <1>1, <1>2, <1>4, <1>5, <1>6, <1>7 DEF PromiseInv, Misses, Acting

LEMMA WritePromise ==
  ASSUME PInv, NEW d \in Calls, ModifyWrites(d) \/ DeleteWrites(d) \/ DeleteNoContentWrites(d)
  PROVE  PromiseInv(d)' /\ Silent(d)
<1>t. /\ OInv /\ IInv /\ TypeOK /\ Typed /\ PromiseInv(d) /\ WritesDue(d) /\ Kinds(d) /\ Moves(d)
      /\ req' = req /\ pc[d] = "operation" /\ tx[d] = "open" /\ reply[d] = NoReply
      /\ result[d] # NotFound
  BY StatementFacts DEF Statement
<1>1. /\ UNCHANGED <<rows, links, snap, entity>> /\ stage[d] = "write"
      /\ req[d].op \in {"update", "patch", "delete", "deleteNoContent"}
  BY DEF ModifyWrites, DeleteWrites, DeleteNoContentWrites, Executes, At
<1>2. pending'[d] = Prepared(d) /\ pending'[d] # None
  BY <1>t, WriteMoves, NoneAssumption
<1>3. result'[d] = [row |-> Due(d)]
  BY <1>t DEF ModifyWrites, DeleteWrites, DeleteNoContentWrites, Yields, Due, TypeOK
<1>4. entity[d] \in Rows /\ Due(d) \in Rows \cup {Absent}
  <2>1. entity[d] # Absent
    BY <1>t, <1>1 DEF IInv, CallInv, WritesFromEntity, Mutates
  <2>. QED
    BY <1>t, <2>1, WritesTyped DEF Typed, Due
<1>5. result'[d] \in Results /\ result'[d] # NotFound
  BY <1>3, <1>4, ResultShapes, AnswerAssumption
<1>6. ~EmptyPatch(req[d]) /\ EmptyPatch(req'[d]) = EmptyPatch(req[d])
  BY <1>t, <1>1 DEF PromiseInv, ResultOfWrite, EmptyPatch
<1>7. \/ UNCHANGED txVars /\ stage'[d] = "output"
      \/ /\ Tx!OperationReturns(d, result'[d]) /\ stage'[d] = "write"
         /\ req[d].op = "deleteNoContent"
  BY <1>t, <1>1 DEF ModifyWrites, DeleteWrites, DeleteNoContentWrites, GoTo, Yields, TypeOK
<1>8. tx' = tx /\ reply' = reply /\ pc'[d] \in {"operation", "commit"}
      /\ (pc'[d] = "commit" => req[d].op = "deleteNoContent")
  BY <1>t, <1>7 DEF Tx!OperationReturns, txVars, Typed
<1>9. AnswerDue(d)'
  <2>1. \A o \in Results : Tx!OperationReturns(d, o) => o = result'[d]
    BY <1>t, <1>7 DEF Tx!OperationReturns, txVars, TypeOK, Tx!TypeOK
  <2>. QED
    BY <1>t, <2>1, AnswerCarried DEF TypeOK, Moves, PromiseInv
<1>10. Due(d)' = Due(d)
  BY <1>t, <1>1 DEF Due, Merged
<1>11. ResultOfWrite(d)'
  BY <1>t, <1>1, <1>3, <1>6, <1>10 DEF ResultOfWrite
<1>12. NothingYet(d)' /\ CommitsWrite(d)' /\ TotalKnown(d)'
  BY <1>t, <1>1, <1>2, <1>5, <1>7, <1>8 DEF NothingYet, CommitsWrite, TotalKnown
<1>13. Outcome(d) = None /\ Outcome(d)' = None
  BY <1>t, <1>1, <1>5, <1>8 DEF Outcome
<1>14. AnswerOf(d)' = AnswerOf(d)
  BY <1>t, <1>8 DEF AnswerOf
<1>. QED
  BY <1>1, <1>9, <1>11, <1>12, <1>13, <1>14 DEF PromiseInv, Silent

LEMMA QueryPromise ==
  ASSUME PInv, NEW d \in Calls, Query(d)
  PROVE  PromiseInv(d)' /\ Lists(d)
<1> DEFINE all == Matching(rows, req[d].scope)
<1>t. /\ OInv /\ TypeOK /\ Typed /\ PromiseInv(d) /\ WritesDue(d) /\ Kinds(d)
      /\ req' = req /\ pc[d] = "operation" /\ tx[d] = "open" /\ reply[d] = NoReply
  BY StatementFacts DEF Statement
<1>1. /\ UNCHANGED <<txVars, rows, links, pending, entity>> /\ stage[d] = "query" /\ stage'[d] = "count"
  BY <1>t DEF Query, Executes, At, GoTo, Typed
<1>2. result[d] = None /\ snap[d] = None /\ req[d].op = "list" /\ View(d) = rows
  BY <1>t, <1>1 DEF PromiseInv, NothingYet, Kinds, View
<1>3. PICK page \in SUBSET all :
        /\ Cardinality(page) = PageSize(req[d], Cardinality(all))
        /\ result'[d] = [page |-> [k \in page |-> rows[k]], total |-> 0]
  BY <1>t, <1>2 DEF Query, Yields, TypeOK
<1>4. snap'[d] = rows /\ snap'[d] # None /\ result'[d] # NotFound
  <2>1. snap'[d] = rows /\ rows \in Tables
    BY <1>t, <1>2 DEF Query, TypeOK
  <2>2. Kinds(d)'
    BY <1>t, QueryMoves DEF Moves
  <2>3. result'[d] \in Results
    BY <1>t, <1>1, <1>2, <2>2, ResultShapes DEF Kinds
  <2>. QED
    BY <2>1, <2>3, NoneAssumption, AnswerAssumption
<1>5. pc' = pc /\ tx' = tx
  BY <1>1 DEF txVars
<1>6. AnswerDue(d)' /\ AnswerOf(d)' = None /\ AnswerOf(d) = None
  BY <1>t, <1>1, NotDue DEF AnswerOf
<1>7. ~Mutates(req[d]) /\ ~EmptyPatch(req[d])
  BY <1>2 DEF Mutates, EmptyPatch
<1>8. ResultOfWrite(d)'
  BY <1>t, <1>2, <1>7 DEF ResultOfWrite
<1>9. NothingYet(d)' /\ CommitsWrite(d)' /\ TotalKnown(d)'
  BY <1>t, <1>1, <1>2, <1>4, <1>5 DEF NothingYet, CommitsWrite, TotalKnown
<1>10. Outcome(d) = None
  BY <1>t, <1>2, AnswerAssumption DEF Outcome
<1>11. Outcome(d)' = [result'[d] EXCEPT !.total = Cardinality(all)]
  BY <1>t, <1>2, <1>4, <1>5 DEF Outcome
<1>12. Outcome(d)' = [page |-> [k \in page |-> rows[k]], total |-> Cardinality(all)]
  BY <1>3, <1>11
<1>. QED
  BY <1>1, <1>2, <1>3, <1>6, <1>8, <1>9, <1>10, <1>12 DEF PromiseInv, Lists, Acting

LEMMA CountPromise ==
  ASSUME PInv, NEW d \in Calls, Count(d)
  PROVE  PromiseInv(d)' /\ Silent(d)
<1> DEFINE n == Cardinality(Matching(snap[d], req[d].scope))
<1>t. /\ OInv /\ TypeOK /\ Typed /\ PromiseInv(d) /\ WritesDue(d) /\ Kinds(d) /\ Kinds(d)'
      /\ req' = req /\ pc[d] = "operation" /\ tx[d] = "open" /\ reply[d] = NoReply
      /\ result[d] # NotFound
  BY StatementFacts DEF Statement, Moves
<1>1. /\ UNCHANGED <<txVars, rows, links, pending, snap, entity>> /\ stage[d] = "count" /\ stage'[d] = "output"
  BY <1>t DEF Count, Executes, At, GoTo, Typed, dbVars
<1>2. req[d].op = "list" /\ View(d) = snap[d] /\ snap[d] # None /\ result[d] \in ListResults
  BY <1>t, <1>1 DEF Kinds, View
<1>3. result'[d] = [result[d] EXCEPT !.total = n]
  BY <1>t, <1>2 DEF Count, Yields, TypeOK
<1>4. result'[d].total = n /\ [result'[d] EXCEPT !.total = n] = [result[d] EXCEPT !.total = n]
  BY <1>2, <1>3 DEF ListResults
<1>5. result'[d] # NotFound
  BY <1>t, <1>1, AnswerAssumption DEF Kinds
<1>6. pc' = pc /\ tx' = tx
  BY <1>1 DEF txVars
<1>7. AnswerDue(d)' /\ AnswerOf(d)' = AnswerOf(d)
  BY <1>t, <1>1, NotDue
<1>8. ~Mutates(req[d]) /\ ~EmptyPatch(req[d])
  BY <1>2 DEF Mutates, EmptyPatch
<1>9. ResultOfWrite(d)'
  BY <1>t, <1>2, <1>8 DEF ResultOfWrite
<1>10. NothingYet(d)' /\ CommitsWrite(d)' /\ TotalKnown(d)'
  <2>1. NothingYet(d)' /\ CommitsWrite(d)'
    BY <1>t, <1>1, <1>2, <1>5, <1>6 DEF NothingYet, CommitsWrite
  <2>2. TotalKnown(d)'
    BY <1>t, <1>1, <1>2, <1>4 DEF TotalKnown, Matching
  <2>. QED
    BY <2>1, <2>2
<1>11. Outcome(d) = [result[d] EXCEPT !.total = n]
  BY <1>t, <1>2 DEF Outcome
<1>12. Outcome(d)' = [result'[d] EXCEPT !.total = n]
  BY <1>t, <1>1, <1>2, <1>5, <1>6 DEF Outcome, Matching
<1>. QED
  BY <1>1, <1>4, <1>7, <1>9, <1>10, <1>11, <1>12 DEF PromiseInv, Silent

----
\* AtomicCrud is instantiated with the data of CrudStore.
LEMMA SameData ==
  /\ \A row, scope : Promise!Visible(row, scope) = Visible(row, scope)
  /\ \A table, scope : Promise!Matching(table, scope) = Matching(table, scope)
  /\ \A request, n : Promise!PageSize(request, n) = PageSize(request, n)
  /\ \A mark, o : Promise!NewRow(mark, o) = NewRow(mark, o)
  /\ \A s : Promise!Cardinality(s) = Cardinality(s)
<1>1. \A s : Promise!Cardinality(s) = Cardinality(s)
  BY DEF Promise!Cardinality, Cardinality
<1>. QED
  BY <1>1 DEF Promise!Visible, Visible, Promise!Matching, Matching, Promise!PageSize, PageSize,
              Promise!NewRow, NewRow

\* The step changes the outcome of d and the answer of nobody.
LEMMA Found ==
  ASSUME NEW d \in Calls, Acting(d),
         \A c \in Calls \ {d} : Outcome(c)' = Outcome(c) /\ AnswerOf(c)' = AnswerOf(c)
  PROVE  Promise!Finds(d, Outcome(d)') /\ [c \in Calls |-> AnswerOf(c)]' = [c \in Calls |-> AnswerOf(c)]
BY DEF Promise!Finds, Acting

\* A commit is the moment at which a write acts; a read or a list has acted.
LEMMA CommitPromise ==
  ASSUME PInv, [Next]_vars, NEW d \in Calls, Commits(d), Calm(d), Promise!Finds(d, Outcome(d)')
  PROVE  \/ Silent(d)
         \/ Acting(d) /\ (Promise!Create(d) \/ Promise!Modify(d) \/ Promise!Delete(d))
<1> DEFINE k == req[d].id
           w == pending[d]
<1>t. /\ IInv /\ OInv /\ Typed /\ Tx!TypeOK /\ Kinds(d) /\ WritesDue(d) /\ KeysOnce /\ PromiseInv(d)
      /\ Late(d) /\ NotBegunHoldsNothing(d) /\ req[d].op \in Ops
  BY RequestShape DEF PInv, DInv, RInv, OInv, IInv, CallInv, TypeOK
<1>1. Committable(d) /\ Installs(d) /\ tx[d] # "committed" /\ tx'[d] = "committed"
  BY <1>t, CommitInstalls DEF Commits
<1>2. result[d] # NotFound /\ (reply[d] = NoReply \/ AnswerOf(d) = Doubt)
  BY <1>t, <1>1 DEF PromiseInv, NothingYet, AnswerDue, Late, AnswerOf, Committable
<1>3. /\ result' = result /\ req' = req /\ snap'[d] = snap[d] /\ reply'[d] = reply[d]
      /\ commits'[d] = commits[d] \/ reply[d] = NoReply
  <2>1. ~Tx!Return(d)
    BY <1>1 DEF Tx!Return
  <2>. QED
    BY <1>t, <1>1, <2>1, RunnerFacts DEF Calm, opVars, PromiseInv, AnswerDue, NotBegunHoldsNothing
<1>4. Outcome(d)' = result[d] /\ AnswerOf(d) \in {None, Doubt} /\ AnswerOf(d)' = AnswerOf(d)
  BY <1>1, <1>2, <1>3 DEF Outcome, AnswerOf
<1>5. req[d].op \notin {"read", "list"} => Acting(d)
  BY <1>1, <1>2, <1>4 DEF Outcome, Acting
<1>6. rows' = IF w = None THEN rows ELSE [rows EXCEPT ![w.key] = w.row]
  BY <1>1 DEF Installs
<1>7. links' = IF w = None \/ w.links = Keep THEN links ELSE [links EXCEPT ![w.key] = w.links]
  BY <1>1 DEF Installs
<1>8. CASE req[d].op \in {"read", "list"}
  <2>1. w = None
    BY <1>t, <1>8 DEF WritesDue, Mutates
  <2>2. Outcome(d) = result[d]
    <3>1. CASE req[d].op = "read"
      BY <1>1, <1>2, <3>1 DEF Outcome
    <3>2. CASE req[d].op = "list"
      <4>1. /\ snap[d] # None /\ result[d] \in ListResults
            /\ result[d].total = Cardinality(Matching(snap[d], req[d].scope))
        BY <1>t, <1>1, <3>2 DEF PromiseInv, CommitsWrite, TotalKnown, Kinds, Committable
      <4>2. [result[d] EXCEPT !.total = result[d].total] = result[d]
        BY <4>1 DEF ListResults
      <4>. QED
        BY <1>1, <1>2, <3>2, <4>1, <4>2 DEF Outcome
    <3>. QED
      BY <1>8, <3>1, <3>2
  <2>. QED
    BY <1>4, <1>6, <1>7, <2>1, <2>2 DEF Silent
<1>9. CASE req[d].op = "create"
  <2>1. w # None
    BY <1>t, <1>1, <1>9 DEF PromiseInv, CommitsWrite, EmptyPatch, Committable
  <2>2. w.key \in Keys /\ rows[w.key] = Absent
    BY <1>t, <1>9, <2>1 DEF KeysOnce, Creating
  <2>3. PICK o \in Owners : w.row = NewRow(d, o) /\ w.links = d /\ result[d] = [row |-> NewRow(d, o)]
    BY <1>t, <1>9, <2>1 DEF PromiseInv, ResultOfWrite
  <2>4. d # Keep
    BY SentinelAssumption DEF Marks
  <2>5. Promise!NewRow(d, o) = NewRow(d, o)
    BY SameData
  <2>6. /\ rows[w.key] = Absent
        /\ rows' = [rows EXCEPT ![w.key] = Promise!NewRow(d, o)]
        /\ links' = [links EXCEPT ![w.key] = d]
        /\ Promise!Finds(d, [row |-> Promise!NewRow(d, o)])
    BY <1>4, <1>6, <1>7, <2>1, <2>2, <2>3, <2>4, <2>5
  <2>7. Promise!Create(d)
    BY <1>9, <2>2, <2>6 DEF Promise!Create
  <2>. QED
    BY <1>5, <1>9, <2>7
<1>10. CASE Mutates(req[d])
  <2>1. /\ k \in Keys /\ entity[d] \in Rows /\ rows[k] = entity[d]
        /\ Visible(rows[k], req[d].scope)
        /\ w = None \/ w = Prepared(d)
    BY <1>t, <1>10, CommitFromEntity
  <2>2. CASE req[d].op \in {"update", "patch"}
    <3> DEFINE new == [rows[k] EXCEPT !.fields =
                         [f \in Fields |-> IF f \in req[d].names THEN d ELSE rows[k].fields[f]]]
               relinks == req[d].op = "update" \/ req[d].relink
    <3>1. Merged(d) = new
      BY <2>1 DEF Merged
    <3>2. /\ rows' = [rows EXCEPT ![k] = new] /\ result[d] = [row |-> new]
          /\ links' = IF relinks THEN [links EXCEPT ![k] = d] ELSE links
      <4>1. CASE EmptyPatch(req[d])
        <5>1. w = None /\ result[d] = [row |-> entity[d]]
          BY <1>t, <1>1, <2>2, <4>1 DEF PromiseInv, ResultOfWrite, CommitsWrite, Committable
        <5>2. new = rows[k]
          <6>1. [f \in Fields |-> IF f \in req[d].names THEN d ELSE rows[k].fields[f]] = rows[k].fields
            BY <2>1, <4>1, RowFacts DEF EmptyPatch
          <6>. QED
            BY <2>1, <6>1 DEF Rows
        <5>3. [rows EXCEPT ![k] = rows[k]] = rows
          BY <1>t, <2>1 DEF Typed
        <5>. QED
          BY <1>6, <1>7, <2>1, <2>2, <4>1, <5>1, <5>2, <5>3 DEF EmptyPatch
      <4>2. CASE ~EmptyPatch(req[d])
        <5>1. w # None
          BY <1>t, <1>1, <2>2, <4>2 DEF PromiseInv, CommitsWrite, Committable
        <5>2. w = Prepared(d) /\ result[d] = [row |-> Merged(d)]
          BY <1>t, <1>10, <2>1, <2>2, <5>1 DEF PromiseInv, ResultOfWrite, Due
        <5>3. w.key = k /\ w.row = Merged(d) /\ w.links = IF relinks THEN d ELSE Keep
          BY <2>2, <5>2 DEF Prepared, SyncsLinks, MergedLinks
        <5>4. d # Keep
          BY SentinelAssumption DEF Marks
        <5>. QED
          BY <1>6, <1>7, <3>1, <5>1, <5>2, <5>3, <5>4
      <4>. QED
        BY <4>1, <4>2
    <3>3. Promise!Finds(d, [row |-> new])
      BY <1>4, <3>2
    <3>4. Promise!Modify(d)
      BY <2>1, <2>2, <3>2, <3>3, SameData DEF Promise!Modify
    <3>. QED
      BY <1>5, <2>2, <3>4
  <2>3. CASE req[d].op \in {"delete", "deleteNoContent"}
    <3>1. w # None
      BY <1>t, <1>1, <2>3 DEF WritesDue, Removes, Committable
    <3>2. w = Prepared(d) /\ result[d] = [row |-> IF req[d].op = "delete" THEN rows[k] ELSE Absent]
      BY <1>t, <1>10, <2>1, <2>3, <3>1 DEF PromiseInv, ResultOfWrite, Due
    <3>3. w.key = k /\ w.row = DeletedRow(d) /\ w.links = DeletedLinks
      BY <2>3, <3>2 DEF Prepared
    <3>4. rows' = [rows EXCEPT ![k] = DeletedRow(d)]
      BY <1>6, <3>1, <3>3
    <3>f. Promise!Finds(d, [row |-> IF req[d].op = "delete" THEN rows[k] ELSE Absent])
      BY <1>4, <3>2
    <3>5. CASE SoftDelete
      <4>1. links' = links /\ DeletedRow(d) = [rows[k] EXCEPT !.deleted = TRUE]
        BY <1>7, <2>1, <3>3, <3>5 DEF DeletedRow, DeletedLinks
      <4>2. rows' = [rows EXCEPT ![k].deleted = TRUE]
        BY <3>4, <4>1
      <4>. QED
        BY <1>5, <2>1, <2>3, <3>f, <3>5, <4>1, <4>2, SameData DEF Promise!Delete
    <3>6. CASE ~SoftDelete
      <4>1. Absent # Keep
        BY SentinelAssumption
      <4>2. links' = [links EXCEPT ![k] = Absent] /\ DeletedRow(d) = Absent
        BY <1>7, <3>1, <3>3, <3>6, <4>1 DEF DeletedRow, DeletedLinks
      <4>. QED
        BY <1>5, <2>1, <2>3, <3>f, <3>4, <3>6, <4>2, SameData DEF Promise!Delete
    <3>. QED
      BY <3>5, <3>6
  <2>. QED
    BY <1>10, <2>2, <2>3 DEF Mutates
<1>. QED
  BY <1>t, <1>8, <1>9, <1>10 DEF Ops, Mutates

----
LEMMA OutcomeKept ==
  ASSUME NEW c \in Calls, req'[c] = req[c], result'[c] = result[c], snap'[c] = snap[c],
         tx'[c] = "committed" <=> tx[c] = "committed"
  PROVE  Outcome(c)' = Outcome(c)
BY DEF Outcome, Matching

LEMMA AnswerKept ==
  ASSUME NEW c \in Calls, reply'[c] = reply[c], result'[c] = result[c],
         commits'[c] = commits[c] \/ reply[c] = NoReply
  PROVE  AnswerOf(c)' = AnswerOf(c)
BY DEF AnswerOf

\* The caller gets the outcome, a failure of what did not act, or is in doubt.
Answers(d) ==
  /\ UNCHANGED <<rows, links>> /\ Outcome(d)' = Outcome(d)
  /\ AnswerOf(d) = None /\ AnswerOf(d)' \in {Outcome(d), Failed, Doubt} \ {None}
  /\ AnswerOf(d)' = Failed
       => Outcome(d) \in {None, NotFound} \/ req[d].op \in {"read", "list"}

LEMMA ReturnPromise ==
  ASSUME PInv, NEW d \in Calls, Tx!Return(d), Calm(d), UNCHANGED <<rows, links>>
  PROVE  Silent(d) \/ Answers(d)
<1>t. Tx!TypeOK /\ PromiseInv(d) /\ Late(d)
  BY DEF PInv, DInv, RInv, OInv, TypeOK
<1>1. /\ pc[d] = "return" /\ mode[d] # "exiting" /\ UNCHANGED <<tx, commits>>
      /\ reply'[d] = Tx!ReplyOf(d)
  BY <1>t DEF Tx!Return, Tx!TypeOK
<1>2. result'[d] = result[d] /\ Outcome(d)' = Outcome(d)
  BY <1>1, OutcomeKept DEF Calm, opVars
<1>3. AnswerOf(d) = None
  BY <1>t, <1>1 DEF PromiseInv, AnswerDue, AnswerOf
<1>4. CASE reply'[d] = NoReply
  BY <1>2, <1>3, <1>4 DEF AnswerOf, Silent
<1>5. CASE reply'[d] # NoReply
  <2>1. CASE Tx!ReplyOf(d).kind = "value"
    <3>1. mode[d] = "running" /\ err[d] = {} /\ Tx!ReplyOf(d).value = output[d]
      BY <1>t, <1>1, <2>1 DEF Tx!ReplyOf, Tx!TypeOK
    <3>2. output[d] = result[d] /\ result[d] \in Results /\ tx[d] = "committed"
      BY <1>t, <1>1, <3>1 DEF PromiseInv, AnswerDue
    <3>3. Outcome(d) = result[d] /\ result[d] # None
      BY <3>2, AnswerAssumption DEF Outcome
    <3>4. AnswerOf(d)' = result[d]
      BY <1>1, <1>5, <2>1, <3>1, <3>2 DEF AnswerOf
    <3>. QED
      BY <1>2, <1>3, <3>2, <3>3, <3>4, AnswerAssumption DEF Answers
  <2>2. CASE Tx!ReplyOf(d).kind # "value"
    <3>1. \/ AnswerOf(d)' = NotFound /\ result[d] = NotFound
          \/ AnswerOf(d)' = Doubt
          \/ AnswerOf(d)' = Failed /\ commits[d] = 0
      BY <1>1, <1>2, <1>5, <2>2 DEF AnswerOf
    <3>2. /\ result[d] = NotFound => Outcome(d) = NotFound
          /\ commits[d] = 0
               => Outcome(d) \in {None, NotFound} \/ req[d].op \in {"read", "list"}
      BY <1>t DEF Outcome, Late
    <3>. QED
      BY <1>2, <1>3, <3>1, <3>2, AnswerAssumption DEF Answers
  <2>. QED
    BY <2>1, <2>2
<1>. QED
  BY <1>4, <1>5

\* A calm step is a commit, an answer, or nothing to AtomicCrud.
LEMMA CalmPromise ==
  ASSUME PInv, [Next]_vars, NEW d \in Calls, Calm(d), Settles(d) \/ UNCHANGED dbVars,
         tx'[d] = "committed" => tx[d] = "committed" \/ Commits(d), ~Commits(d)
  PROVE  Silent(d) \/ Answers(d)
<1>t. Tx!TypeOK /\ NotBegunHoldsNothing(d) /\ AnswerDue(d)
  BY DEF PInv, DInv, RInv, OInv, TypeOK, IInv, CallInv, PromiseInv
<1>1. UNCHANGED <<rows, links>>
  BY DEF Settles, Commits, Discards, dbVars
<1>2. /\ tx[d] = "committed" => tx'[d] = "committed"
      /\ reply'[d] = reply[d] \/ Tx!Return(d)
      /\ commits'[d] = commits[d] \/ reply[d] = NoReply
  BY <1>t, RunnerFacts DEF Calm, NotBegunHoldsNothing, AnswerDue
<1>3. Outcome(d)' = Outcome(d)
  BY <1>2, OutcomeKept DEF Calm, opVars
<1>4. CASE Tx!Return(d)
  BY <1>1, <1>4, ReturnPromise
<1>5. CASE reply'[d] = reply[d]
  BY <1>1, <1>2, <1>3, <1>5, AnswerKept DEF Calm, opVars, Silent
<1>. QED
  BY <1>2, <1>4, <1>5

----
\* A step of d is one of AtomicCrud, or none.
LEMMA StepPromise ==
  ASSUME PInv, [Next]_vars, NEW d \in Calls, Step(d) \/ ContextDone(d) \/ ServerEnds(d)
  PROVE  (\A c \in Calls : PromiseInv(c)' /\ Late(c)') /\ [Promise!Next]_(Promise!vars)
<1>t. /\ RInv /\ OInv /\ IInv /\ Tx!TypeOK /\ Moves(d) /\ req' = req /\ WritesDue(d)
      /\ NotBegunHoldsNothing(d)
      /\ \A c \in Calls : PromiseInv(c) /\ Late(c)
  BY StepMoves DEF PInv, DInv, RInv, OInv, TypeOK, ListInv, IInv, CallInv, Moves
<1>1. ASSUME NEW c \in Calls, c # d
      PROVE  /\ PromiseInv(c)' /\ Late(c)'
             /\ Outcome(c)' = Outcome(c) /\ AnswerOf(c)' = AnswerOf(c)
  <2>1. Apart(c) /\ Idle(c) /\ entity'[c] = entity[c]
    BY <1>t, <1>1, RunnerTyped, EntityIsLocal DEF Moves
  <2>. QED
    BY <1>t, <2>1, PromiseKept, OutcomeKept, AnswerKept DEF Apart, Idle
<1>2. /\ PromiseInv(d)'
      /\ Silent(d) \/ Answers(d) \/ Reads(d) \/ Misses(d) \/ Lists(d) \/ (Calm(d) /\ Commits(d))
  <2>1. CASE Statement(d)
    BY <2>1, InsertPromise, LookupHitsPromise, LookupMissesPromise, WritePromise, QueryPromise, CountPromise
    DEF Statement
  <2>2. CASE ~Statement(d)
    <3>1. /\ \/ Begin(d) \/ BeginFails(d) \/ OperationFails(d) \/ OperationAborts(d)
             \/ StatementRefused(d) \/ Output(d) \/ Returns(d) \/ ContextDone(d)
             \/ Finish(d) \/ ServerEnds(d)
      BY <2>2 DEF Step, Operation, Interrupted
    <3>2. Calm(d) /\ (Settles(d) \/ UNCHANGED dbVars)
      BY <1>t, <3>1, CalmSteps, RunnerOnly, Endings
    <3>3. tx'[d] = "committed" => tx[d] = "committed" \/ Commits(d)
      BY <1>t, DataMoves
    <3>. QED
      BY <1>t, <3>2, <3>3, CalmKeeps, CalmPromise
  <2>. QED
    BY <2>1, <2>2
<1>l. \A c \in Calls : PromiseInv(c)' /\ Late(c)'
  BY <1>t, <1>1, <1>2, LateStep DEF Moves, PromiseInv
<1> DEFINE outcome == [c \in Calls |-> Outcome(c)]
           answer == [c \in Calls |-> AnswerOf(c)]
<1>3. CASE Silent(d)
  <2>1. outcome' = outcome /\ answer' = answer
    BY <1>1, <1>3 DEF Silent
  <2>. QED
    BY <1>t, <1>l, <1>3, <2>1 DEF Silent, Promise!vars
<1>4. CASE Answers(d)
  <2>1. outcome' = outcome /\ answer' = [answer EXCEPT ![d] = AnswerOf(d)']
    BY <1>1, <1>4 DEF Answers
  <2>2. Promise!Answer(d)
    BY <1>t, <1>4, <2>1 DEF Answers, Promise!Answer, Promise!HasChanged
  <2>. QED
    BY <1>l, <2>2 DEF Promise!Next
<1>5. ASSUME Acting(d),
             Promise!Create(d) \/ Promise!Modify(d) \/ Promise!Delete(d) \/ Promise!Read(d)
               \/ Promise!List(d) \/ Promise!Miss(d)
      PROVE  Promise!Next
  <2>1. answer' = answer /\ answer[d] \in {None, Doubt} /\ outcome[d] = None
    BY <1>1, <1>5, Found DEF Acting
  <2>2. Promise!Act(d)
    BY <1>t, <1>5, <2>1 DEF Promise!Act
  <2>. QED
    BY <2>2 DEF Promise!Next
<1>6. CASE Reads(d) \/ Misses(d) \/ Lists(d)
  <2>1. Acting(d) /\ Promise!Finds(d, Outcome(d)')
    BY <1>1, <1>6, Found DEF Reads, Misses, Lists
  <2>2. CASE Reads(d)
    <3>1. Promise!Finds(d, [row |-> rows[req[d].id], links |-> links[req[d].id]])
      BY <2>1, <2>2 DEF Reads
    <3>2. Promise!Read(d)
      BY <2>2, <3>1, SameData DEF Reads, Promise!Read
    <3>. QED
      BY <1>l, <1>5, <2>1, <3>2
  <2>3. CASE Misses(d)
    <3>1. Promise!Finds(d, NotFound)
      BY <2>1, <2>3 DEF Misses
    <3>2. Promise!Miss(d)
      BY <2>3, <3>1, SameData DEF Misses, Promise!Miss
    <3>. QED
      BY <1>l, <1>5, <2>1, <3>2
  <2>4. CASE Lists(d)
    <3> DEFINE all == Matching(rows, req[d].scope)
    <3>1. PICK page \in SUBSET all :
            /\ Cardinality(page) = PageSize(req[d], Cardinality(all))
            /\ Outcome(d)' = [page |-> [k \in page |-> rows[k]], total |-> Cardinality(all)]
      BY <2>4 DEF Lists
    <3>2. Promise!Finds(d, [page |-> [k \in page |-> rows[k]], total |-> Cardinality(all)])
      BY <2>1, <3>1
    <3>3. Promise!Matching(rows, req[d].scope) = all
          /\ Promise!PageSize(req[d], Cardinality(all)) = PageSize(req[d], Cardinality(all))
          /\ Promise!Cardinality(all) = Cardinality(all)
          /\ Promise!Cardinality(page) = Cardinality(page)
      BY SameData
    <3>4. Promise!List(d)
      <4> HIDE DEF all
      <4>. QED
        BY <2>4, <3>1, <3>2, <3>3 DEF Lists, Promise!List
    <3>. QED
      BY <1>l, <1>5, <2>1, <3>4
  <2>. QED
    BY <1>6, <2>2, <2>3, <2>4
<1>7. CASE Calm(d) /\ Commits(d)
  <2>1. Promise!Finds(d, Outcome(d)')
    <3>1. outcome' = [outcome EXCEPT ![d] = Outcome(d)']
      BY <1>1
    <3>. QED
      BY <3>1 DEF Promise!Finds
  <2>. QED
    BY <1>l, <1>3, <1>5, <1>7, <2>1, CommitPromise
<1>. QED
  BY <1>2, <1>3, <1>4, <1>6, <1>7

LEMMA OthersPromise ==
  ASSUME PInv, NEW k \in Keys, OtherMoves(k) \/ OtherLinks(k)
  PROVE  (\A c \in Calls : PromiseInv(c)' /\ Late(c)') /\ Promise!Next
<1>1. UNCHANGED <<txVars, lock, fresh, pending, snap, opVars>>
  BY OthersTyped DEF PInv, DInv, RInv
<1>2. ASSUME NEW c \in Calls
      PROVE  /\ PromiseInv(c)' /\ Late(c)'
             /\ Outcome(c)' = Outcome(c) /\ AnswerOf(c)' = AnswerOf(c)
  <2>1. Apart(c) /\ Idle(c) /\ entity'[c] = entity[c] /\ PromiseInv(c) /\ Late(c)
    BY <1>1 DEF Apart, Idle, txVars, opVars, PInv
  <2>. QED
    BY <2>1, PromiseKept, OutcomeKept, AnswerKept DEF Apart, Idle
<1>3. [c \in Calls |-> Outcome(c)]' = [c \in Calls |-> Outcome(c)]
      /\ [c \in Calls |-> AnswerOf(c)]' = [c \in Calls |-> AnswerOf(c)] /\ req' = req
  BY <1>1, <1>2 DEF opVars
<1>4. CASE OtherMoves(k)
  <2>1. Promise!OtherMoves(k)
    BY <1>3, <1>4 DEF OtherMoves, Promise!OtherMoves
  <2>. QED
    BY <1>2, <2>1 DEF Promise!Next
<1>5. CASE OtherLinks(k)
  <2>1. Promise!OtherLinks(k)
    BY <1>3, <1>5 DEF OtherLinks, Promise!OtherLinks
  <2>. QED
    BY <1>2, <2>1 DEF Promise!Next
<1>. QED
  BY <1>4, <1>5

LEMMA NextPromise == PInv /\ [Next]_vars => PInv' /\ [Promise!Next]_(Promise!vars)
<1> SUFFICES ASSUME PInv, [Next]_vars PROVE PInv' /\ [Promise!Next]_(Promise!vars)
  OBVIOUS
<1>1. DInv'
  BY DInductive DEF PInv
<1>2. ASSUME NEW d \in Calls, Step(d) \/ ContextDone(d) \/ ServerEnds(d)
      PROVE  (\A c \in Calls : PromiseInv(c)' /\ Late(c)') /\ [Promise!Next]_(Promise!vars)
  BY <1>2, StepPromise
<1>3. ASSUME NEW k \in Keys, OtherMoves(k) \/ OtherLinks(k)
      PROVE  (\A c \in Calls : PromiseInv(c)' /\ Late(c)') /\ [Promise!Next]_(Promise!vars)
  BY <1>3, OthersPromise
<1>4. CASE UNCHANGED vars
  <2>1. ASSUME NEW c \in Calls
        PROVE  /\ PromiseInv(c)' /\ Late(c)'
             /\ Outcome(c)' = Outcome(c) /\ AnswerOf(c)' = AnswerOf(c)
    <3>1. Apart(c) /\ Idle(c) /\ entity'[c] = entity[c] /\ PromiseInv(c) /\ Late(c)
      BY <1>4 DEF Apart, Idle, vars, txVars, dbVars, opVars, PInv
    <3>. QED
      BY <3>1, PromiseKept, OutcomeKept, AnswerKept DEF Apart, Idle
  <2>2. UNCHANGED <<rows, links, req>>
    BY <1>4 DEF vars, dbVars, opVars
  <2>3. [c \in Calls |-> Outcome(c)]' = [c \in Calls |-> Outcome(c)]
        /\ [c \in Calls |-> AnswerOf(c)]' = [c \in Calls |-> AnswerOf(c)]
    BY <2>1
  <2>. QED
    BY <1>1, <2>1, <2>2, <2>3 DEF PInv, Promise!vars
<1>. QED
  BY <1>1, <1>2, <1>3, <1>4 DEF PInv, Next, Rest

LEMMA InitPromise == Init => Promise!Init
<1> SUFFICES ASSUME Init PROVE Promise!Init
  OBVIOUS
<1>1. ASSUME NEW c \in Calls PROVE Outcome(c) = None /\ AnswerOf(c) = None
  <2>1. result[c] = None /\ snap[c] = None /\ tx[c] = "none" /\ reply[c] = NoReply
    BY DEF Init, Tx!Init
  <2>. QED
    BY <2>1, AnswerAssumption DEF Outcome, AnswerOf
<1>. QED
  BY <1>1, SameData DEF Init, Promise!Init

\* CrudStore implements AtomicCrud (KeepsPromise): whatever the requests, faults
\* and other writers, each request acts on the resource in one indivisible step
\* before its answer, a miss at its lookup, a read or list at its snapshot and a
\* write at its commit, and its caller gets what that step found.  A request that
\* is answered a plain failure has changed nothing and never will; one whose
\* Commit failed may act once more, late, and its caller is left in doubt.
THEOREM RequestsAreAtomic == Spec => KeepsPromise
<1>1. Spec => []PInv
  BY InitP, NextPromise, PTL DEF Spec
<1>. QED
  BY <1>1, InitPromise, NextPromise, PTL DEF Spec, KeepsPromise, Promise!Spec

====
