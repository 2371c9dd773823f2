---- MODULE TxRunner ----
(***************************************************************************)
(* TxRunner.Run and RunValue (transaction.go): concurrent calls, each of   *)
(* which begins a transaction on the shared SQL client, runs its operation *)
(* and finishes the transaction in a deferred function, over a database    *)
(* that may refuse, fail, panic, or commit and lose the answer.            *)
(*                                                                         *)
(* BeginTx, Commit and Rollback are one step each: the caller is blocked   *)
(* until they return.  What the operation does is left open; CrudStore     *)
(* instantiates this module and fills it in.                               *)
(***************************************************************************)
EXTENDS Naturals, FiniteSets

CONSTANTS Calls,         \* the calls of RunValue
          Unconfigured,  \* those made on a nil runner or client, or with a nil operation
          PoolSize,      \* connections of the SQL client
          Values,        \* what an operation may return
          Zero,          \* the zero value of the output type
          NoReply        \* the caller still waits

ASSUME PoolAssumption == PoolSize \in Nat \ {0}
ASSUME CallsAssumption == IsFiniteSet(Calls) /\ Unconfigured \subseteq Calls

ASSUME ReplyAssumption ==
  NoReply \notin [kind : {"value", "error", "panic"}, value : Values \cup {Zero}]

VARIABLES
  pc,              \* where the call is
  mode,            \* "running", "panicking" or "exiting" (runtime.Goexit)
  tx,              \* the transaction as the database server sees it
  output,          \* RunValue's named result, assigned by the closure
  err,             \* Run's named result: the set of joined causes, {} for nil
  commitReturned,  \* the flag of the same name in Run
  commits,         \* the calls of Commit so far
  rollbacks,       \* the calls of Rollback so far
  reply            \* what the caller of RunValue received

vars == <<pc, mode, tx, output, err, commitReturned, commits, rollbacks, reply>>

Outputs == Values \cup {Zero}
Causes == {"setup", "begin", "operation", "commit", "rollback"}

\* "orphaned": the client has given the transaction up and returned its
\* connection, the server has not noticed yet.  It can no longer commit.
\* "committing": the client has given up on a COMMIT it has sent, which the
\* server may still execute.
TxStates == {"none", "open", "committing", "committed", "orphaned", "rolledback"}

InUse == {c \in Calls : tx[c] = "open"}
Ended(c) == pc[c] \in {"replied", "exited"}

----
Init == /\ pc = [c \in Calls |-> "start"]
        /\ mode = [c \in Calls |-> "running"]
        /\ tx = [c \in Calls |-> "none"]
        /\ output = [c \in Calls |-> Zero]
        /\ err = [c \in Calls |-> {}]
        /\ commitReturned = [c \in Calls |-> FALSE]
        /\ commits = [c \in Calls |-> 0]
        /\ rollbacks = [c \in Calls |-> 0]
        /\ reply = [c \in Calls |-> NoReply]

\* The nil checks of RunValue and Run: no transaction is begun.
Reject(c) ==
  /\ pc[c] = "start" /\ c \in Unconfigured
  /\ err' = [err EXCEPT ![c] = {"setup"}]
  /\ pc' = [pc EXCEPT ![c] = "return"]
  /\ UNCHANGED <<mode, tx, output, commitReturned, commits, rollbacks, reply>>

\* BeginTx waits for a connection of the pool.
Begin(c) ==
  /\ pc[c] = "start" /\ c \notin Unconfigured
  /\ Cardinality(InUse) < PoolSize
  /\ tx' = [tx EXCEPT ![c] = "open"]
  /\ pc' = [pc EXCEPT ![c] = "operation"]
  /\ UNCHANGED <<mode, output, err, commitReturned, commits, rollbacks, reply>>

\* BeginTx fails before the deferred function is installed: no connection can be
\* made, or the context is cancelled while the call waits for one.
BeginFails(c) ==
  /\ pc[c] = "start" /\ c \notin Unconfigured
  /\ err' = [err EXCEPT ![c] = {"begin"}]
  /\ pc' = [pc EXCEPT ![c] = "return"]
  /\ UNCHANGED <<mode, tx, output, commitReturned, commits, rollbacks, reply>>

----
\* Mutant: the operation answers the caller itself, before the commit.
OperationReplies(c, o) ==
  /\ pc[c] = "operation"
  /\ output' = [output EXCEPT ![c] = o]
  /\ reply' = [reply EXCEPT ![c] = [kind |-> "value", value |-> o]]
  /\ pc' = [pc EXCEPT ![c] = "commit"]
  /\ UNCHANGED <<mode, tx, err, commitReturned, commits, rollbacks>>

\* The operation returns (o, nil); RunValue's closure keeps o in output.
OperationReturns(c, o) ==
  /\ pc[c] = "operation"
  /\ output' = [output EXCEPT ![c] = o]
  /\ pc' = [pc EXCEPT ![c] = "commit"]
  /\ UNCHANGED <<mode, tx, err, commitReturned, commits, rollbacks, reply>>

\* Mutant: Run does not return at the operation's error.
OperationErrorIgnored(c, o) ==
  /\ pc[c] = "operation"
  /\ output' = [output EXCEPT ![c] = o]
  /\ err' = [err EXCEPT ![c] = {"operation"}]
  /\ pc' = [pc EXCEPT ![c] = "commit"]
  /\ UNCHANGED <<mode, tx, commitReturned, commits, rollbacks, reply>>

\* The operation returns (o, error): the closure has still assigned o.
OperationFails(c, o) ==
  /\ pc[c] = "operation"
  /\ output' = [output EXCEPT ![c] = o]
  /\ err' = [err EXCEPT ![c] = {"operation"}]
  /\ pc' = [pc EXCEPT ![c] = "deferred"]
  /\ UNCHANGED <<mode, tx, commitReturned, commits, rollbacks, reply>>

\* The operation panics, or ends its goroutine with runtime.Goexit.
OperationAborts(c, how) ==
  /\ pc[c] = "operation"
  /\ mode' = [mode EXCEPT ![c] = how]
  /\ pc' = [pc EXCEPT ![c] = "deferred"]
  /\ UNCHANGED <<tx, output, err, commitReturned, commits, rollbacks, reply>>

----
CallsCommit(c) == commits' = [commits EXCEPT ![c] = @ + 1] /\ UNCHANGED rollbacks
CallsRollback(c) == rollbacks' = [rollbacks EXCEPT ![c] = @ + 1] /\ UNCHANGED commits

CommitSucceeds(c) ==
  /\ pc[c] = "commit" /\ tx[c] = "open"
  /\ CallsCommit(c)
  /\ tx' = [tx EXCEPT ![c] = "committed"]
  /\ commitReturned' = [commitReturned EXCEPT ![c] = TRUE]
  /\ pc' = [pc EXCEPT ![c] = "deferred"]
  /\ UNCHANGED <<mode, output, err, reply>>

\* Where a COMMIT that gave no good answer leaves the transaction: done all the
\* same, refused, or still undecided.
AfterBadCommit(c) ==
  IF tx[c] = "open" THEN {"committed", "committing", "rolledback"} ELSE {tx[c]}

CommitFails(c) ==
  /\ pc[c] = "commit"
  /\ CallsCommit(c)
  /\ \E s \in AfterBadCommit(c) : tx' = [tx EXCEPT ![c] = s]
  /\ err' = [err EXCEPT ![c] = {"commit"}]
  /\ commitReturned' = [commitReturned EXCEPT ![c] = TRUE]
  /\ pc' = [pc EXCEPT ![c] = "deferred"]
  /\ UNCHANGED <<mode, output, reply>>

\* Commit panics: commitReturned stays FALSE, and the transaction may be open.
CommitPanics(c) ==
  /\ pc[c] = "commit"
  /\ CallsCommit(c)
  /\ \E s \in AfterBadCommit(c) \cup {tx[c]} : tx' = [tx EXCEPT ![c] = s]
  /\ mode' = [mode EXCEPT ![c] = "panicking"]
  /\ pc' = [pc EXCEPT ![c] = "deferred"]
  /\ UNCHANGED <<output, err, commitReturned, reply>>

----
\* Mutants: the flag is not consulted; a panic is not recovered.
RollsBackAfterCommit(c) == mode[c] = "panicking" \/ err[c] # {}
MissesPanics(c) == ~commitReturned[c] /\ err[c] # {}

\* The two branches of the deferred function that call Rollback.
NeedsRollback(c) ==
  /\ ~commitReturned[c]
  /\ mode[c] = "panicking" \/ err[c] # {}

LeaveDeferred(c) == pc' = [pc EXCEPT ![c] = "return"]

Rollback(c) ==
  /\ pc[c] = "deferred" /\ NeedsRollback(c)
  /\ tx[c] = "open"
  /\ CallsRollback(c)
  /\ tx' = [tx EXCEPT ![c] = "rolledback"]
  /\ LeaveDeferred(c)
  /\ UNCHANGED <<mode, output, err, commitReturned, reply>>

\* Rollback reports an error: the connection is broken, or the transaction is
\* already done (sql.ErrTxDone).  The error is joined, or wraps the panic.
RollbackFails(c) ==
  /\ pc[c] = "deferred" /\ NeedsRollback(c)
  /\ CallsRollback(c)
  /\ tx' = [tx EXCEPT ![c] = IF @ = "open" THEN "orphaned" ELSE @]
  /\ err' = [err EXCEPT ![c] = @ \cup {"rollback"}]
  /\ LeaveDeferred(c)
  /\ UNCHANGED <<mode, output, commitReturned, reply>>

NoRollback(c) ==
  /\ pc[c] = "deferred" /\ ~NeedsRollback(c)
  /\ LeaveDeferred(c)
  /\ UNCHANGED <<mode, tx, output, err, commitReturned, commits, rollbacks, reply>>

\* Mutants: RunValue returns output as it is; it returns a bare zero on errors.
ReplyKeepsOutput(c) ==
  [kind |-> IF mode[c] = "panicking" THEN "panic" ELSE IF err[c] # {} THEN "error" ELSE "value",
   value |-> output[c]]
ReplyLosesError(c) == IF err[c] # {} THEN Zero ELSE [kind |-> "value", value |-> output[c]]

\* What the caller of RunValue gets: the value only without an error.
ReplyOf(c) ==
  IF mode[c] = "panicking" THEN [kind |-> "panic", value |-> Zero]
  ELSE IF err[c] # {} THEN [kind |-> "error", value |-> Zero]
  ELSE [kind |-> "value", value |-> output[c]]

Return(c) ==
  /\ pc[c] = "return" /\ mode[c] # "exiting"
  /\ reply' = [reply EXCEPT ![c] = ReplyOf(c)]
  /\ pc' = [pc EXCEPT ![c] = "replied"]
  /\ UNCHANGED <<mode, tx, output, err, commitReturned, commits, rollbacks>>

\* A goroutine ended by Goexit runs its deferred functions and returns nothing.
Exit(c) ==
  /\ pc[c] = "return" /\ mode[c] = "exiting"
  /\ pc' = [pc EXCEPT ![c] = "exited"]
  /\ UNCHANGED <<mode, tx, output, err, commitReturned, commits, rollbacks, reply>>

----
\* Mutant: BeginTx is given a context of its own, which nobody cancels.
ContextDetached(c) == FALSE

\* database/sql gives an open transaction up when the context that was passed
\* to BeginTx is cancelled: at any time, and at the latest when the request ends.
ContextDone(c) ==
  /\ tx[c] = "open"
  /\ tx' = [tx EXCEPT ![c] = "orphaned"]
  /\ UNCHANGED <<pc, mode, output, err, commitReturned, commits, rollbacks, reply>>

\* The server notices that the client is gone, or executes the COMMIT first.
ServerRollsBack(c) ==
  /\ tx[c] \in {"orphaned", "committing"}
  /\ tx' = [tx EXCEPT ![c] = "rolledback"]
  /\ UNCHANGED <<pc, mode, output, err, commitReturned, commits, rollbacks, reply>>

ServerCommits(c) ==
  /\ tx[c] = "committing"
  /\ tx' = [tx EXCEPT ![c] = "committed"]
  /\ UNCHANGED <<pc, mode, output, err, commitReturned, commits, rollbacks, reply>>

ServerEnds(c) == ServerRollsBack(c) \/ ServerCommits(c)

Operation(c) ==
  \/ \E o \in Values : OperationReturns(c, o)
  \/ \E o \in Outputs : OperationFails(c, o)
  \/ \E how \in {"panicking", "exiting"} : OperationAborts(c, how)

Commit(c) == CommitSucceeds(c) \/ CommitFails(c) \/ CommitPanics(c)
Deferred(c) == Rollback(c) \/ RollbackFails(c) \/ NoRollback(c)

\* The steps of the goroutine that runs the call: those that need nobody's
\* failure, and giving up at BeginTx.
Proceeds(c) == \/ Reject(c) \/ Begin(c)
               \/ Operation(c) \/ Commit(c) \/ Deferred(c)
               \/ Return(c) \/ Exit(c)
Step(c) == Proceeds(c) \/ BeginFails(c)

\* A finite set of calls: when all are over the system rests.
Rest == (\A c \in Calls : Ended(c)) /\ UNCHANGED vars

Next == \/ \E c \in Calls : Step(c) \/ ContextDone(c) \/ ServerEnds(c)
        \/ Rest

Spec == Init /\ [][Next]_vars

\* Goroutines are scheduled, calls of the database return, the server drops lost
\* clients.  A call leaves BeginTx only with a connection: nothing makes it fail
\* or its context end.  net/http ends the context of a request whose goroutine
\* has exited; the caller of an answered call may keep its context for ever.
Fairness == \A c \in Calls : /\ WF_vars(Proceeds(c))
                             /\ WF_vars(pc[c] = "exited" /\ ContextDone(c))
                             /\ WF_vars(ServerEnds(c))

FairSpec == Spec /\ Fairness

----
Answers == [kind : {"value", "error", "panic"}, value : Outputs]
Replies == {NoReply} \cup Answers

TypeOK ==
  /\ pc \in [Calls -> {"start", "operation", "commit", "deferred", "return", "replied", "exited"}]
  /\ mode \in [Calls -> {"running", "panicking", "exiting"}]
  /\ tx \in [Calls -> TxStates]
  /\ output \in [Calls -> Outputs]
  /\ err \in [Calls -> SUBSET Causes]
  /\ commitReturned \in [Calls -> BOOLEAN]
  /\ commits \in [Calls -> Nat] /\ rollbacks \in [Calls -> Nat]
  /\ reply \in [Calls -> Replies]

Answered(c, kind) == reply[c] # NoReply /\ reply[c].kind = kind

\* A caller that gets a value (a 2xx response) can rely on it: the transaction
\* is in the database, and the value is the one its operation returned.  A value
\* never escapes from a failed call (RunValue zeroes it).
ValueOnlyAfterCommit ==
  \A c \in Calls :
    /\ Answered(c, "value") => tx[c] = "committed" /\ reply[c].value = output[c]
    /\ Answered(c, "error") \/ Answered(c, "panic") => reply[c].value = Zero

\* A failed call has left nothing in the database, unless Commit itself failed
\* or panicked: no other error path may let the transaction commit.
FailureLeavesNothing ==
  \A c \in Calls :
    tx[c] = "committed" /\ (err[c] # {} \/ mode[c] # "running")
      => commits[c] = 1 /\ (err[c] = {"commit"} \/ mode[c] = "panicking")

\* The deferred function never finishes a transaction twice: Rollback follows
\* Commit only when Commit panicked before it returned.
FinishedOnce ==
  \A c \in Calls :
    /\ commits[c] <= 1 /\ rollbacks[c] <= 1
    /\ commits[c] = 1 /\ rollbacks[c] = 1 => mode[c] = "panicking" /\ ~commitReturned[c]

\* No answered call keeps a transaction open, and with it a connection and its
\* row locks; only runtime.Goexit slips past the deferred function.
NoLeak ==
  \A c \in Calls : pc[c] = "replied" => tx[c] # "open"

\* Every call of RunValue comes back, however few connections the pool has: on
\* no path of success, error or panic may a call keep its connection, for the
\* next one waits for it.
EveryCallEnds == \A c \in Calls : []<>Ended(c)

\* Every transaction that was begun leaves the database, by the deferred
\* function or, after Goexit, by the end of the request's context.
EveryTransactionEnds ==
  \A c \in Calls : (tx[c] \in {"open", "orphaned", "committing"}) ~> (tx[c] \in {"committed", "rolledback"})

\* doc.go:11-12, "commits the transaction before it returns the output and rolls
\* back on every error": every error after BeginTx is followed by a Rollback.
RollsBackOnEveryError ==
  \A c \in Calls :
    Answered(c, "error") /\ tx[c] # "none" => rollbacks[c] = 1

----
\* The promise of AtomicCall, with the database's view of the transaction as
\* the effect.  The caller is left in doubt when Commit was called and gave no
\* good answer.
AnswerOf(c) ==
  IF reply[c] = NoReply THEN "none"
  ELSE IF reply[c].kind # "value" /\ commits[c] # 0 THEN "doubt"
  ELSE reply[c].kind

Promise == INSTANCE AtomicCall WITH effect <- [c \in Calls |-> tx[c] = "committed"],
                                    answer <- [c \in Calls |-> AnswerOf(c)]

\* TxRunner keeps the promise: effects are whole, at most once, before the answer
\* (or after one that leaves it in doubt), and a plain failure has none.
KeepsPromise == Promise!Spec

====
