---- MODULE TxRunnerProofs ----
(***************************************************************************)
(* TxRunner for any set of calls, any values and any size of the pool: its *)
(* safety properties, and that it implements AtomicCall.                   *)
(***************************************************************************)
EXTENDS TxRunner, TLAPS

\* The deferred function is installed and Run has decided nothing yet.
Undecided(c) ==
  /\ mode[c] = "running" /\ err[c] = {} /\ ~commitReturned[c] /\ commits[c] = 0 /\ rollbacks[c] = 0

Uncommitted(c) == tx[c] \in {"open", "orphaned", "rolledback"}
NotOpen(c) == tx[c] \in {"committing", "committed", "orphaned", "rolledback"}

\* Commit has returned, with or without an error.
AfterCommit(c) ==
  /\ mode[c] = "running" /\ commitReturned[c] /\ commits[c] = 1 /\ rollbacks[c] = 0
  /\ \/ err[c] = {} /\ tx[c] = "committed"
     \/ err[c] = {"commit"} /\ NotOpen(c)

\* The operation has failed, panicked or left, or Commit has panicked.
Abandoned(c) ==
  /\ ~commitReturned[c]
  /\ \/ /\ mode[c] = "running" /\ err[c] = {"operation"}
        /\ commits[c] = 0 /\ rollbacks[c] = 0 /\ Uncommitted(c)
     \/ /\ mode[c] = "panicking" /\ err[c] = {}
        /\ \/ commits[c] = 0 /\ rollbacks[c] = 0 /\ Uncommitted(c)
           \/ commits[c] = 1 /\ rollbacks[c] = 0 /\ tx[c] # "none"
     \/ /\ mode[c] = "exiting" /\ err[c] = {}
        /\ commits[c] = 0 /\ rollbacks[c] = 0 /\ Uncommitted(c)

\* The deferred function has run, or was never installed.
NeverBegun(c) ==
  /\ mode[c] = "running" /\ ~commitReturned[c] /\ commits[c] = 0 /\ rollbacks[c] = 0
  /\ err[c] # {} /\ tx[c] = "none"

RolledBack(c) ==
  /\ ~commitReturned[c]
  /\ \/ /\ mode[c] = "running" /\ err[c] # {}
        /\ commits[c] = 0 /\ rollbacks[c] = 1 /\ tx[c] \in {"orphaned", "rolledback"}
     \/ /\ mode[c] = "panicking"
        /\ \/ commits[c] = 0 /\ rollbacks[c] = 1 /\ tx[c] \in {"orphaned", "rolledback"}
           \/ commits[c] = 1 /\ rollbacks[c] = 1 /\ NotOpen(c)

LeftOpen(c) ==
  /\ mode[c] = "exiting" /\ err[c] = {} /\ ~commitReturned[c]
  /\ commits[c] = 0 /\ rollbacks[c] = 0 /\ Uncommitted(c)

CallInv(c) ==
  /\ pc[c] = "start" => Undecided(c) /\ tx[c] = "none"
  /\ pc[c] \in {"operation", "commit"} => Undecided(c) /\ Uncommitted(c)
  /\ pc[c] = "deferred" => AfterCommit(c) \/ Abandoned(c)
  /\ pc[c] = "return" => NeverBegun(c) \/ AfterCommit(c) \/ RolledBack(c) \/ LeftOpen(c)
  /\ pc[c] = "replied" => /\ NeverBegun(c) \/ AfterCommit(c) \/ RolledBack(c)
                          /\ reply[c] = ReplyOf(c)
  /\ pc[c] = "exited" => LeftOpen(c)
  /\ pc[c] # "replied" => reply[c] = NoReply

IInv == TypeOK /\ \A c \in Calls : CallInv(c)

----
LEMMA InitEstablishes == Init => IInv
BY DEF Init, IInv, TypeOK, CallInv, Undecided, Outputs, Replies, TxStates

LEMMA ReplyTyped == ASSUME TypeOK, NEW c \in Calls PROVE ReplyOf(c) \in Answers
BY DEF TypeOK, ReplyOf, Answers, Outputs

\* The type invariant holds after every step.
LEMMA TypePreserved == TypeOK /\ [Next]_vars => TypeOK'
<1> SUFFICES ASSUME TypeOK, [Next]_vars PROVE TypeOK'
  OBVIOUS
<1> USE DEF TypeOK, Outputs, TxStates, Causes
<1>1. ASSUME NEW c \in Calls, Reject(c) \/ Begin(c) \/ BeginFails(c) PROVE TypeOK'
  BY <1>1 DEF Reject, Begin, BeginFails
<1>2. ASSUME NEW c \in Calls, Operation(c) PROVE TypeOK'
  BY <1>2 DEF Operation, OperationReturns, OperationFails, OperationAborts
<1>3. ASSUME NEW c \in Calls, CommitSucceeds(c) PROVE TypeOK'
  BY <1>3 DEF CommitSucceeds, CallsCommit
<1>4. ASSUME NEW c \in Calls, CommitFails(c) \/ CommitPanics(c) PROVE TypeOK'
  <2>1. AfterBadCommit(c) \cup {tx[c]} \subseteq TxStates
    BY DEF AfterBadCommit
  <2>2. \E s \in TxStates : tx' = [tx EXCEPT ![c] = s]
    BY <1>4, <2>1 DEF CommitFails, CommitPanics
  <2>3. tx' \in [Calls -> TxStates]
    BY <2>2
  <2>4. CASE CommitFails(c)
    BY <2>4, <2>3 DEF CommitFails, CallsCommit
  <2>5. CASE CommitPanics(c)
    BY <2>5, <2>3 DEF CommitPanics, CallsCommit
  <2>. QED
    BY <1>4, <2>4, <2>5
<1>5. ASSUME NEW c \in Calls, Deferred(c) PROVE TypeOK'
  BY <1>5 DEF Deferred, Rollback, RollbackFails, NoRollback, CallsRollback, LeaveDeferred
<1>6. ASSUME NEW c \in Calls, Return(c) \/ Exit(c) PROVE TypeOK'
  <2>1. ReplyOf(c) \in Answers
    BY ReplyTyped
  <2>. QED
    BY <1>6, <2>1 DEF Return, Exit, Replies
<1>7. ASSUME NEW c \in Calls, ContextDone(c) \/ ServerEnds(c) PROVE TypeOK'
  BY <1>7 DEF ContextDone, ServerEnds, ServerRollsBack, ServerCommits
<1>8. CASE UNCHANGED vars
  BY <1>8 DEF vars
<1>. QED
  BY <1>1, <1>2, <1>3, <1>4, <1>5, <1>6, <1>7, <1>8 DEF Next, Step, Proceeds, Commit, Rest

----
\* Nothing about call d has changed.
Same(d) ==
  /\ pc'[d] = pc[d] /\ mode'[d] = mode[d] /\ tx'[d] = tx[d] /\ output'[d] = output[d]
  /\ err'[d] = err[d] /\ commitReturned'[d] = commitReturned[d]
  /\ commits'[d] = commits[d] /\ rollbacks'[d] = rollbacks[d] /\ reply'[d] = reply[d]

LEMMA SameKeeps ==
  ASSUME NEW d \in Calls, CallInv(d), Same(d)
  PROVE  CallInv(d)'
BY DEF Same, CallInv, Undecided, Uncommitted, NotOpen, AfterCommit, Abandoned,
       NeverBegun, RolledBack, LeftOpen, ReplyOf

\* A step of one call, or of the environment on its transaction, leaves the
\* others alone.
LEMMA StepsAreLocal ==
  ASSUME TypeOK, NEW c \in Calls, Step(c) \/ ContextDone(c) \/ ServerEnds(c),
         NEW d \in Calls \ {c}
  PROVE  Same(d)
<1> USE DEF TypeOK, Same
<1>1. CASE Reject(c) \/ Begin(c) \/ BeginFails(c)
  BY <1>1 DEF Reject, Begin, BeginFails
<1>2. CASE Operation(c)
  BY <1>2 DEF Operation, OperationReturns, OperationFails, OperationAborts
<1>3. CASE Commit(c)
  <2>1. CASE CommitSucceeds(c)
    BY <2>1 DEF CommitSucceeds, CallsCommit
  <2>2. CASE CommitFails(c)
    BY <2>2 DEF CommitFails, CallsCommit
  <2>3. CASE CommitPanics(c)
    BY <2>3 DEF CommitPanics, CallsCommit
  <2>. QED
    BY <1>3, <2>1, <2>2, <2>3 DEF Commit
<1>4. CASE Deferred(c)
  BY <1>4 DEF Deferred, Rollback, RollbackFails, NoRollback, CallsRollback, LeaveDeferred
<1>5. CASE Return(c) \/ Exit(c)
  BY <1>5 DEF Return, Exit
<1>6. CASE ContextDone(c) \/ ServerEnds(c)
  BY <1>6 DEF ContextDone, ServerEnds, ServerRollsBack, ServerCommits
<1>. QED
  BY <1>1, <1>2, <1>3, <1>4, <1>5, <1>6 DEF Step, Proceeds

\* The call that takes the step keeps its invariant.
LEMMA StepKeeps ==
  ASSUME TypeOK, NEW c \in Calls, CallInv(c),
         Step(c) \/ ContextDone(c) \/ ServerEnds(c)
  PROVE  CallInv(c)'
<1> USE DEF TypeOK, CallInv
<1>1. CASE Reject(c) \/ BeginFails(c)
  <2>1. err'[c] # {} /\ pc[c] = "start" /\ pc'[c] = "return"
    BY <1>1 DEF Reject, BeginFails
  <2>. QED
    BY <1>1, <2>1 DEF Reject, BeginFails, Undecided, NeverBegun
<1>2. CASE Begin(c)
  BY <1>2 DEF Begin, Undecided, Uncommitted
<1>3. CASE Operation(c)
  BY <1>3 DEF Operation, OperationReturns, OperationFails, OperationAborts,
              Undecided, Uncommitted, Abandoned
<1>4. CASE CommitSucceeds(c)
  BY <1>4 DEF CommitSucceeds, CallsCommit, Undecided, AfterCommit
<1>5. CASE CommitFails(c)
  <2>1. tx'[c] \in {"committing", "committed", "orphaned", "rolledback"}
    BY <1>5 DEF CommitFails, AfterBadCommit, Undecided, Uncommitted
  <2>. QED
    BY <1>5, <2>1 DEF CommitFails, CallsCommit, Undecided, AfterCommit, NotOpen
<1>6. CASE CommitPanics(c)
  <2>1. tx'[c] # "none"
    BY <1>6 DEF CommitPanics, AfterBadCommit, Undecided, Uncommitted
  <2>. QED
    BY <1>6, <2>1 DEF CommitPanics, CallsCommit, Undecided, Abandoned
<1>7. CASE Rollback(c)
  BY <1>7 DEF Rollback, NeedsRollback, CallsRollback, LeaveDeferred,
              AfterCommit, Abandoned, RolledBack, NotOpen, Uncommitted
<1>8. CASE RollbackFails(c)
  <2>1. tx'[c] = IF tx[c] = "open" THEN "orphaned" ELSE tx[c]
    BY <1>8 DEF RollbackFails
  <2>2. err'[c] # {}
    BY <1>8 DEF RollbackFails
  <2>. QED
    BY <1>8, <2>1, <2>2 DEF RollbackFails, NeedsRollback, CallsRollback, LeaveDeferred,
              AfterCommit, Abandoned, RolledBack, NotOpen, Uncommitted, TxStates
<1>9. CASE NoRollback(c)
  BY <1>9 DEF NoRollback, NeedsRollback, LeaveDeferred, AfterCommit, Abandoned, LeftOpen, NotOpen, Uncommitted
<1>10. CASE Return(c)
  BY <1>10 DEF Return, NeverBegun, AfterCommit, RolledBack, LeftOpen, NotOpen, ReplyOf
<1>11. CASE Exit(c)
  BY <1>11 DEF Exit, NeverBegun, AfterCommit, RolledBack, LeftOpen, NotOpen, Uncommitted
<1>12. CASE ContextDone(c) \/ ServerEnds(c)
  <2>1. /\ pc'[c] = pc[c] /\ mode'[c] = mode[c] /\ output'[c] = output[c] /\ err'[c] = err[c]
        /\ commitReturned'[c] = commitReturned[c] /\ commits'[c] = commits[c]
        /\ rollbacks'[c] = rollbacks[c] /\ reply'[c] = reply[c]
        /\ \/ tx[c] \in {"open", "orphaned"} /\ tx'[c] \in {"orphaned", "rolledback"}
           \/ tx[c] = "committing" /\ tx'[c] \in {"committed", "rolledback"}
    BY <1>12 DEF ContextDone, ServerEnds, ServerRollsBack, ServerCommits
  <2>. QED
    BY <2>1 DEF Undecided, Uncommitted, NotOpen, AfterCommit, Abandoned,
                NeverBegun, RolledBack, LeftOpen, ReplyOf
<1>. QED
  BY <1>1, <1>2, <1>3, <1>4, <1>5, <1>6, <1>7, <1>8, <1>9, <1>10, <1>11, <1>12
     DEF Step, Proceeds, Commit, Deferred

LEMMA Inductive == IInv /\ [Next]_vars => IInv'
<1> SUFFICES ASSUME IInv, [Next]_vars PROVE IInv'
  OBVIOUS
<1>1. TypeOK'
  BY TypePreserved DEF IInv
<1>2. \A d \in Calls : CallInv(d)'
  <2>1. ASSUME NEW c \in Calls, Step(c) \/ ContextDone(c) \/ ServerEnds(c),
               NEW d \in Calls
        PROVE  CallInv(d)'
    <3>1. CASE d = c
      BY <2>1, <3>1, StepKeeps DEF IInv
    <3>2. CASE d # c
      <4>1. Same(d)
        BY <2>1, <3>2, StepsAreLocal DEF IInv
      <4>. QED
        BY <4>1, SameKeeps DEF IInv
    <3>. QED
      BY <3>1, <3>2
  <2>2. CASE UNCHANGED vars
    <3>1. \A d \in Calls : Same(d)
      BY <2>2 DEF vars, Same
    <3>. QED
      BY <3>1, SameKeeps DEF IInv
  <2>. QED
    BY <2>1, <2>2 DEF Next, Rest
<1>. QED
  BY <1>1, <1>2 DEF IInv

THEOREM InvariantHolds == Spec => []IInv
<1>1. Init => IInv
  BY InitEstablishes
<1>2. IInv /\ [Next]_vars => IInv'
  BY Inductive
<1>. QED
  BY <1>1, <1>2, PTL DEF Spec

----
\* The types are kept, for every set of calls and of values.
THEOREM TypeCorrect == Spec => []TypeOK
<1>1. IInv => TypeOK
  BY DEF IInv
<1>. QED
  BY <1>1, InvariantHolds, PTL

\* A value reaches the caller of RunValue only for a committed transaction.
THEOREM ValuesAreCommitted == Spec => []ValueOnlyAfterCommit
<1>1. IInv => ValueOnlyAfterCommit
  <2> SUFFICES ASSUME IInv, NEW c \in Calls, reply[c] # NoReply
               PROVE  /\ reply[c].kind = "value" => tx[c] = "committed" /\ reply[c].value = output[c]
                      /\ reply[c].kind \in {"error", "panic"} => reply[c].value = Zero
    BY DEF ValueOnlyAfterCommit, Answered
  <2>1. pc[c] = "replied" /\ reply[c] = ReplyOf(c) /\ (NeverBegun(c) \/ AfterCommit(c) \/ RolledBack(c))
    BY DEF IInv, CallInv
  <2>. QED
    BY <2>1 DEF ReplyOf, NeverBegun, AfterCommit, RolledBack
<1>. QED
  BY <1>1, InvariantHolds, PTL

\* No failed call has committed, except where Commit itself failed or panicked.
THEOREM FailuresLeaveNothing == Spec => []FailureLeavesNothing
<1>1. IInv => FailureLeavesNothing
  <2> SUFFICES ASSUME IInv, NEW c \in Calls, tx[c] = "committed",
                      err[c] # {} \/ mode[c] # "running"
               PROVE  commits[c] = 1 /\ (err[c] = {"commit"} \/ mode[c] = "panicking")
    BY DEF FailureLeavesNothing
  <2>. QED
    BY DEF IInv, TypeOK, CallInv, Undecided, Uncommitted, NotOpen, AfterCommit, Abandoned,
           NeverBegun, RolledBack, LeftOpen
<1>. QED
  BY <1>1, InvariantHolds, PTL

\* No transaction is finished twice.
THEOREM NothingFinishedTwice == Spec => []FinishedOnce
<1>1. IInv => FinishedOnce
  BY DEF IInv, TypeOK, CallInv, FinishedOnce, Undecided, AfterCommit, Abandoned,
         NeverBegun, RolledBack, LeftOpen
<1>. QED
  BY <1>1, InvariantHolds, PTL

\* No answered call holds a transaction, its connection or its locks.
THEOREM NothingLeaks == Spec => []NoLeak
<1>1. IInv => NoLeak
  BY DEF IInv, CallInv, NoLeak, AfterCommit, NeverBegun, RolledBack, NotOpen
<1>. QED
  BY <1>1, InvariantHolds, PTL

----
\* What the mapping makes of TxRunner's state.
Effect == [c \in Calls |-> tx[c] = "committed"]
Answer == [c \in Calls |-> AnswerOf(c)]

\* A step is local: the mapped state of the other calls stays.
LEMMA MappingIsLocal ==
  ASSUME NEW c \in Calls, \A d \in Calls \ {c} : Same(d)
  PROVE  /\ Effect' = [Effect EXCEPT ![c] = (tx'[c] = "committed")]
         /\ Answer' = [Answer EXCEPT ![c] = AnswerOf(c)']
BY DEF Effect, Answer, AnswerOf, Same

\* A call about to return a value has committed.
LEMMA ValueIsDue ==
  ASSUME NEW c \in Calls, CallInv(c), Return(c)
  PROVE  ReplyOf(c).kind = "value" => tx[c] = "committed"
<1>1. mode[c] # "exiting" /\ (NeverBegun(c) \/ AfterCommit(c) \/ RolledBack(c) \/ LeftOpen(c))
  BY DEF Return, CallInv
<1>2. CASE mode[c] # "panicking" /\ err[c] = {}
  BY <1>1, <1>2 DEF NeverBegun, AfterCommit, RolledBack, LeftOpen
<1>3. CASE mode[c] = "panicking" \/ err[c] # {}
  BY <1>3 DEF ReplyOf
<1>. QED
  BY <1>2, <1>3

\* A call about to answer a plain failure has no effect.
LEMMA FailureIsPlain ==
  ASSUME TypeOK, NEW c \in Calls, CallInv(c), Return(c), commits[c] = 0
  PROVE  ReplyOf(c).kind # "value" => tx[c] # "committed"
<1>1. pc[c] = "return" /\ mode[c] # "exiting" /\ (NeverBegun(c) \/ AfterCommit(c) \/ RolledBack(c) \/ LeftOpen(c))
  BY DEF Return, CallInv
<1>. QED
  BY <1>1 DEF NeverBegun, AfterCommit, RolledBack, LeftOpen

\* A transaction whose COMMIT is undecided, or done late, belongs to a call of
\* Commit: its caller can have got nothing but a doubtful answer.
LEMMA LateIsDoubtful ==
  ASSUME TypeOK, NEW c \in Calls, CallInv(c), tx[c] = "committing"
  PROVE  AnswerOf(c) \in {"none", "doubt"}
<1>1. CASE pc[c] = "replied"
  <2>1. reply[c] = ReplyOf(c) /\ (NeverBegun(c) \/ AfterCommit(c) \/ RolledBack(c))
    BY <1>1 DEF CallInv
  <2>2. commits[c] = 1 /\ (mode[c] = "panicking" \/ err[c] # {})
    BY <2>1 DEF NeverBegun, AfterCommit, RolledBack
  <2>. QED
    BY <2>1, <2>2 DEF AnswerOf, ReplyOf
<1>2. CASE pc[c] # "replied"
  BY <1>2 DEF CallInv, AnswerOf
<1>. QED
  BY <1>1, <1>2

\* Before its answer, or after a doubtful one, a call may only take its effect;
\* with its answer it takes none; after any other answer nothing happens.
LEMMA PromiseStep ==
  ASSUME IInv, IInv', NEW c \in Calls, Step(c) \/ ContextDone(c) \/ ServerEnds(c)
  PROVE  \/ /\ tx'[c] = "committed" /\ tx[c] # "committed"
            /\ AnswerOf(c) \in {"none", "doubt"} /\ AnswerOf(c)' = AnswerOf(c)
         \/ (tx'[c] = "committed" <=> tx[c] = "committed") /\ AnswerOf(c)' = AnswerOf(c)
         \/ /\ (tx'[c] = "committed" <=> tx[c] = "committed")
            /\ AnswerOf(c) = "none"
            /\ \/ AnswerOf(c)' = "value" /\ tx[c] = "committed"
               \/ AnswerOf(c)' \in {"error", "panic"} /\ tx[c] # "committed"
               \/ AnswerOf(c)' = "doubt"
<1>r. ReplyOf(c) \in Answers
  BY ReplyTyped DEF IInv
<1>a. Return(c) => (ReplyOf(c).kind = "value" => tx[c] = "committed")
  BY ValueIsDue DEF IInv
<1>b. Return(c) /\ commits[c] = 0 => (ReplyOf(c).kind # "value" => tx[c] # "committed")
  BY FailureIsPlain DEF IInv
<1> USE DEF IInv, TypeOK, CallInv, AnswerOf
<1>1. CASE Reject(c) \/ Begin(c) \/ BeginFails(c)
  BY <1>1 DEF Reject, Begin, BeginFails
<1>2. CASE Operation(c)
  BY <1>2 DEF Operation, OperationReturns, OperationFails, OperationAborts
<1>3. CASE CommitSucceeds(c)
  BY <1>3 DEF CommitSucceeds
<1>4. CASE CommitFails(c)
  BY <1>4 DEF CommitFails, Undecided, Uncommitted
<1>5. CASE CommitPanics(c)
  BY <1>5 DEF CommitPanics, Undecided, Uncommitted
<1>6. CASE Deferred(c)
  BY <1>6 DEF Deferred, Rollback, RollbackFails, NoRollback, LeaveDeferred
<1>7. CASE Return(c)
  <2>1. /\ reply[c] = NoReply /\ pc'[c] = "replied" /\ tx' = tx /\ commits' = commits
        /\ reply'[c] = ReplyOf(c)
    BY <1>7 DEF Return
  <2>2. ReplyOf(c).kind = "value" => tx[c] = "committed"
    BY <1>a, <1>7
  <2>3. ReplyOf(c) # NoReply
    BY <1>r, ReplyAssumption DEF Answers, Outputs
  <2>4. commits[c] = 0 => (ReplyOf(c).kind # "value" => tx[c] # "committed")
    BY <1>b, <1>7
  <2>. QED
    BY <1>r, <2>1, <2>2, <2>3, <2>4 DEF Answers
<1>8. CASE Exit(c)
  BY <1>8 DEF Exit
<1>9. CASE ContextDone(c) \/ ServerRollsBack(c)
  BY <1>9 DEF ContextDone, ServerRollsBack
<1>10. CASE ServerCommits(c)
  <2>1. AnswerOf(c) \in {"none", "doubt"} /\ tx'[c] = "committed" /\ tx[c] # "committed"
    BY <1>10, LateIsDoubtful DEF ServerCommits
  <2>2. AnswerOf(c)' = AnswerOf(c)
    BY <1>10 DEF ServerCommits
  <2>. QED
    BY <2>1, <2>2
<1>. QED
  BY <1>1, <1>2, <1>3, <1>4, <1>5, <1>6, <1>7, <1>8, <1>9, <1>10 DEF Step, Proceeds, Commit, ServerEnds

\* Every step of TxRunner is one of AtomicCall, or changes nothing there.
LEMMA StepImplements ==
  ASSUME IInv, IInv', [Next]_vars
  PROVE  [Promise!Next]_(Promise!vars)
<1>1. ASSUME NEW c \in Calls, Step(c) \/ ContextDone(c) \/ ServerEnds(c)
      PROVE  [Promise!Next]_(Promise!vars)
  <2>1. /\ Effect' = [Effect EXCEPT ![c] = (tx'[c] = "committed")]
        /\ Answer' = [Answer EXCEPT ![c] = AnswerOf(c)']
    BY <1>1, StepsAreLocal, MappingIsLocal DEF IInv
  <2>2. /\ Effect \in [Calls -> BOOLEAN] /\ Effect[c] = (tx[c] = "committed")
        /\ DOMAIN Answer = Calls
        /\ Answer = [d \in Calls |-> Answer[d]]
        /\ Answer[c] = AnswerOf(c)
    BY DEF Effect, Answer
  <2>3. CASE /\ tx'[c] = "committed" /\ tx[c] # "committed"
             /\ AnswerOf(c) \in {"none", "doubt"} /\ AnswerOf(c)' = AnswerOf(c)
    <3>1. Promise!TakeEffect(c)
      BY <2>1, <2>2, <2>3 DEF Promise!TakeEffect, Effect, Answer
    <3>. QED
      BY <3>1 DEF Promise!Next
  <2>4. CASE (tx'[c] = "committed" <=> tx[c] = "committed") /\ AnswerOf(c)' = AnswerOf(c)
    <3>1. Effect' = Effect /\ Answer' = Answer
      BY <2>1, <2>2, <2>4
    <3>. QED
      BY <3>1 DEF Promise!vars, Effect, Answer
  <2>5. CASE /\ (tx'[c] = "committed" <=> tx[c] = "committed")
             /\ AnswerOf(c) = "none"
             /\ \/ AnswerOf(c)' = "value" /\ tx[c] = "committed"
                \/ AnswerOf(c)' \in {"error", "panic"} /\ tx[c] # "committed"
                \/ AnswerOf(c)' = "doubt"
    <3>1. Effect' = Effect /\ Answer[c] = "none"
      BY <2>1, <2>2, <2>5
    <3>2. CASE AnswerOf(c)' = "value" /\ tx[c] = "committed"
      <4>1. Promise!AnswerValue(c)
        BY <2>1, <2>2, <3>1, <3>2 DEF Promise!AnswerValue, Effect, Answer
      <4>. QED
        BY <4>1 DEF Promise!Next
    <3>3. CASE AnswerOf(c)' \in {"error", "panic"} /\ tx[c] # "committed"
      <4>1. Promise!AnswerFailure(c)
        BY <2>1, <2>2, <3>1, <3>3 DEF Promise!AnswerFailure, Effect, Answer
      <4>. QED
        BY <4>1 DEF Promise!Next
    <3>4. CASE AnswerOf(c)' = "doubt"
      <4>1. Promise!AnswerDoubt(c)
        BY <2>1, <2>2, <3>1, <3>4 DEF Promise!AnswerDoubt, Effect, Answer
      <4>. QED
        BY <4>1 DEF Promise!Next
    <3>. QED
      BY <2>5, <3>2, <3>3, <3>4
  <2>. QED
    BY <1>1, <2>3, <2>4, <2>5, PromiseStep
<1>2. CASE UNCHANGED vars
  BY <1>2 DEF vars, Promise!vars, AnswerOf
<1>. QED
  BY <1>1, <1>2 DEF Next, Rest

LEMMA InitImplements == Init => Promise!Init
BY DEF Init, Promise!Init, AnswerOf

\* TxRunner implements AtomicCall: a call takes effect as a whole, at most once,
\* before a value is answered, and not at all when a plain failure is.
THEOREM Implements == Spec => KeepsPromise
<1>1. Init => Promise!Init
  BY InitImplements
<1>2. IInv /\ IInv' /\ [Next]_vars => [Promise!Next]_(Promise!vars)
  BY StepImplements
<1>. QED
  BY <1>1, <1>2, InvariantHolds, PTL DEF Spec, KeepsPromise, Promise!Spec

====
