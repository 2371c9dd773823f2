---- MODULE AtomicCall ----
(***************************************************************************)
(* What a caller of TxRunner.RunValue is promised (transaction.go, doc.go  *)
(* "SQLH runs each operation in a database transaction"): a call takes its *)
(* effect on the database at most once and as a whole, a value is answered *)
(* only for an effect that is already there, a failure only for a call     *)
(* that has none and never will.  Only a Commit that gave no good answer   *)
(* leaves the caller in doubt.                                             *)
(***************************************************************************)
CONSTANT Calls

VARIABLES effect,   \* effect[c]: the transaction of c is in the database
          answer    \* answer[c]: what the caller of c got, "none" until then

vars == <<effect, answer>>

Init == /\ effect = [c \in Calls |-> FALSE]
        /\ answer = [c \in Calls |-> "none"]

\* Before the answer, or after one that left it open.
TakeEffect(c) == /\ ~effect[c]
                 /\ answer[c] \in {"none", "doubt"}
                 /\ effect' = [effect EXCEPT ![c] = TRUE]
                 /\ UNCHANGED answer

AnswerValue(c) == /\ effect[c]
                  /\ answer[c] = "none"
                  /\ answer' = [answer EXCEPT ![c] = "value"]
                  /\ UNCHANGED effect

AnswerFailure(c) == /\ ~effect[c]
                    /\ answer[c] = "none"
                    /\ \E kind \in {"error", "panic"} : answer' = [answer EXCEPT ![c] = kind]
                    /\ UNCHANGED effect

\* An error or panic of Commit says nothing about the effect.
AnswerDoubt(c) == /\ answer[c] = "none"
                  /\ answer' = [answer EXCEPT ![c] = "doubt"]
                  /\ UNCHANGED effect

Next == \E c \in Calls : TakeEffect(c) \/ AnswerValue(c) \/ AnswerFailure(c) \/ AnswerDoubt(c)

Spec == Init /\ [][Next]_vars

====
