---- MODULE MCTxRunner ----
(* TLC instance of TxRunner: see TxRunner.cfg and TxRunnerDoc.cfg. *)
EXTENDS TxRunner
====
