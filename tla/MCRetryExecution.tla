-------------------------- MODULE MCRetryExecution --------------------------
(* The small instance of RetryExecution for TLC.                            *)
EXTENDS RetryExecution
=============================================================================
