-------------------------- MODULE MCSupervisedExec --------------------------
(* One supervised execution for TLC: the state space is finite as it is.    *)
EXTENDS SupervisedExec
=============================================================================
