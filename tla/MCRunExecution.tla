---------------------------- MODULE MCRunExecution ----------------------------
(* TLC instance of RunExecution.                                            *)
EXTENDS RunExecution
=============================================================================
