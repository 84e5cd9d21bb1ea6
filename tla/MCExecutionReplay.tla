-------------------------- MODULE MCExecutionReplay -------------------------
(* The instance of MCExecution, with the log of the ledger beside it. *)
EXTENDS MCExecution, ExecutionReplay
=============================================================================
