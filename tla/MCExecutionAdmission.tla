------------------------ MODULE MCExecutionAdmission ------------------------
(* Instance of ExecutionAdmission for TLC: the constants are model values.  *)
EXTENDS ExecutionAdmission

=============================================================================
