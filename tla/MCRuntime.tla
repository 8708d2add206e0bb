------------------------------ MODULE MCRuntime ------------------------------
(* Model-checking instance of DepartmentRuntime. *)
EXTENDS DepartmentRuntime
=============================================================================
