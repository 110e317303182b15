----------------------------- MODULE MCWorkflow -----------------------------
(* The program on every server that may take any kinds for traversable,    *)
(* before and after the schema is installed.                               *)
EXTENDS Workflow
=============================================================================
