-------------------------- MODULE MCSessionContext --------------------------
(* Model-checking instance of SessionContext. *)
EXTENDS SessionContext
=============================================================================
