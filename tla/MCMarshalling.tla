--------------------------- MODULE MCMarshalling ---------------------------
(***************************************************************************)
(* Every type, forty values of each.  Seeds are spread over the values of  *)
(* every member: forty is more than the values of any selector, and more   *)
(* than the number of runs of most messages.                               *)
(***************************************************************************)
EXTENDS Marshalling

MCSeeds == 0..39
=============================================================================
