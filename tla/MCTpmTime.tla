----------------------------- MODULE MCTpmTime -----------------------------
(***************************************************************************)
(* A few values for each recovery time, zero among them; the clock is      *)
(* written to NV every second unit, and a recovery takes up to two.        *)
(***************************************************************************)
EXTENDS TpmTime
=============================================================================
