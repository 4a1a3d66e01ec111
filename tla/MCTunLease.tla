------------------------------ MODULE MCTunLease ------------------------------
(***************************************************************************)
(* Two runs: an earlier one, whose worker and requests are late, and the   *)
(* one that replaces it.                                                   *)
(***************************************************************************)
EXTENDS TunLease
=============================================================================
