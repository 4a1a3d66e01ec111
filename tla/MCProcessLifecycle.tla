-------------------------- MODULE MCProcessLifecycle --------------------------
(* Two workers, one installation and the window thread on one gate.  The   *)
(* application runs one installation at a time; the theorems of            *)
(* ProcessLifecycleProofs hold for any number of them.                     *)
EXTENDS ProcessLifecycle
=============================================================================
