--------------------------- MODULE MCSessionControl ---------------------------
(* Two manual commands, the restore task and the exit cleanup over two     *)
(* launches: enough for a command that waits for a cancelled restore while *)
(* another one competes for the permit, before and after a crash.          *)
EXTENDS SessionControl
=============================================================================
