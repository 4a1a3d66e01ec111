---------------------------- MODULE AdmissionGate ----------------------------
(***************************************************************************)
(* What the process gate of src-tauri/src/lifecycle.rs promises to the     *)
(* code that wants to create a child process, without the compare-and-swap *)
(* loops, epochs and try-locks that implement it.                          *)
(*                                                                         *)
(* A request is "live" while nothing about the session has changed since   *)
(* it was made.  Every change of the reasons that hold the gate kills all  *)
(* live requests at once, the reopening included: work queued before a     *)
(* cancelled shutdown is not revived.  A closed gate never changes again.  *)
(***************************************************************************)
EXTENDS FiniteSets

CONSTANT Workers          \* the threads that ask to create a process

VARIABLES
  held,                   \* the reasons that currently close the gate
  live,                   \* the workers whose request can still be granted
  running                 \* the worker, if any, that is creating a process

gvars == <<held, live, running>>

Reasons == {"PREPARING", "CLOSING", "UPDATING"}

GateTypeOK ==
  /\ held \subseteq Reasons
  /\ live \subseteq Workers
  /\ running \subseteq Workers

GateInit ==
  /\ held = {}
  /\ live = {}
  /\ running = {}

(* The session begins to end, ends, or an update begins: no earlier        *)
(* request survives; a creation already granted is not waited for.         *)
Hold(r) ==
  /\ "CLOSING" \notin held
  /\ r \notin held
  /\ held' = held \union {r}
  /\ live' = {}
  /\ UNCHANGED running

Release(r) ==
  /\ "CLOSING" \notin held
  /\ r \in held
  /\ held' = held \ {r}
  /\ live' = {}
  /\ UNCHANGED running

Ask(w) ==
  /\ held = {}
  /\ w \notin live \union running
  /\ live' = live \union {w}
  /\ UNCHANGED <<held, running>>

Forget(w) ==
  /\ w \in live
  /\ live' = live \ {w}
  /\ UNCHANGED <<held, running>>

(* Only a live request is granted, and one creation happens at a time.     *)
Grant(w) ==
  /\ w \in live
  /\ running = {}
  /\ running' = {w}
  /\ live' = live \ {w}
  /\ UNCHANGED held

Done(w) ==
  /\ w \in running
  /\ running' = running \ {w}
  /\ UNCHANGED <<held, live>>

GateNext ==
  \/ \E r \in Reasons : Hold(r) \/ Release(r)
  \/ \E w \in Workers : Ask(w) \/ Forget(w) \/ Grant(w) \/ Done(w)

GateSpec == GateInit /\ [][GateNext]_gvars
=============================================================================
