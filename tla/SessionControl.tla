---------------------------- MODULE SessionControl ----------------------------
(***************************************************************************)
(* Who may start and stop the core, and what survives on disk.             *)
(*                                                                         *)
(* Manual commands (start_active_profile, stop_mihomo, set_network_mode of *)
(* src-tauri/src/lib.rs), the automatic restore of session_resume.rs, the  *)
(* exit cleanup and the process's own end meet on four things: the         *)
(* configuration permit (user_rules.rs), the runtime_transition mutex, the *)
(* generation of the resume manager, and state.json.                       *)
(*                                                                         *)
(* Abstracted: only whether a System Proxy of ours is applied is kept of   *)
(* the platform (ProxyLease models its registry and journal); writes of    *)
(* state.json succeed; a child that exits is reaped by the next reader.    *)
(* Under the permit the settings a start has read are the stored ones.     *)
(***************************************************************************)
EXTENDS Naturals

CONSTANTS
  Commands,          \* manual commands in flight: IPC calls, the tray's Stop
  Restorer,          \* the task of restore()
  NoOne,
  MaxGen,            \* bound of a model: manual commands of one launch
  MaxLaunches        \* bound of a model: launches of the application

ASSUME ActorsAssumption ==
  /\ Restorer \notin Commands
  /\ NoOne \notin Commands \union {Restorer}

ASSUME BoundsAssumption == MaxGen \in Nat /\ MaxLaunches \in Nat

VARIABLES
  desired, clean, mode,   \* state.json and settings.json
  proxy,                  \* the operating system uses a proxy we applied
  up, launches,           \* the process lives; how often it was launched
  gate,                   \* PROCESS_LIFECYCLE; "closed" is shutting_down too
  cleaned,                \* the exit cleanup has run
  core,                   \* whose start spawned the core that runs
  permit, lock,           \* holders of the permit and of runtime_transition
  gen, phase,             \* ResumeState
  plan,                   \* ResumePlan of the restore task
  pc, op, waits,          \* where each actor is; a command's kind and operand
  cause,                  \* why the restore's last attempt failed
  stopped                 \* history: a Stop returned Ok, no Start got on since

disk     == <<desired, clean, mode>>
process  == <<up, launches, gate, cleaned>>
resume   == <<gen, phase, plan, cause>>
actors   == <<pc, op, waits>>
vars == <<disk, proxy, process, core, permit, lock, resume, actors, stopped>>

Modes == {"Manual", "SystemProxy", "Tun"}
Starters == Commands \union {Restorer}
Phases == {"Idle", "Pending", "Restoring", "WaitingNetwork", "Restored",
           "Paused"}

(* Where an actor is: idle, polling for the permit; a start; a stop; a     *)
(* mode change; the restore before its start, and its undo.                *)
Labels == {"idle", "acquire",
           "start", "spawn", "finish", "apply", "settle", "intend",
           "stop", "halt", "mode", "switch",
           "delay", "helper", "preflight", "check", "undo"}

TypeOK ==
  /\ desired \in BOOLEAN /\ clean \in BOOLEAN /\ mode \in Modes
  /\ proxy \in BOOLEAN
  /\ up \in BOOLEAN /\ launches \in Nat
  /\ gate \in {"open", "preparing", "closed"} /\ cleaned \in BOOLEAN
  /\ core \in Starters \union {NoOne}
  /\ permit \in Starters \union {NoOne}
  /\ lock \in Starters \union {NoOne}
  /\ gen \in Nat /\ phase \in Phases
  /\ plan \in [gen : Nat, mode : Modes]
  /\ cause \in {"none", "core", "internet"}
  /\ pc \in [Starters -> Labels]
  /\ op \in [Commands -> {"Start", "Stop"} \union Modes]
  /\ waits \in [Commands -> BOOLEAN]
  /\ stopped \in BOOLEAN

NoPlan == [gen |-> 0, mode |-> "Manual"]
AllIdle == [p \in Starters |-> "idle"]
NoOps == [c \in Commands |-> "Stop"]
NoWaits == [c \in Commands |-> FALSE]

(* Nothing was ever started: storage.rs state() and settings() defaults,   *)
(* the mode perhaps chosen before.                                         *)
Init ==
  /\ desired = FALSE /\ clean = TRUE /\ mode \in Modes
  /\ proxy = FALSE
  /\ up = FALSE /\ launches = 0
  /\ gate = "open" /\ cleaned = FALSE
  /\ core = NoOne /\ permit = NoOne /\ lock = NoOne
  /\ gen = 0 /\ phase = "Idle" /\ plan = NoPlan /\ cause = "none"
  /\ pc = AllIdle /\ op = NoOps /\ waits = NoWaits
  /\ stopped = FALSE

(* Nothing in memory survives the process.                                 *)
LoseMemory ==
  /\ gate' = "open" /\ cleaned' = FALSE
  /\ core' = NoOne /\ permit' = NoOne /\ lock' = NoOne
  /\ gen' = 0 /\ phase' = "Idle" /\ plan' = NoPlan /\ cause' = "none"
  /\ pc' = AllIdle /\ op' = NoOps /\ waits' = NoWaits

-----------------------------------------------------------------------------
(* SessionResumeManager and the shared operations.                         *)

Goto(p, l) == pc' = [pc EXCEPT ![p] = l]

ShuttingDown == gate = "closed"

Current == gen = plan.gen /\ ~ShuttingDown

(* while_open: the mutex is free and neither exit nor the end of the       *)
(* session has begun.                                                      *)
Open == lock = NoOne /\ gate = "open"
Refused == lock = NoOne /\ gate # "open"

(* restore_system_proxy; an error may come before or after its write.      *)
RestoreProxy(ok) == proxy' \in (IF ok THEN {FALSE} ELSE {proxy, FALSE})

(* The actor returns: the permit is dropped, and a command is done.        *)
Release(p) ==
  /\ Goto(p, "idle")
  /\ permit' = NoOne
  /\ IF p \in Commands
     THEN /\ op' = [op EXCEPT ![p] = "Stop"]
          /\ waits' = [waits EXCEPT ![p] = FALSE]
     ELSE UNCHANGED <<op, waits>>

-----------------------------------------------------------------------------
(* acquire_manual_configuration.                                           *)

CancelResume ==
  /\ gen' = gen + 1
  /\ phase' = "Idle"
  /\ UNCHANGED <<plan, cause>>

Begin(c) ==
  /\ up /\ pc[c] = "idle" /\ gen < MaxGen
  /\ \E kind \in {"Start", "Stop"} \union Modes : op' = [op EXCEPT ![c] = kind]
  /\ waits' = [waits EXCEPT
       ![c] = phase \in {"Pending", "Restoring", "WaitingNetwork"}]
  /\ CancelResume
  /\ Goto(c, "acquire")
  /\ UNCHANGED <<disk, proxy, process, core, permit, lock, stopped>>

(* Mutant: the command does not look whether the permit is taken.          *)
AcquireBlindly(c) ==
  /\ pc[c] = "acquire"
  /\ permit' = c
  /\ Goto(c, CASE op[c] = "Start" -> "start"
               [] op[c] = "Stop"  -> "stop"
               [] OTHER           -> "mode")
  /\ stopped' = (stopped /\ op[c] # "Start")
  /\ UNCHANGED <<disk, proxy, process, core, lock, resume, op, waits>>

Acquire(c) ==
  /\ pc[c] = "acquire"
  /\ permit = NoOne
  /\ permit' = c
  /\ Goto(c, CASE op[c] = "Start" -> "start"
               [] op[c] = "Stop"  -> "stop"
               [] OTHER           -> "mode")
  /\ stopped' = (stopped /\ op[c] # "Start")
  /\ UNCHANGED <<disk, proxy, process, core, lock, resume, op, waits>>

(* Conflict: at once, unless the command has cancelled a restore.          *)
AcquireFails(c) ==
  /\ pc[c] = "acquire"
  /\ permit # NoOne
  /\ ~waits[c]
  /\ Goto(c, "idle")
  /\ op' = [op EXCEPT ![c] = "Stop"]
  /\ UNCHANGED <<disk, proxy, process, core, permit, lock, resume, waits,
                 stopped>>

(* 1400 naps of 50 ms have passed.                                         *)
AcquireTimesOut(c) ==
  /\ pc[c] = "acquire"
  /\ permit # NoOne
  /\ waits[c]
  /\ Goto(c, "idle")
  /\ op' = [op EXCEPT ![c] = "Stop"]
  /\ waits' = [waits EXCEPT ![c] = FALSE]
  /\ UNCHANGED <<disk, proxy, process, core, permit, lock, resume, stopped>>

-----------------------------------------------------------------------------
(* start_runtime_for_settings, for a Start command and for the restore.    *)

(* What follows a failed start.  The error of a TUN start carries the code *)
(* of TunStartup whatever its cause; retry_restore looks for another one.  *)
ErrorCode(why) ==
  IF why = "internet" THEN "TUN_START_FAILED" ELSE "CORE_NOT_READY"

RetryRestore(why) == ErrorCode(why) = "NETWORK_CHECK_FAILED"

(* restore_attempt after an error: try again later, pause, or nothing if   *)
(* the plan is no longer current.                                          *)
RestoreFailed(why) ==
  /\ cause' = why
  /\ permit' = NoOne
  /\ IF Current /\ RetryRestore(why)
     THEN phase' = "WaitingNetwork" /\ Goto(Restorer, "delay")
     ELSE /\ phase' = IF Current THEN "Paused" ELSE phase
          /\ Goto(Restorer, "idle")
  /\ UNCHANGED <<gen, plan, op, waits>>

StartFailed(p, why) ==
  IF p = Restorer THEN RestoreFailed(why) ELSE Release(p) /\ UNCHANGED resume

(* while_open: the unclean mark is on disk before a process exists.        *)
MarkUnclean(p) ==
  /\ pc[p] = "start"
  /\ Open
  /\ lock' = p
  /\ clean' = FALSE
  /\ Goto(p, "spawn")
  /\ UNCHANGED <<desired, mode, proxy, process, core, permit, resume, op, waits,
                 stopped>>

StartRefused(p) ==
  /\ pc[p] = "start"
  /\ Refused
  /\ StartFailed(p, "core")
  /\ UNCHANGED <<disk, proxy, process, core, lock, stopped>>

(* start or start_tun, still under the mutex.  The gate may have closed    *)
(* since the process was admitted.                                         *)
Spawn(p) ==
  /\ pc[p] = "spawn"
  /\ core = NoOne
  /\ core' = p
  /\ lock' = NoOne
  /\ Goto(p, "finish")
  /\ UNCHANGED <<disk, proxy, process, permit, resume, op, waits, stopped>>

(* A core runs already, a port is taken, the helper refuses, the gate is   *)
(* held.                                                                   *)
SpawnFails(p) ==
  /\ pc[p] = "spawn"
  /\ lock' = NoOne
  /\ StartFailed(p, "core")
  /\ UNCHANGED <<disk, proxy, process, core, stopped>>

(* The controller answered; for TUN interface, routes and internet too.    *)
FinishReady(p) ==
  /\ pc[p] = "finish"
  /\ Goto(p, IF mode = "SystemProxy" THEN "apply" ELSE "settle")
  /\ UNCHANGED <<disk, proxy, process, core, permit, lock, resume, op, waits,
                 stopped>>

(* The core never gets ready, or the internet is not reachable through     *)
(* TUN; the core is stopped if it is still the one of this start.          *)
FinishFails(p) ==
  /\ pc[p] = "finish"
  /\ \E why \in {"core"} \union (IF mode = "Tun" THEN {"internet"} ELSE {}) :
       StartFailed(p, why)
  /\ core' = IF core = p THEN NoOne ELSE core
  /\ UNCHANGED <<disk, proxy, process, lock, stopped>>

(* Mutant: the proxy is applied without while_open.                        *)
ApplyUnlocked(p) ==
  /\ pc[p] = "apply"
  /\ proxy' = TRUE
  /\ Goto(p, "settle")
  /\ UNCHANGED <<disk, process, core, permit, lock, resume, op, waits, stopped>>

ApplyProxy(p) ==
  /\ pc[p] = "apply"
  /\ Open
  /\ proxy' = TRUE
  /\ Goto(p, "settle")
  /\ UNCHANGED <<disk, process, core, permit, lock, resume, op, waits, stopped>>

(* Refused by while_open, or failed: a command's transaction tries to roll *)
(* back; the restore refuses to take over, or tries to release the proxy.  *)
ApplyFails(p) ==
  /\ pc[p] = "apply"
  /\ \/ Refused /\ UNCHANGED proxy
     \/ Open /\ proxy' \in (IF p = Restorer THEN BOOLEAN ELSE {proxy, TRUE})
  /\ StartFailed(p, "core")
  /\ core' = IF core = p THEN NoOne ELSE core
  /\ UNCHANGED <<disk, process, lock, stopped>>

(* Ok unless the application is shutting down; cleanup then owns the core. *)
SettleStart(c) ==
  /\ pc[c] = "settle" /\ c \in Commands
  /\ IF ShuttingDown THEN Release(c)
                     ELSE Goto(c, "intend") /\ UNCHANGED <<permit, op, waits>>
  /\ UNCHANGED <<disk, proxy, process, core, lock, resume, stopped>>

(* The start has succeeded: only now is the intent recorded.               *)
RecordIntent(c) ==
  /\ pc[c] = "intend"
  /\ Open
  /\ desired' = TRUE
  /\ Release(c)
  /\ UNCHANGED <<clean, mode, proxy, process, core, lock, resume, stopped>>

(* Mutant: the refusal is reported, but the core is left running.          *)
IntentDropped(c) ==
  /\ pc[c] = "intend"
  /\ Refused
  /\ Release(c)
  /\ UNCHANGED <<disk, proxy, process, core, lock, resume, stopped>>

(* Not open any more: what the start has done is taken back.               *)
IntentRefused(c) ==
  /\ pc[c] = "intend"
  /\ Refused
  /\ \E ok \in BOOLEAN : RestoreProxy(ok)
  /\ core' = NoOne
  /\ Release(c)
  /\ UNCHANGED <<disk, process, lock, resume, stopped>>

-----------------------------------------------------------------------------
(* stop_runtime_with_permit, under the mutex from intent to clean mark.    *)

StopIntent(c) ==
  /\ pc[c] = "stop"
  /\ Open
  /\ lock' = c
  /\ desired' = FALSE
  /\ Goto(c, "halt")
  /\ UNCHANGED <<clean, mode, proxy, process, core, permit, resume, op, waits,
                 stopped>>

StopRefused(c) ==
  /\ pc[c] = "stop"
  /\ Refused
  /\ Release(c)
  /\ UNCHANGED <<disk, proxy, process, core, lock, resume, stopped>>

(* Proxy first, then the core, then the mark: clean only if both worked.   *)
StopRuntime(c) ==
  /\ pc[c] = "halt"
  /\ \E ok \in BOOLEAN :
       /\ RestoreProxy(ok)
       /\ clean' = ok
       /\ stopped' = ok
  /\ core' = NoOne
  /\ lock' = NoOne
  /\ Release(c)
  /\ UNCHANGED <<desired, mode, process, resume>>

-----------------------------------------------------------------------------
(* set_network_mode.                                                       *)

(* A running core: TUN cannot be entered or left, and System Proxy first   *)
(* waits for the controller.                                               *)
SwitchReady(c) ==
  /\ pc[c] = "mode"
  /\ core # NoOne /\ mode # "Tun" /\ op[c] # "Tun"
  /\ Goto(c, "switch")
  /\ UNCHANGED <<disk, proxy, process, core, permit, lock, resume, op, waits,
                 stopped>>

(* The transaction over the platform's settings and settings.json.         *)
Switch(c) ==
  /\ pc[c] = "switch"
  /\ Open
  /\ proxy' = (op[c] = "SystemProxy")
  /\ mode' = op[c]
  /\ Release(c)
  /\ UNCHANGED <<desired, clean, process, core, lock, resume, stopped>>

SwitchFails(c) ==
  /\ pc[c] = "switch"
  /\ \/ Refused /\ UNCHANGED proxy
     \/ Open /\ proxy' \in {proxy, op[c] = "SystemProxy"}
  /\ Release(c)
  /\ UNCHANGED <<disk, process, core, lock, resume, stopped>>

(* Mutant: the mode is saved although the proxy could not be restored.     *)
SetModeRegardless(c) ==
  /\ pc[c] = "mode"
  /\ core = NoOne
  /\ \E ok \in BOOLEAN :
       IF op[c] # "SystemProxy" THEN RestoreProxy(ok) ELSE UNCHANGED proxy
  /\ mode' = op[c]
  /\ Release(c)
  /\ UNCHANGED <<desired, clean, process, core, lock, resume, stopped>>

(* No core runs: the proxy is restored without runtime_transition.         *)
SetMode(c) ==
  /\ pc[c] = "mode"
  /\ core = NoOne
  /\ IF op[c] # "SystemProxy" THEN RestoreProxy(TRUE) ELSE UNCHANGED proxy
  /\ mode' = op[c]
  /\ Release(c)
  /\ UNCHANGED <<desired, clean, process, core, lock, resume, stopped>>

(* Refused under a running core; no helper for TUN; no restored proxy.     *)
ModeFails(c) ==
  /\ pc[c] = "mode"
  /\ IF core = NoOne
     THEN /\ op[c] # "SystemProxy"
          /\ RestoreProxy(FALSE)
     ELSE /\ op[c] # "Manual" \/ mode = "Tun"
          /\ UNCHANGED proxy
  /\ Release(c)
  /\ UNCHANGED <<disk, process, core, lock, resume, stopped>>

-----------------------------------------------------------------------------
(* restore() and restore_attempt().                                        *)

(* update(): published for the current generation only.                    *)
Publish(p) == phase' = IF Current THEN p ELSE phase

(* The select is biased, but a cancellation may come after it was polled.  *)
DelayElapsed ==
  /\ pc[Restorer] = "delay"
  /\ cause' = "none"
  /\ IF plan.mode = "Tun"
     THEN Publish("Restoring") /\ Goto(Restorer, "helper")
     ELSE Goto(Restorer, "preflight") /\ UNCHANGED phase
  /\ UNCHANGED <<disk, proxy, process, core, permit, lock, gen, plan, op, waits,
                 stopped>>

CancelledEarly ==
  /\ pc[Restorer] \in {"delay", "helper"}
  /\ ~Current
  /\ Goto(Restorer, "idle")
  /\ UNCHANGED <<disk, proxy, process, core, permit, lock, resume, op, waits,
                 stopped>>

HelperReady ==
  /\ pc[Restorer] = "helper"
  /\ Goto(Restorer, "preflight")
  /\ UNCHANGED <<disk, proxy, process, core, permit, lock, resume, op, waits,
                 stopped>>

(* The helper needs approval, repair, or more than 10 s; or the preflight  *)
(* finds the permit taken, other settings, a core, or a foreign proxy.     *)
RestorePauses ==
  /\ pc[Restorer] \in {"helper", "preflight"}
  /\ Publish("Paused")
  /\ Goto(Restorer, "idle")
  /\ UNCHANGED <<disk, proxy, process, core, permit, lock, gen, plan, cause, op,
                 waits, stopped>>

(* restore_preflight: the permit, then the stored state once more.         *)
Preflight ==
  /\ pc[Restorer] = "preflight"
  /\ permit = NoOne
  /\ desired /\ mode = plan.mode
  /\ core = NoOne
  /\ permit' = Restorer
  /\ Goto(Restorer, "check")
  /\ UNCHANGED <<disk, proxy, process, core, lock, resume, op, waits, stopped>>

CheckCurrent ==
  /\ pc[Restorer] = "check"
  /\ IF Current THEN Goto(Restorer, "start") /\ UNCHANGED permit
                ELSE Goto(Restorer, "idle") /\ permit' = NoOne
  /\ Publish("Restoring")
  /\ UNCHANGED <<disk, proxy, process, core, lock, gen, plan, cause, op, waits,
                 stopped>>

(* The select notices the cancellation where the start awaits.             *)
CancelledLate ==
  /\ pc[Restorer] \in {"start", "finish"}
  /\ ~Current
  /\ Goto(Restorer, "undo")
  /\ UNCHANGED <<disk, proxy, process, core, permit, lock, resume, op, waits,
                 stopped>>

(* The start succeeded: restored, or to be undone, or left to cleanup.     *)
SettleRestore ==
  /\ pc[Restorer] = "settle"
  /\ \/ /\ Current
        /\ phase' = "Restored"
        /\ Release(Restorer)
     \/ /\ ~Current
        /\ Goto(Restorer, "undo")
        /\ UNCHANGED <<phase, permit, op, waits>>
     \/ /\ ShuttingDown
        /\ Release(Restorer)
        /\ UNCHANGED phase
  /\ UNCHANGED <<disk, proxy, process, core, lock, gen, plan, cause, stopped>>

(* Mutant: the undo waits for the gate as a start does.                    *)
UndoWhileOpen ==
  /\ pc[Restorer] = "undo"
  /\ Open
  /\ \E ok \in BOOLEAN : RestoreProxy(ok)
  /\ core' = NoOne
  /\ Release(Restorer)
  /\ UNCHANGED <<disk, process, lock, resume, stopped>>

(* cleanup_transition of a cancelled restore; errors are ignored.          *)
Undo ==
  /\ pc[Restorer] = "undo"
  /\ lock = NoOne
  /\ \E ok \in BOOLEAN : RestoreProxy(ok)
  /\ core' = NoOne
  /\ Release(Restorer)
  /\ UNCHANGED <<disk, process, lock, resume, stopped>>

-----------------------------------------------------------------------------
(* The process: launch, the session's end, exit, crash.                    *)

(* setup: recover an unclean end, mark the run unclean, bootstrap.         *)
Launch ==
  /\ ~up /\ launches < MaxLaunches
  /\ up' = TRUE
  /\ launches' = launches + 1
  /\ IF clean THEN UNCHANGED proxy ELSE \E ok \in BOOLEAN : RestoreProxy(ok)
  /\ clean' = FALSE
  /\ gen' = 1
  /\ \/ /\ desired
        /\ phase' = "Pending"
        /\ plan' = [gen |-> 1, mode |-> mode]
        /\ Goto(Restorer, "delay")
     \/ \* restore_last_session is off, or nothing to restore
        /\ phase' = "Idle"
        /\ UNCHANGED <<plan, pc>>
     \/ \* no active profile or revision
        /\ desired
        /\ phase' = "Paused"
        /\ UNCHANGED <<plan, pc>>
  /\ UNCHANGED <<desired, mode, gate, cleaned, core, permit, lock, cause, op,
                 waits, stopped>>

(* WM_QUERYENDSESSION, or an installation, holds the gate; both let go.    *)
HoldGate ==
  /\ up /\ gate = "open"
  /\ gate' = "preparing"
  /\ UNCHANGED <<disk, proxy, up, launches, cleaned, core, permit, lock, resume,
                 actors, stopped>>

ReleaseGate ==
  /\ gate = "preparing"
  /\ gate' = "open"
  /\ UNCHANGED <<disk, proxy, up, launches, cleaned, core, permit, lock, resume,
                 actors, stopped>>

(* cleanup_app: close and begin_shutdown.                                  *)
BeginShutdown ==
  /\ up /\ gate # "closed"
  /\ gate' = "closed"
  /\ CancelResume
  /\ UNCHANGED <<disk, proxy, up, launches, cleaned, core, permit, lock, actors,
                 stopped>>

(* Mutant: cleanup does not serialize with a start or a stop in flight.    *)
CleanupUnlocked ==
  /\ ShuttingDown /\ ~cleaned
  /\ \E ok \in BOOLEAN : RestoreProxy(ok) /\ clean' = ok
  /\ core' = NoOne
  /\ cleaned' = TRUE
  /\ UNCHANGED <<desired, mode, up, launches, gate, permit, lock, resume,
                 actors, stopped>>

(* cleanup_resources, under the mutex; the intent is left alone.           *)
Cleanup ==
  /\ ShuttingDown /\ ~cleaned
  /\ lock = NoOne
  /\ \E ok \in BOOLEAN : RestoreProxy(ok) /\ clean' = ok
  /\ core' = NoOne
  /\ cleaned' = TRUE
  /\ UNCHANGED <<desired, mode, up, launches, gate, permit, lock, resume,
                 actors, stopped>>

(* Exit, with cleanup done or its 4 s over; or a crash, at any point.  The *)
(* Windows job object takes the core along.                                *)
ProcessEnds ==
  /\ up
  /\ up' = FALSE
  /\ LoseMemory
  /\ UNCHANGED <<disk, proxy, launches, stopped>>

CoreDies ==
  /\ core # NoOne
  /\ core' = NoOne
  /\ UNCHANGED <<disk, proxy, process, permit, lock, resume, actors, stopped>>

-----------------------------------------------------------------------------
StartStep(p) ==
  \/ MarkUnclean(p) \/ StartRefused(p) \/ Spawn(p) \/ SpawnFails(p)
  \/ FinishReady(p) \/ FinishFails(p) \/ ApplyProxy(p) \/ ApplyFails(p)

CommandStep(c) ==
  \/ StartStep(c) \/ SettleStart(c) \/ RecordIntent(c) \/ IntentRefused(c)
  \/ StopIntent(c) \/ StopRefused(c) \/ StopRuntime(c)
  \/ SwitchReady(c) \/ Switch(c) \/ SwitchFails(c) \/ SetMode(c) \/ ModeFails(c)

RestoreStep ==
  \/ DelayElapsed \/ CancelledEarly \/ HelperReady \/ RestorePauses
  \/ Preflight \/ CheckCurrent \/ CancelledLate \/ SettleRestore \/ Undo
  \/ StartStep(Restorer)

Next ==
  \/ \E c \in Commands :
       \/ Begin(c) \/ Acquire(c) \/ AcquireFails(c) \/ AcquireTimesOut(c)
       \/ CommandStep(c)
  \/ RestoreStep
  \/ Launch \/ HoldGate \/ ReleaseGate \/ BeginShutdown \/ Cleanup
  \/ ProcessEnds \/ CoreDies

Spec == Init /\ [][Next]_vars

(* A task that can run is run: every wait inside a start, a stop or a      *)
(* restore has a deadline of its own.  A waiting command polls the permit. *)
(* Nothing is promised of the user, the session, or a crash.               *)
Fairness ==
  /\ WF_vars(RestoreStep)
  /\ \A c \in Commands : WF_vars(CommandStep(c)) /\ WF_vars(Acquire(c))

FairSpec == Spec /\ Fairness

-----------------------------------------------------------------------------
(* state.json never claims a clean end that was none: the next launch      *)
(* skips its recovery only if no proxy of ours and no core is left         *)
(* (mark_clean_shutdown under runtime_transition, lib.rs 523, 1036, 1501). *)
CleanMeansReleased == clean => ~proxy /\ core = NoOne

(* A Stop that returned Ok is final: no restore in flight, no later launch *)
(* and no mode change brings the core, the proxy or the intent back, until *)
(* a Start command gets the permit (lib.rs 1014-1054).                     *)
StopIsFinal == stopped => ~desired /\ ~proxy /\ core = NoOne

(* Once nobody works on it, a running core is one the stored intent asks   *)
(* for: a start that could not record its intent leaves nothing behind,    *)
(* an interrupted Stop leaves no intent (lib.rs 495-502, 1031).            *)
RunningIsIntended ==
  up /\ permit = NoOne /\ ~ShuttingDown /\ core # NoOne => desired

(* Cleanup is the last word of the process: a start that was admitted      *)
(* before the exit cannot spawn after cleanup (session_resume.rs 46-48).   *)
NothingAfterCleanup == cleaned => core = NoOne

(* Our System Proxy is never applied while the stored mode is TUN.         *)
TunHasNoProxy == mode = "Tun" => ~proxy

(* A restore works only under the permit and, when it creates a process,   *)
(* for an intent that is still stored (session_resume.rs 493-520).         *)
RestoreHonoursIntent ==
  [][core' = Restorer /\ core # Restorer =>
        desired /\ permit = Restorer]_vars

(* "A slow login network is not a user Stop. Keep the saved intent and     *)
(* retry" (session_resume.rs 322-323): a current restore whose start       *)
(* failed on the network is not paused.                                    *)
SlowNetworkIsRetried == cause = "internet" => phase # "Paused"

(* A cancelled restore lets the permit go, whatever it was doing; hence a  *)
(* manual command that waits for it gets on (session_resume.rs 288-320).   *)
ManualReturns == \A c \in Commands : pc[c] = "acquire" ~> pc[c] # "acquire"
=============================================================================
