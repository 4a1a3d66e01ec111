-------------------------------- MODULE CoreRun --------------------------------
(***************************************************************************)
(* The core as a child process of the application (MihomoRuntime of        *)
(* runtime.rs): its fields lie behind one lock each, starts and stops run  *)
(* under runtime_transition, status calls at any time, and the check of a  *)
(* configuration by a core of its own, for a start or for a subscription.  *)
(* The privileged core of the helper is TunLease.                          *)
(***************************************************************************)
EXTENDS Integers

CONSTANTS
  MaxRuns,         \* bound: cores started
  MaxChecks        \* bound: validations of the subscription task

VARIABLES
  phase, child, startedAt, lastError,  \* the fields of MihomoRuntime
  cores,           \* core processes that live
  start,           \* the start in progress: its step, its core
  stops,           \* the step of each stop: the command's and the shutdown's
  check,           \* the validation of a start and of a task
  gate, cancelled, \* PROCESS_LIFECYCLE; the cancel flag of the task
  runs, checked,   \* bounds: cores and validations so far
  reaped           \* history: a status call reaped a core not yet "running"

coreRunVars ==
  <<phase, child, startedAt, lastError, cores, start, stops, check, gate,
    cancelled, runs, checked, reaped>>

NoCore == 0
Idle == [at |-> "idle", core |-> NoCore]
NoCheck == [process |-> "none", over |-> FALSE, result |-> "none"]
Checkers == {"start", "task"}
Stoppers == {"command", "shutdown"}

CoreRunInit ==
  /\ phase = "uninitialized" /\ child = NoCore /\ startedAt = NoCore /\ lastError = "none"
  /\ cores = {} /\ start = Idle /\ stops = [s \in Stoppers |-> "idle"]
  /\ check = [c \in Checkers |-> NoCheck] /\ gate = "open" /\ cancelled = FALSE
  /\ runs = 0 /\ checked = 0 /\ reaped = FALSE

Fields == <<phase, child, startedAt, lastError>>
Others == UNCHANGED <<gate, cancelled, checked>>

----------------------------------------------------------------------------
(* run_validation_command, wait_for_validation                             *)

\* a process, if the gate admits one
Spawned == IF gate = "open" THEN [NoCheck EXCEPT !.process = "runs"]
           ELSE [NoCheck EXCEPT !.result = "runtime"]

\* the diagnostic of a refusal: rules of a subscription may wait for resources
Refusal(c) == {"config"} \union (IF c = "task" THEN {"resources"} ELSE {})

\* one round of the loop: gate, cancellation, exit, size of the log and deadline;
\* whatever ends it, the process is killed and waited for, its log is removed
Ended(c) ==
  LET now == check[c]
      Over(result) == {[NoCheck EXCEPT !.result = result]}
  IN  IF gate # "open" THEN Over("conflict")
      ELSE IF c = "task" /\ cancelled THEN Over("cancelled")
      ELSE IF now.process = "passed" THEN Over("ok")
      ELSE IF now.process = "failed" THEN UNION {Over(r) : r \in Refusal(c)}
      ELSE IF now.over THEN Over("runtime") ELSE {}

Round(c) ==
  /\ check[c].process # "none"
  /\ \E ended \in Ended(c) : check' = [check EXCEPT ![c] = ended]
  /\ UNCHANGED <<Fields, cores, start, stops, runs, reaped>> /\ Others

\* the process of a validation exits, fills its log or takes its time
ProcessGoesOn(c) ==
  /\ check[c].process = "runs"
  /\ \E next \in {[check[c] EXCEPT !.process = "passed"], [check[c] EXCEPT !.process = "failed"],
                  [check[c] EXCEPT !.over = TRUE]} :
       check' = [check EXCEPT ![c] = next]
  /\ UNCHANGED <<Fields, cores, start, stops, runs, reaped>> /\ Others

\* validate_file_cancellable of a subscription task
TaskChecks ==
  /\ check["task"].process = "none" /\ checked < MaxChecks
  /\ check' = [check EXCEPT !["task"] = Spawned]
  /\ cancelled' = FALSE /\ checked' = checked + 1
  /\ UNCHANGED <<Fields, cores, start, stops, gate, runs, reaped>>

----------------------------------------------------------------------------
(* start_attempt, start_process                                            *)

InFlight == {"validating", "starting", "running", "stopping"}
Alive == child # NoCore /\ child \in cores

\* is_running reaps a core that has exited
StartBegins ==
  /\ start = Idle /\ \A s \in Stoppers : stops[s] = "idle"
  /\ runs < MaxRuns /\ ~Alive
  /\ child' = NoCore
  /\ LET seen == IF child # NoCore THEN "crashed" ELSE phase
         refused == seen \in InFlight
     IN  /\ phase' = IF refused THEN seen ELSE "validating"
         /\ start' = IF refused THEN Idle ELSE [at |-> "write", core |-> NoCore]
  /\ lastError' = IF child # NoCore THEN "exited" ELSE lastError
  /\ UNCHANGED <<startedAt, cores, stops, check, runs, reaped>> /\ Others

\* start_attempt: an attempt without a process can be repeated
Failed ==
  /\ start' = Idle
  /\ IF child = NoCore /\ phase \in {"validating", "starting"}
       THEN lastError' = "start" /\ phase' = "crashed"
       ELSE UNCHANGED <<lastError, phase>>

\* preflight_ports, active.yaml, the validation begins
StartChecks ==
  /\ start.at = "write"
  /\ \/ Failed /\ UNCHANGED check
     \/ /\ start' = [start EXCEPT !.at = "check"]
        /\ check' = [check EXCEPT !["start"] = Spawned] /\ UNCHANGED <<lastError, phase>>
  /\ UNCHANGED <<child, startedAt, cores, stops, runs, reaped>> /\ Others

StartChecked ==
  /\ start.at = "check" /\ check["start"].process = "none"
  /\ IF check["start"].result = "ok"
       THEN phase' = "starting" /\ start' = [start EXCEPT !.at = "spawn"] /\ UNCHANGED lastError
       ELSE Failed
  /\ UNCHANGED <<child, startedAt, cores, stops, check, runs, reaped>> /\ Others

\* spawn_core_command
Spawn ==
  /\ start.at = "spawn"
  /\ IF gate # "open" THEN Failed /\ UNCHANGED <<cores, runs>>
     ELSE /\ runs' = runs + 1 /\ cores' = cores \union {runs'}
          /\ start' = [at |-> "child", core |-> runs'] /\ UNCHANGED <<lastError, phase>>
  /\ UNCHANGED <<child, startedAt, stops, check, reaped>> /\ Others

\* one field after the other, each under its lock
Record ==
  /\ \/ /\ start.at = "child" /\ child' = start.core /\ start' = [start EXCEPT !.at = "time"]
        /\ UNCHANGED <<startedAt, lastError, phase>>
     \/ /\ start.at = "time" /\ startedAt' = start.core /\ start' = [start EXCEPT !.at = "error"]
        /\ UNCHANGED <<child, lastError, phase>>
     \/ /\ start.at = "error" /\ lastError' = "none" /\ start' = [start EXCEPT !.at = "phase"]
        /\ UNCHANGED <<child, startedAt, phase>>
     \/ /\ start.at = "phase" /\ phase' = "running" /\ start' = Idle
        /\ UNCHANGED <<child, startedAt, lastError>>
  /\ UNCHANGED <<cores, stops, check, runs, reaped>> /\ Others

----------------------------------------------------------------------------
(* stop: of a command or of the exit, under runtime_transition; a start    *)
(* that is refused later stops its core without it.                        *)

Goes(s, from, to) == stops[s] = from /\ stops' = [stops EXCEPT ![s] = to]

Stop(s) ==
  /\ \/ /\ Goes(s, "idle", "kill") /\ start = Idle /\ phase' = "stopping"
        /\ UNCHANGED <<child, startedAt, cores>>
     \/ /\ Goes(s, "kill", "time") /\ child' = NoCore /\ cores' = cores \ {child}
        /\ UNCHANGED <<phase, startedAt>>
     \/ /\ Goes(s, "time", "phase") /\ startedAt' = NoCore
        /\ UNCHANGED <<phase, child, cores>>
     \/ /\ Goes(s, "phase", "idle") /\ phase' = "stopped"
        /\ UNCHANGED <<child, startedAt, cores>>
  /\ UNCHANGED <<lastError, start, check, runs, reaped>> /\ Others

----------------------------------------------------------------------------
(* status and the other processes                                          *)

\* status, is_running: a core that has exited is reaped under the lock of child
StatusReaps ==
  /\ child # NoCore /\ ~Alive
  /\ child' = NoCore /\ lastError' = "exited" /\ phase' = "crashed"
  /\ reaped' = (reaped \/ start.at \in {"time", "error", "phase"})
  /\ UNCHANGED <<startedAt, cores, start, stops, check, runs>> /\ Others

CoreDies ==
  /\ \E c \in cores : cores' = cores \ {c}
  /\ UNCHANGED <<Fields, start, stops, check, runs, reaped>> /\ Others

\* a session that ends, or goes on; a task that is cancelled
Outside ==
  /\ \/ gate' = (IF gate = "open" THEN "closed" ELSE "open") /\ UNCHANGED cancelled
     \/ ~cancelled /\ cancelled' = TRUE /\ UNCHANGED gate
  /\ UNCHANGED <<Fields, cores, start, stops, check, runs, checked, reaped>>

CoreRunNext ==
  \/ StartBegins \/ StartChecks \/ StartChecked \/ Spawn \/ Record
  \/ TaskChecks \/ \E c \in Checkers : Round(c) \/ ProcessGoesOn(c)
  \/ \E s \in Stoppers : Stop(s)
  \/ StatusReaps \/ CoreDies \/ Outside

CoreRunTypeOK ==
  /\ phase \in {"uninitialized", "validating", "starting", "running", "stopping", "stopped",
                "crashed"}
  /\ child \in 0..MaxRuns /\ startedAt \in 0..MaxRuns /\ cores \subseteq 1..MaxRuns
  /\ lastError \in {"none", "start", "exited"}
  /\ start.at \in {"idle", "write", "check", "spawn", "child", "time", "error", "phase"}
  /\ \A s \in Stoppers : stops[s] \in {"idle", "kill", "time", "phase"}
  /\ \A c \in Checkers : /\ check[c].process \in {"none", "runs", "passed", "failed"}
                         /\ check[c].result \in {"none", "ok", "conflict", "cancelled",
                                                 "runtime", "config", "resources"}
  /\ gate \in {"open", "closed"} /\ {cancelled, reaped} \subseteq BOOLEAN

----------------------------------------------------------------------------
\* A core that lives is the child, or its start is about to record it; so a
\* stop that has ended leaves none behind.
NoCoreIsLost ==
  cores \subseteq {child} \union (IF start.at = "child" THEN {start.core} ELSE {})

\* The phase says running only while there is a child, and between two
\* operations a start without one is not refused as "in progress"; unless a
\* status call has reaped the core before its start set the phase.
PhaseIsTrue ==
  ~reaped => /\ phase = "running" => child # NoCore
             /\ start = Idle /\ (\A s \in Stoppers : stops[s] = "idle") /\ child = NoCore =>
                  phase \notin InFlight

\* A configuration passes only while the gate admits and nobody has cancelled,
\* whatever the process said before; and a core follows none that did not pass.
OnlyCheckedCoresRun ==
  /\ \A c \in Checkers : check'[c].result = "ok" /\ check[c].result # "ok" =>
       gate = "open" /\ ~(c = "task" /\ cancelled)
  /\ runs' # runs => check["start"].result = "ok" /\ gate = "open"
=============================================================================
