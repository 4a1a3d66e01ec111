------------------------- MODULE ConnectionFeedback -------------------------
(***************************************************************************)
(* The state of the connection that the window shows                       *)
(* (connection_feedback.rs): every command that starts, switches, rechecks *)
(* or stops begins a new operation; a probe of the internet runs in the    *)
(* background and may publish its result only for the operation and the    *)
(* context (configuration and core run) it was made for.  The commands are *)
(* those of lib.rs 499-545, 1105-1156 and recheck_connection.              *)
(***************************************************************************)
EXTENDS Integers

CONSTANTS
  MaxOps,    \* bound: operations
  MaxConf,   \* bound: changes of the configuration
  MaxRun     \* bound: runs of the core

VARIABLES
  world,     \* [conf, run, proxy, closing]: run 0 is no core
  shown,     \* State: [op, phase, health, context]; the watch channel holds op
  starter,   \* the command with the permit: [at, op, context]
  probes,    \* the probe of each operation: [at, context]
  inspector, \* a status query: [at, op, context]
  confPermit \* Free, Command, or the operation of the probe that has it

feedbackVars == <<world, shown, starter, probes, inspector, confPermit>>

Free == 0
Command == -1
Results == {"Healthy", "Partial", "Unavailable"}
None == [conf |-> -1, run |-> 0, mode |-> "none"]
Contexts == [conf: -1..MaxConf, run: 0..MaxRun, mode: {"none", "proxy", "tun"}]
Rest == [at |-> "idle", op |-> 0, context |-> None]

FeedbackTypeOK ==
  /\ world \in [conf: 0..MaxConf, run: 0..MaxRun, last: 0..MaxRun, proxy: BOOLEAN,
                closing: BOOLEAN]
  /\ shown \in [op: 0..(MaxOps + 2), phase: {"Idle", "Busy", "Enabled", "Failed"},
                health: Results \union {"Unchecked", "Checking"}, context: Contexts]
  /\ starter.op \in 0..(MaxOps + 2) /\ starter.context \in Contexts
  /\ probes \in [1..MaxOps -> [at: {"none", "working", "waiting", "verifying", "publishing", "gone"},
                               context: Contexts]]
  /\ inspector.op \in 0..(MaxOps + 2)
  /\ confPermit \in {Free, Command} \union (1..MaxOps)

FeedbackInit ==
  /\ world = [conf |-> 0, run |-> 0, last |-> 0, proxy |-> FALSE, closing |-> FALSE]
  /\ shown = [op |-> 0, phase |-> "Idle", health |-> "Unchecked", context |-> None]
  /\ starter = Rest /\ inspector = Rest
  /\ probes = [o \in 1..MaxOps |-> [at |-> "none", context |-> None]]
  /\ confPermit = Free

----------------------------------------------------------------------------
(* State, each operation under its mutex                                   *)

BeginShown(phase) ==
  shown' = [op |-> shown.op + 1, phase |-> phase, health |-> "Unchecked", context |-> None]

\* bound: the invalidations that follow the last command are not counted
MayBegin == shown.op < MaxOps

\* update: ignored unless the operation is the present one
Current(op) == op = shown.op

Update(op, new) == shown' = IF Current(op) THEN new ELSE shown

InvalidateIf(op) == IF shown.op = op THEN BeginShown("Idle") ELSE UNCHANGED shown

\* Context::read; without a core it is an error
ContextNow(mode) == [conf |-> world.conf, run |-> world.run, mode |-> mode]

----------------------------------------------------------------------------
(* the commands                                                            *)

CommandVars == <<probes, inspector>>

StartBegins(mode) ==
  /\ confPermit = Free /\ ~world.closing /\ MayBegin
  /\ BeginShown("Busy")
  /\ confPermit' = Command
  /\ starter' = [at |-> "begun", op |-> shown'.op, context |-> [None EXCEPT !.mode = mode]]
  /\ UNCHANGED <<world, CommandVars>>

\* start_runtime_inner up to the core that answers
StartSpawns ==
  /\ starter.at = "begun" /\ world.last < MaxRun
  /\ world' = [world EXCEPT !.run = world.last + 1, !.last = @ + 1]
  /\ starter' = [starter EXCEPT !.at = "spawned"]
  /\ UNCHANGED <<shown, confPermit, CommandVars>>

StartReady ==
  /\ starter.at = "spawned"
  /\ IF starter.context.mode = "tun"
       THEN starter' = [starter EXCEPT !.at = "report", !.context = ContextNow("tun")]
            /\ UNCHANGED world
       ELSE starter' = [starter EXCEPT !.at = "enable"] /\ world' = [world EXCEPT !.proxy = TRUE]
  /\ UNCHANGED <<shown, confPermit, CommandVars>>

\* tun_report: the context was read before the lock is taken
TunReport ==
  /\ starter.at = "report"
  /\ \E h \in Results :
       Update(starter.op,
         IF starter.context.run # 0
           THEN [shown EXCEPT !.health = h, !.context = starter.context]
           ELSE [shown EXCEPT !.health = "Unchecked", !.context = None])
  /\ starter' = [starter EXCEPT !.at = "enable"]
  /\ UNCHANGED <<world, confPermit, CommandVars>>

StartEnabled ==
  /\ starter.at = "enable"
  /\ Update(starter.op, [shown EXCEPT !.phase = "Enabled"])
  /\ starter' = [starter EXCEPT !.at = IF starter.context.mode = "tun" THEN "leave" ELSE "probe"]
  /\ UNCHANGED <<world, confPermit, CommandVars>>

\* the error branch reads the present operation, then publishes on it
StartFails ==
  /\ starter.at \in {"begun", "spawned"}
  /\ world' = [world EXCEPT !.run = 0, !.proxy = FALSE]
  /\ starter' = [starter EXCEPT !.at = IF world.closing THEN "leave" ELSE "fail", !.op = shown.op]
  /\ UNCHANGED <<shown, confPermit, CommandVars>>

StartReportsFailure ==
  /\ starter.at = "fail"
  /\ Update(starter.op, [shown EXCEPT !.phase = "Failed", !.health = "Unchecked"])
  /\ starter' = [starter EXCEPT !.at = "leave"]
  /\ UNCHANGED <<world, confPermit, CommandVars>>

\* recheck_connection
RecheckBegins ==
  /\ confPermit = Free /\ world.run # 0 /\ MayBegin
  /\ BeginShown("Enabled")
  /\ confPermit' = Command
  /\ starter' = [at |-> "probe", op |-> shown'.op, context |-> [None EXCEPT !.mode = "proxy"]]
  /\ UNCHANGED <<world, CommandVars>>

\* probe: Context::read and subscribe ...
ProbeReads ==
  /\ starter.at = "probe"
  /\ starter' = IF world.closing \/ world.run = 0
                  THEN [starter EXCEPT !.at = "leave"]
                  ELSE [starter EXCEPT !.at = "checking", !.context = ContextNow("proxy")]
  /\ UNCHANGED <<world, shown, confPermit, CommandVars>>

\* ... then the update, and the task only if it was accepted
ProbeStarts ==
  /\ starter.at = "checking"
  /\ Update(starter.op, [shown EXCEPT !.phase = "Enabled", !.health = "Checking",
                                      !.context = starter.context])
  /\ probes' = IF Current(starter.op)
                 THEN [probes EXCEPT ![starter.op] = [at |-> "working", context |-> starter.context]]
                 ELSE probes
  /\ starter' = [starter EXCEPT !.at = "leave"]
  /\ UNCHANGED <<world, inspector, confPermit>>

CommandLeaves ==
  /\ starter.at = "leave"
  /\ starter' = Rest /\ confPermit' = Free
  /\ UNCHANGED <<world, shown, CommandVars>>

\* stop_runtime, then invalidate; the permit is held over both
StopCommand ==
  /\ confPermit = Free /\ ~world.closing /\ MayBegin /\ BeginShown("Idle")
  /\ world' = [world EXCEPT !.run = 0, !.proxy = FALSE]
  /\ UNCHANGED <<starter, confPermit, CommandVars>>

----------------------------------------------------------------------------
(* what happens meanwhile                                                  *)

ChangeConfiguration ==
  /\ confPermit = Free /\ world.conf < MaxConf
  /\ world' = [world EXCEPT !.conf = @ + 1]
  /\ UNCHANGED <<shown, starter, confPermit, CommandVars>>

CoreDies ==
  /\ world.run # 0
  /\ world' = [world EXCEPT !.run = 0]
  /\ UNCHANGED <<shown, starter, confPermit, CommandVars>>

ProxyTaken ==
  /\ world.proxy
  /\ world' = [world EXCEPT !.proxy = FALSE]
  /\ UNCHANGED <<shown, starter, confPermit, CommandVars>>

\* cleanup_app: the flag, then invalidate, without the permit
Closes ==
  /\ ~world.closing /\ BeginShown("Idle")
  /\ world' = [world EXCEPT !.closing = TRUE]
  /\ UNCHANGED <<starter, confPermit, CommandVars>>

----------------------------------------------------------------------------
(* the task of a probe                                                     *)

ProbeVars == <<world, starter, inspector>>
Gone(o) == probes' = [probes EXCEPT ![o].at = "gone"]

\* receiver.changed() wins over the work and over the wait for the permit
ProbeOverruled(o) ==
  /\ probes[o].at \in {"working", "waiting"} /\ shown.op # o
  /\ Gone(o)
  /\ UNCHANGED <<shown, confPermit, ProbeVars>>

\* both requests and the second attempt have their own time limits
ProbeWorked(o) ==
  /\ probes[o].at = "working"
  /\ probes' = [probes EXCEPT ![o].at = IF world.closing THEN "gone" ELSE "waiting"]
  /\ UNCHANGED <<shown, confPermit, ProbeVars>>

ProbeTakesPermit(o) ==
  /\ probes[o].at = "waiting" /\ confPermit = Free
  /\ confPermit' = o /\ probes' = [probes EXCEPT ![o].at = "verifying"]
  /\ UNCHANGED <<shown, ProbeVars>>

\* mutant: the probe that gives up leaves "checking" behind
ProbeGivesUp(o) ==
  /\ probes[o].at = "waiting" /\ confPermit # Free
  /\ Gone(o)
  /\ UNCHANGED <<shown, confPermit, ProbeVars>>

ProbeTimesOut(o) ==
  /\ probes[o].at = "waiting" /\ confPermit # Free
  /\ Gone(o) /\ InvalidateIf(o)
  /\ UNCHANGED <<confPermit, ProbeVars>>

ProbeVerifies(o) ==
  /\ probes[o].at = "verifying"
  /\ IF ContextNow("proxy") = probes[o].context
       THEN probes' = [probes EXCEPT ![o].at = "publishing"] /\ UNCHANGED <<shown, confPermit>>
       ELSE Gone(o) /\ InvalidateIf(o) /\ confPermit' = Free
  /\ UNCHANGED ProbeVars

ProbePublishes(o) ==
  /\ probes[o].at = "publishing"
  /\ \E h \in Results : Update(o, [shown EXCEPT !.health = h])
  /\ Gone(o) /\ confPermit' = Free
  /\ UNCHANGED ProbeVars

----------------------------------------------------------------------------
(* inspect_current                                                         *)

InspectReads ==
  /\ inspector.at = "idle" /\ shown.context # None
  /\ inspector' = [at |-> "compare", op |-> shown.op, context |-> shown.context]
  /\ UNCHANGED <<world, shown, starter, probes, confPermit>>

InspectCompares ==
  /\ inspector.at = "compare"
  /\ inspector' = Rest
  /\ IF \/ ContextNow(inspector.context.mode) # inspector.context
        \/ inspector.context.mode = "proxy" /\ ~world.proxy
       THEN InvalidateIf(inspector.op)
       ELSE UNCHANGED shown
  /\ UNCHANGED <<world, starter, probes, confPermit>>

ProbeStep(o) ==
  \/ ProbeOverruled(o) \/ ProbeWorked(o) \/ ProbeTakesPermit(o) \/ ProbeTimesOut(o)
  \/ ProbeVerifies(o) \/ ProbePublishes(o)

StarterStep ==
  \/ StartSpawns \/ StartReady \/ TunReport \/ StartEnabled \/ StartFails
  \/ StartReportsFailure \/ ProbeReads \/ ProbeStarts \/ CommandLeaves

FeedbackNext ==
  \/ (\E mode \in {"proxy", "tun"} : StartBegins(mode))
  \/ StarterStep \/ RecheckBegins \/ StopCommand
  \/ ChangeConfiguration \/ CoreDies \/ ProxyTaken \/ Closes
  \/ (\E o \in 1..MaxOps : ProbeStep(o))
  \/ InspectReads \/ InspectCompares

\* a task of tokio goes on; the user, the core and the status query need not
FeedbackProgress == \E o \in 1..MaxOps : ProbeStep(o)

----------------------------------------------------------------------------
\* A result of the internet check is shown only by the operation it was begun
\* for, and for the configuration that is there when it is shown ("new
\* operations, Stop and exit invalidate old tasks; an old result does not update
\* the present health", docs of the start-up, line 20).
ResultBelongs ==
  shown'.health \in Results /\ shown'.health # shown.health =>
    shown'.op = shown.op /\ shown'.context.conf = world.conf

\* A health that was measured is shown with the context it was measured in, so
\* that the next status query can tell that it is no longer true.
ResultsHaveContext == shown.health \in Results => shown.context # None

\* The window does not say "checking" for ever.
CheckingEnds == shown.health = "Checking" ~> shown.health # "Checking"

=============================================================================
