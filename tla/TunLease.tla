------------------------------- MODULE TunLease -------------------------------
(***************************************************************************)
(* The TUN core of macOS: it is a child of the privileged helper           *)
(* (tun_service/daemon.rs), which serves one run at a time under the lease *)
(* of the client (runtime.rs 193-262, 485-542) and stops it when the       *)
(* heartbeats of that lease stay away.                                     *)
(*                                                                         *)
(* A request is a message of its own connection: it may be slow, overtake  *)
(* others, arrive after its sender has given up, or never.  The helper's   *)
(* handlers exclude each other by its mutex; start and stop of the client  *)
(* by runtime_transition.  Client, helper and core may die at any time.    *)
(***************************************************************************)
EXTENDS Naturals

CONSTANT MaxRuns        \* bound: attempts to start

ASSUME MaxRunsAssumption == MaxRuns \in Nat \ {0}

VARIABLES
  \* the client
  up, main, run,    \* alive; where start or stop is, and with which lease
  started,          \* leases drawn so far: 32 random bytes are never drawn twice
  lease, phase,     \* tun_lease; phase of MihomoRuntime
  gen, error,       \* HeartbeatState: generation; whose failure is published
  slot, flag,       \* tun_heartbeat_stop, and the flags of all workers
  beat, fails, own, \* each heartbeat worker: position, failures, generation
  \* the connections
  net, reply,       \* requests under way; what a waiting sender has received
  \* the helper
  core, heard,      \* lease of its child; age of last_heartbeat
  begun             \* starts between their two critical sections

client == <<up, main, run, started, lease, phase>>
worker == <<slot, flag, beat, fails, own>>
helper == <<core, heard, begun>>
vars == <<client, gen, error, worker, net, reply, helper>>

NoRun == 0
Runs == 1..MaxRuns
Main == 0                             \* the sender of start and stop
Senders == {Main} \union Runs
Requests == [op : {"start", "stop", "beat"}, run : Runs, from : Senders]
Request(op, r, s) == [op |-> op, run |-> r, from |-> s]

(* Generations grow by at most three in each run.                          *)
Generations == 0..(3 * MaxRuns)

ClientType ==
  /\ up \in BOOLEAN
  /\ main \in {"idle", "start", "fence", "begin", "unlease", "stop"}
  /\ run \in Runs \union {NoRun} /\ started \in 0..MaxRuns
  /\ lease \in Runs \union {NoRun}
  /\ phase \in {"Stopped", "Starting", "Running", "Stopping", "Crashed"}

HeartbeatType ==
  /\ gen \in Generations /\ error \in Runs \union {NoRun}
  /\ slot \in Runs \union {NoRun} /\ flag \in [Runs -> BOOLEAN]
  /\ beat \in [Runs -> {"none", "sleep", "call", "report", "send"}]
  /\ fails \in [Runs -> 0..3] /\ own \in [Runs -> Generations]

NetType == net \in SUBSET Requests /\ reply \in [Senders -> {"none", "ok", "error"}]

HelperType ==
  /\ core \in Runs \union {NoRun} /\ heard \in {"never", "recently", "long ago"}
  /\ begun \in SUBSET Runs

TypeOK == ClientType /\ HeartbeatType /\ NetType /\ HelperType

Init ==
  /\ up = TRUE /\ main = "idle" /\ run = NoRun /\ started = 0
  /\ lease = NoRun /\ phase = "Stopped"
  /\ gen = 0 /\ error = NoRun
  /\ slot = NoRun /\ flag = [r \in Runs |-> FALSE]
  /\ beat = [r \in Runs |-> "none"]
  /\ fails = [r \in Runs |-> 0] /\ own = [r \in Runs |-> 0]
  /\ net = {} /\ reply = [s \in Senders |-> "none"]
  /\ core = NoRun /\ heard = "never" /\ begun = {}

Send(op, r, s) ==
  /\ net' = net \union {Request(op, r, s)}
  /\ reply' = [reply EXCEPT ![s] = "none"]

(* A sender waits for a bounded time (send_bounded): unless a good answer  *)
(* has come it may give up at any moment, and the request may still be     *)
(* handled.                                                                *)
Succeeds(s) == reply[s] = "ok"
FailsOrTimesOut(s) == reply[s] # "ok"

---------------------------------------------------------------------------
(* The client: start and stop.                                             *)

Held == lease # NoRun /\ error = NoRun        \* is_running

Start ==
  /\ up /\ main = "idle" /\ started < MaxRuns
  /\ ~Held /\ phase \in {"Stopped", "Crashed"}
  /\ started' = started + 1 /\ run' = started'
  /\ phase' = "Starting" /\ main' = "start"
  /\ Send("start", run', Main)
  /\ UNCHANGED <<up, lease, gen, error, worker, helper>>

(* A good answer without a pid is an error too.  start_attempt makes a     *)
(* failed attempt retryable if nothing is owned.                           *)
StartFails ==
  /\ main = "start"
  /\ main' = "idle"
  /\ phase' = IF lease = NoRun THEN "Crashed" ELSE phase
  /\ UNCHANGED <<up, run, started, lease, gen, error, worker, net, reply, helper>>

Granted ==
  /\ main = "start" /\ Succeeds(Main)
  /\ lease' = run /\ main' = "fence"
  /\ UNCHANGED <<up, run, started, phase, gen, error, worker, net, reply, helper>>

(* HeartbeatState.invalidate, before the worker is told to end.            *)
Invalidate == gen' = gen + 1 /\ error' = NoRun

EndWorker == flag' = IF slot = NoRun THEN flag ELSE [flag EXCEPT ![slot] = TRUE]

Fence ==
  /\ main = "fence" /\ main' = "begin"
  /\ Invalidate
  /\ UNCHANGED <<up, run, started, lease, phase, worker, net, reply, helper>>

(* Mutant: the worker keeps the generation it saw before begin.            *)
BeginsLate ==
  /\ main = "begin" /\ main' = "idle"
  /\ EndWorker /\ slot' = run
  /\ Invalidate
  /\ beat' = [beat EXCEPT ![run] = "sleep"]
  /\ own' = [own EXCEPT ![run] = gen]
  /\ phase' = "Running"
  /\ UNCHANGED <<up, run, started, lease, fails, net, reply, helper>>

BeginHeartbeat ==
  /\ main = "begin" /\ main' = "idle"
  /\ EndWorker /\ slot' = run
  /\ Invalidate
  /\ beat' = [beat EXCEPT ![run] = "sleep"]
  /\ own' = [own EXCEPT ![run] = gen']
  /\ phase' = "Running"
  /\ UNCHANGED <<up, run, started, lease, fails, net, reply, helper>>

(* Stop of the user, of exit, or of a start that failed later on.  Another *)
(* stop of a stopped runtime is left out: it counts up the generation.     *)
Stop ==
  /\ up /\ main = "idle" /\ phase # "Stopped"
  /\ phase' = "Stopping" /\ main' = "unlease"
  /\ Invalidate
  /\ UNCHANGED <<up, run, started, lease, worker, net, reply, helper>>

TakeLease ==
  /\ main = "unlease"
  /\ EndWorker /\ slot' = NoRun
  /\ lease' = NoRun /\ run' = lease
  /\ IF lease = NoRun
     THEN main' = "idle" /\ phase' = "Stopped" /\ UNCHANGED <<net, reply>>
     ELSE main' = "stop" /\ Send("stop", lease, Main) /\ UNCHANGED phase
  /\ UNCHANGED <<up, started, gen, error, beat, fails, own, helper>>

(* An error is reported, and the lease has been given up all the same.     *)
StopEnds ==
  /\ main = "stop"
  /\ main' = "idle" /\ phase' = "Stopped"
  /\ UNCHANGED <<up, run, started, lease, gen, error, worker, net, reply, helper>>

(* status is called by every query; it publishes the end of a run.         *)
Status ==
  /\ up /\ lease # NoRun /\ error # NoRun
  /\ phase' = "Crashed"
  /\ UNCHANGED <<up, main, run, started, lease, gen, error, worker, net, reply,
                 helper>>

---------------------------------------------------------------------------
(* A heartbeat worker.                                                     *)
Goto(r, position) == beat' = [beat EXCEPT ![r] = position]

Wake(r) ==
  /\ beat[r] = "sleep"
  /\ IF flag[r] THEN Goto(r, "none") /\ UNCHANGED <<net, reply>>
     ELSE Goto(r, "call") /\ Send("beat", r, r)
  /\ UNCHANGED <<client, gen, error, slot, flag, fails, own, helper>>

(* Only the third failure in succession counts.                            *)
LastFailure(r) == fails[r] = 2

Answered(r) ==
  /\ beat[r] = "call"
  /\ \/ /\ flag[r] /\ Goto(r, "none") /\ UNCHANGED fails
     \/ /\ ~flag[r] /\ Succeeds(r)
        /\ fails' = [fails EXCEPT ![r] = 0] /\ Goto(r, "sleep")
     \/ /\ ~flag[r] /\ FailsOrTimesOut(r)
        /\ fails' = [fails EXCEPT ![r] = @ + 1]
        /\ Goto(r, IF LastFailure(r) THEN "report" ELSE "sleep")
  /\ UNCHANGED <<client, gen, error, slot, flag, own, net, reply, helper>>

(* Mutant: the failure is published whatever has begun since.              *)
ReportAnyway(r) ==
  /\ beat[r] = "report"
  /\ error' = r /\ Goto(r, "send")
  /\ UNCHANGED <<client, gen, slot, flag, fails, own, net, reply, helper>>

(* fail_if_current                                                         *)
Report(r) ==
  /\ beat[r] = "report"
  /\ IF gen = own[r] THEN error' = r /\ Goto(r, "send")
     ELSE Goto(r, "none") /\ UNCHANGED error
  /\ UNCHANGED <<client, gen, slot, flag, fails, own, net, reply, helper>>

(* The worker ends whatever the helper answers.                            *)
SendStop(r) ==
  /\ beat[r] = "send" /\ Goto(r, "none")
  /\ Send("stop", r, r)
  /\ UNCHANGED <<client, gen, error, slot, flag, fails, own, helper>>

---------------------------------------------------------------------------
(* The helper.  An answer reaches a sender that waits for this request.    *)
Waits(m) ==
  IF m.from = Main THEN main = m.op /\ run = m.run
  ELSE m.op = "beat" /\ beat[m.run] = "call"

Answer(m, what) ==
  reply' = IF Waits(m) THEN [reply EXCEPT ![m.from] = what] ELSE reply

Takes(m) == m \in net /\ net' = net \ {m}

(* Mutant: last_heartbeat is left to the first heartbeat.                  *)
SpawnSilently(m) ==
  /\ core' = m.run /\ begun' = begun \union {m.run}
  /\ heard' = "never" /\ UNCHANGED reply

Spawn(m) ==
  /\ core' = m.run /\ begun' = begun \union {m.run}
  /\ heard' = "recently" /\ UNCHANGED reply

(* A running core is never replaced; preparation may fail for itself.      *)
HandleStart(m) ==
  /\ m.op = "start" /\ Takes(m)
  /\ \/ core = NoRun /\ Spawn(m)
     \/ Answer(m, "error") /\ UNCHANGED helper
  /\ UNCHANGED <<client, gen, error, worker>>

(* The second critical section, 950 ms later: the core may be gone, be     *)
(* another's, or have reported a TUN error.                                *)
HandleStarted(r) ==
  /\ r \in begun /\ begun' = begun \ {r}
  /\ \/ core = r /\ Answer(Request("start", r, Main), "ok")
        /\ UNCHANGED <<core, heard>>
     \/ core = r /\ core' = NoRun /\ heard' = "never"
        /\ Answer(Request("start", r, Main), "error")
     \/ core # r /\ Answer(Request("start", r, Main), "error")
        /\ UNCHANGED <<core, heard>>
  /\ UNCHANGED <<client, gen, error, worker, net>>

HandleBeat(m) ==
  /\ m.op = "beat" /\ Takes(m)
  /\ Answer(m, IF core = m.run THEN "ok" ELSE "error")
  /\ heard' = IF core = m.run THEN "recently" ELSE heard
  /\ UNCHANGED <<client, gen, error, worker, core, begun>>

StopChild == core' = NoRun /\ heard' = "never"

(* Mutant: OP_STOP in the place of OP_STOP_LEASE.                          *)
StopWhateverRuns(m) ==
  /\ m.op = "stop" /\ Takes(m)
  /\ StopChild /\ Answer(m, "ok")
  /\ UNCHANGED <<client, gen, error, worker, begun>>

(* runtime_stop_lease: no core is success, another's core is an error.     *)
HandleStop(m) ==
  /\ m.op = "stop" /\ Takes(m)
  /\ IF core \in {NoRun, m.run} THEN StopChild /\ Answer(m, "ok")
     ELSE Answer(m, "error") /\ UNCHANGED <<core, heard>>
  /\ UNCHANGED <<client, gen, error, worker, begun>>

(* LEASE_TIMEOUT passes without a heartbeat.                               *)
Elapse ==
  /\ core # NoRun /\ heard = "recently" /\ heard' = "long ago"
  /\ UNCHANGED <<client, gen, error, worker, net, reply, core, begun>>

Watchdog ==
  /\ core # NoRun /\ heard = "long ago"
  /\ StopChild
  /\ UNCHANGED <<client, gen, error, worker, net, reply, begun>>

---------------------------------------------------------------------------
(* The core ends, or its log has a TUN error: refresh_child, which every   *)
(* handler calls first.                                                    *)
CoreEnds ==
  /\ core # NoRun /\ StopChild
  /\ UNCHANGED <<client, gen, error, worker, net, reply, begun>>

(* The helper dies and is started again without a run; launchd ends its    *)
(* children.                                                               *)
HelperDies ==
  /\ StopChild /\ begun' = {}
  /\ UNCHANGED <<client, gen, error, worker, net, reply>>

(* A request gets lost.                                                    *)
Lose(m) ==
  /\ Takes(m)
  /\ UNCHANGED <<client, gen, error, worker, reply, helper>>

(* The client dies; the next one knows nothing of its lease.               *)
Crash ==
  /\ up /\ up' = FALSE
  /\ main' = "idle" /\ run' = NoRun /\ lease' = NoRun /\ phase' = "Stopped"
  /\ error' = NoRun /\ slot' = NoRun
  /\ beat' = [r \in Runs |-> "none"]
  /\ UNCHANGED <<started, gen, flag, fails, own, net, reply, helper>>

Launch ==
  /\ ~up /\ up' = TRUE
  /\ UNCHANGED <<main, run, started, lease, phase, gen, error, worker, net,
                 reply, helper>>

---------------------------------------------------------------------------
MainStep ==
  StartFails \/ Granted \/ Fence \/ BeginHeartbeat \/ TakeLease \/ StopEnds

WorkerStep(r) == Wake(r) \/ Answered(r) \/ Report(r) \/ SendStop(r)

Handle(m) == HandleStart(m) \/ HandleBeat(m) \/ HandleStop(m)

Next ==
  \/ Start \/ Stop \/ Status \/ MainStep
  \/ \E r \in Runs : WorkerStep(r) \/ HandleStarted(r)
  \/ \E m \in net : Handle(m) \/ Lose(m)
  \/ Elapse \/ Watchdog \/ CoreEnds \/ HelperDies \/ Crash \/ Launch

(* Every wait of the client has a deadline, a worker sleeps for 4 s, time  *)
(* passes and the watchdog looks every 2 s.  No request need be handled,   *)
(* nobody need start, stop or ask.                                         *)
Fairness ==
  /\ WF_vars(MainStep) /\ \A r \in Runs : WF_vars(WorkerStep(r))
  /\ WF_vars(Elapse) /\ WF_vars(Watchdog)

Spec == Init /\ [][Next]_vars /\ Fairness

---------------------------------------------------------------------------
(* The failure that a client shows is that of the run it holds: workers    *)
(* and requests of earlier runs may end at any time later (HeartbeatState, *)
(* runtime.rs 500-527).                                                    *)
FailuresAreCurrent == main = "idle" => error \in {NoRun, lease}

(* No stop request, however late and whoever sent it, ends the core of a   *)
(* run that the client holds and knows no failure of (runtime_stop_lease   *)
(* against late answers, tun_service/mod.rs 176-178).                      *)
HeldRunIsSpared ==
  [][Held /\ main = "idle" /\ core = lease /\ core' # core
       => \A m \in net : m.op = "stop" => m \in net']_vars

(* A core of a lease that the client does not hold, because it crashed,    *)
(* gave up a start that was granted later, or could not deliver its stop,  *)
(* comes to an end (start_watchdog).                                       *)
OrphansEnd ==
  \A r \in Runs : core = r /\ lease # r ~> core # r \/ lease = r

(* A client whose core is gone without its doing learns of it (the         *)
(* heartbeat's three failures).                                            *)
LossIsNoticed ==
  \A r \in Runs : lease = r /\ core # r ~> lease # r \/ error = r
=============================================================================
