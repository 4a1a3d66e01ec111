------------------------------ MODULE NodeTest ------------------------------
(***************************************************************************)
(* The node test of node_test.rs: one slot (NodeTestManager) holds the     *)
(* latest task; its worker sends a bounded number of probes at a time and  *)
(* ends when they are done, on a cancellation, on the time limit or when   *)
(* the scope it was started for (kind, configuration, mode, core run) is   *)
(* no longer the present one.  Worker::drop first writes the final phase   *)
(* and only later frees the slot: two steps here, as everything that runs  *)
(* without the lock of the task's snapshot.  The probes are sent in any    *)
(* order; the code sorts the names.                                        *)
(***************************************************************************)
EXTENDS Integers, Sequences, FiniteSets

CONSTANTS
  Nodes,        \* entries of the core's map that are no groups
  Groups,       \* entries that are
  Listings,     \* what the core may answer: the members of its groups, and
                \* which entries are nodes, neither built in nor messages
  Worlds,       \* what scope may read: settings, state, profile, core, policy
  Outcomes,     \* the final states of a node: Passed, Timeout, ...
  Concurrency,  \* probes in flight at a time
  Limits,       \* nodes of one test at most, for each kind
  MaxTests      \* bound: tasks begun

VARIABLES
  world,      \* what scope reads now
  starting,   \* the scope start_kind found before it asked the core for nodes
  tests       \* the tasks begun; the slot holds the last one

testVars == <<world, starting, tests>>

Kinds == {"manual", "ai"}
Phases == {"Running", "Cancelling", "Completed", "Cancelled", "Failed"}
NoScope == [kind |-> "none"]

\* scope: the conditions of a test of this kind, and what identifies it; a
\* fixed outbound of an old version refuses manual tests (require_manual_mode)
Scope(kind, w) ==
  IF /\ kind = "manual" => w.mode = "manual" /\ ~w.fixed
     /\ kind = "ai" => w.mode = "ai" /\ w.policy
     /\ w.run # 0 /\ w.active # "none" /\ w.routing # "direct"
    THEN [kind |-> kind, active |-> w.active, chosen |-> w.chosen, run |-> w.run,
          routing |-> w.routing]
    ELSE NoScope

Scopes == {Scope(kind, w) : kind \in Kinds, w \in Worlds} \ {NoScope}
Current(s) == Scope(s.kind, world) = s

NodeTestTypeOK ==
  /\ world \in Worlds /\ starting \in Scopes \union {NoScope}
  /\ Len(tests) <= MaxTests
  /\ \A i \in DOMAIN tests :
       /\ tests[i].scope \in Scopes
       /\ tests[i].phase \in Phases
       /\ tests[i].valid \in BOOLEAN /\ tests[i].active \in BOOLEAN
       /\ tests[i].signal \in BOOLEAN
       /\ DOMAIN tests[i].nodes \subseteq Nodes
       /\ \A n \in DOMAIN tests[i].nodes :
            tests[i].nodes[n] \in Outcomes \union {"Pending", "Testing"}
       /\ tests[i].todo \union tests[i].flying \subseteq DOMAIN tests[i].nodes
       /\ tests[i].at \in {"spawned", "loop", "left", "ended", "gone"}

NodeTestInit == world \in Worlds /\ starting = NoScope /\ tests = <<>>

----------------------------------------------------------------------------
(* collect_nodes_for: what the groups lead to, however they are nested     *)

AiGroup == "ai-group"
Roots(s, listing) ==
  CASE s.kind = "ai" -> {AiGroup}
    [] s.kind = "manual" /\ s.routing = "global" -> {"GLOBAL"}
    [] OTHER -> DOMAIN listing.members \ {"GLOBAL", AiGroup}

\* a visited group leads to its members; names the map lacks lead nowhere
Closed(S, listing) ==
  \A g \in S \intersect DOMAIN listing.members : listing.members[g] \intersect Groups \subseteq S
Visited(s, listing) ==
  {g \in DOMAIN listing.members :
     \A S \in SUBSET Groups : Roots(s, listing) \subseteq S /\ Closed(S, listing) => g \in S}
Collected(s, listing) ==
  {n \in listing.real \intersect Nodes : \E g \in Visited(s, listing) : n \in listing.members[g]}

----------------------------------------------------------------------------
(* The snapshot's own operations, each under its lock.                     *)

NewTask(s, names) ==
  [scope |-> s, phase |-> "Running", valid |-> TRUE, active |-> TRUE, signal |-> FALSE,
   nodes |-> [n \in names |-> "Pending"], todo |-> names, flying |-> {}, at |-> "spawned"]

\* Task::cancel
Cancelled(t, invalidate) ==
  [t EXCEPT !.valid = @ /\ ~invalidate,
            !.phase = IF t.active THEN "Cancelling" ELSE @,
            !.signal = TRUE]

\* Task::result: ignored once the task is being cancelled or is invalid
WithResult(t, n, state) ==
  IF t.phase = "Running" /\ t.valid THEN [t EXCEPT !.nodes[n] = state] ELSE t

Slot == Len(tests)
Occupied == Slot > 0 /\ tests[Slot].active
\* the same scope and still running: a second start joins it
Joins(s) == Slot > 0 /\ LET t == tests[Slot] IN t.scope = s /\ t.valid /\ t.phase = "Running"

----------------------------------------------------------------------------
(* start_kind, under the permit of the configuration                       *)

StartAsked ==
  /\ starting = NoScope
  /\ \E kind \in Kinds :
       /\ Scope(kind, world) # NoScope /\ ~Joins(Scope(kind, world))
       /\ starting' = Scope(kind, world)
  /\ UNCHANGED <<world, tests>>

\* NodeTestManager::begin with an occupied slot joins the task or refuses
BeginFresh == ~Occupied

\* the core has answered; no node or too many refuse, as a scope that changed
StartListed ==
  /\ starting # NoScope /\ starting' = NoScope
  /\ \E listing \in Listings :
       LET names == Collected(starting, listing)
       IN  IF names # {} /\ Cardinality(names) <= Limits[starting.kind]
              /\ Current(starting) /\ BeginFresh
             THEN Slot < MaxTests /\ tests' = Append(tests, NewTask(starting, names))
             ELSE UNCHANGED tests
  /\ UNCHANGED <<world>>

\* the core does not answer, or with a map that is malformed or too large
StartFails == starting # NoScope /\ starting' = NoScope /\ UNCHANGED <<world, tests>>

----------------------------------------------------------------------------
(* execute                                                                 *)

Move(i, t) == tests' = [tests EXCEPT ![i] = t] /\ UNCHANGED <<world, starting>>

Enter(i) ==
  LET t == tests[i] IN
  /\ t.at = "spawned"
  /\ Move(i, [t EXCEPT !.at = IF t.signal THEN "left" ELSE "loop"])

\* a probe is polled for the first time
Dispatch(i, n) ==
  LET t == tests[i] IN
  /\ t.at = "loop" /\ n \in t.todo
  /\ Cardinality(t.flying) < Concurrency
  /\ Move(i, [WithResult(t, n, "Testing") EXCEPT !.todo = @ \ {n}, !.flying = @ \union {n}])

Answer(i, n, state) ==
  LET t == tests[i] IN
  /\ t.at = "loop" /\ n \in t.flying
  /\ IF Current(t.scope)
       THEN Move(i, [WithResult(t, n, state) EXCEPT !.flying = @ \ {n}])
       ELSE Move(i, [Cancelled(t, TRUE) EXCEPT !.at = "left"])

\* the stream of probes is exhausted
Exhausted(t) == t.at = "loop" /\ t.todo = {} /\ t.flying = {}

\* mutant: it completes whatever a cancellation has dropped
FinishAnyway(i) ==
  Exhausted(tests[i]) /\ Move(i, [tests[i] EXCEPT !.phase = "Completed", !.at = "left"])

Finish(i) ==
  LET t == tests[i] IN
  /\ Exhausted(t)
  /\ Move(i, [t EXCEPT !.phase = IF @ = "Running" THEN "Completed" ELSE @, !.at = "left"])

HearSignal(i) ==
  /\ tests[i].at = "loop" /\ tests[i].signal
  /\ Move(i, [tests[i] EXCEPT !.at = "left"])

\* mutant: the scope is looked at only while a probe is in flight
MonitorOfProbes(i) ==
  /\ tests[i].at = "loop" /\ ~Current(tests[i].scope) /\ tests[i].flying # {}
  /\ Move(i, [Cancelled(tests[i], TRUE) EXCEPT !.at = "left"])

Monitor(i) ==
  /\ tests[i].at = "loop" /\ ~Current(tests[i].scope)
  /\ Move(i, [Cancelled(tests[i], TRUE) EXCEPT !.at = "left"])

Deadline(i) ==
  /\ tests[i].at = "loop"
  /\ Move(i, [Cancelled(tests[i], FALSE) EXCEPT !.at = "left"])

\* a panic or the end of the runtime drops the future where it stands
Abort(i) ==
  /\ tests[i].at \in {"spawned", "loop"}
  /\ Move(i, [tests[i] EXCEPT !.at = "left"])

----------------------------------------------------------------------------
(* Worker::drop, after the futures of the probes have been dropped         *)

DropPhase(i) ==
  LET t == tests[i]
      final == CASE t.phase = "Cancelling" -> "Cancelled"
                 [] t.phase = "Running" -> "Failed"
                 [] OTHER -> t.phase
  IN /\ t.at = "left"
     /\ Move(i, [t EXCEPT !.phase = final, !.at = "ended", !.flying = {},
                          !.nodes = [n \in DOMAIN @ |-> IF @[n] = "Testing" THEN "Pending" ELSE @[n]]])

\* the health check of the AI group writes its log line before this
DropSlot(i) ==
  /\ tests[i].at = "ended"
  /\ Move(i, [tests[i] EXCEPT !.active = FALSE, !.at = "gone"])

----------------------------------------------------------------------------
(* the commands of the window, and the callers that change the scope       *)

UserCancels == Occupied /\ Move(Slot, Cancelled(tests[Slot], FALSE))

\* by whoever stops the core or changes configuration or mode, at any moment
Invalidate == Slot > 0 /\ Move(Slot, Cancelled(tests[Slot], TRUE))

\* status; if the task it has compared is no longer in the slot by then, the
\* later one is hit, as by an Invalidate of anybody else
StatusReads ==
  /\ Slot > 0 /\ tests[Slot].valid /\ ~Current(tests[Slot].scope)
  /\ Invalidate

\* the core stops or dies, another profile, revision or mode is there; profiles
\* may change back while the same core runs
ScopeChanges ==
  /\ \E w \in Worlds : w # world /\ world' = w
  /\ UNCHANGED <<starting, tests>>

WorkerStep(i) ==
  \/ Enter(i) \/ Finish(i) \/ HearSignal(i) \/ Monitor(i) \/ Deadline(i) \/ Abort(i)
  \/ DropPhase(i) \/ DropSlot(i)
  \/ \E n \in Nodes : Dispatch(i, n) \/ \E o \in Outcomes : Answer(i, n, o)

NodeTestNext ==
  \/ StartAsked \/ StartListed \/ StartFails
  \/ UserCancels \/ Invalidate \/ StatusReads \/ ScopeChanges
  \/ \E i \in DOMAIN tests : WorkerStep(i)

\* what tokio and Drop do by themselves; the answers, the time limit and the
\* user are left unfair
WorkerProgress ==
  \E i \in DOMAIN tests : Enter(i) \/ HearSignal(i) \/ Monitor(i) \/ DropPhase(i) \/ DropSlot(i)

----------------------------------------------------------------------------
\* However often a test is cancelled and restarted, the probes in flight of
\* all workers together stay within the concurrency of one (the comment on
\* struct Worker, node_test.rs 124).
ProbesBounded ==
  Cardinality({p \in (1..MaxTests) \X Nodes : p[1] <= Len(tests) /\ p[2] \in tests[p[1]].flying})
    <= Concurrency

\* A test that says Completed has a final state for every node: no result was
\* dropped by a cancellation on the way.
CompletedIsComplete ==
  \A i \in DOMAIN tests :
    tests[i].phase = "Completed" => \A n \in DOMAIN tests[i].nodes : tests[i].nodes[n] \in Outcomes

\* A test whose scope is gone frees the slot by itself, whether or not a probe
\* ever answers, the time limit expires or somebody invalidates it.
Stale(i) == i <= Len(tests) /\ tests[i].active /\ ~Current(tests[i].scope)
StaleTestEnds == \A i \in 1..MaxTests : Stale(i) ~> ~Stale(i)

\* What the test duplicate_start_reuses_task_and_cancel_waits_for_worker_drop
\* (node_test.rs 583) says: once the worker is gone, a cancelled task is
\* Cancelled and no longer Cancelling.
CancelledEnds ==
  \A i \in DOMAIN tests : ~(tests[i].at = "gone" /\ tests[i].phase = "Cancelling")

=============================================================================
