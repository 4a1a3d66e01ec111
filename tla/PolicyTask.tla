------------------------------ MODULE PolicyTask ------------------------------
(***************************************************************************)
(* The generation of an OpenAI policy (openai_policy.rs): a task that      *)
(* probes the nodes of a revision with a core of its own and then applies  *)
(* the ranking, while the configuration may change under it.               *)
(*                                                                         *)
(* What was read at the beginning is compared under the configuration      *)
(* permit before anything is saved; the permit is kept while the running   *)
(* core loads the result.  Nodes and their measurements are abstracted to  *)
(* the configuration they were measured for.                               *)
(***************************************************************************)
EXTENDS Naturals

CONSTANT MaxConf     \* bound: changes of the configuration

VARIABLES
  manager,     \* the two flags of OpenAiPolicyTaskManager, and its snapshot
  worker,      \* the spawned task, and what it has read
  canceller,   \* a command within cancel
  disabler,    \* a command within disable_policy
  conf,        \* revision, costs, mode and policy of the active profile
  genPermit,   \* who holds the configuration permit
  bench        \* the benchmark core and its directory

policyVars == <<manager, worker, canceller, disabler, conf, genPermit, bench>>

Marks == 0..MaxConf
Rankings == [rev : Marks, costs : Marks, modeRev : Marks]
NoRanking == [rev |-> 0, costs |-> 0, modeRev |-> 0]
Policies == [enabled : BOOLEAN, of : Rankings]
Working == {"load", "costs", "directory", "spawn", "ready", "checking", "bandwidth",
            "ranked", "apply", "compare", "loading"}
Ending == {"show", "free"}
Ends == {"Completed", "Failed", "Cancelled"}

Resting == [at |-> "idle", read |-> NoRanking, ended |-> "Failed"]

PolicyInit ==
  /\ manager = [running |-> FALSE, cancelled |-> FALSE, late |-> FALSE, shown |-> "Idle"]
  /\ worker = Resting /\ canceller = "idle"
  /\ disabler = [at |-> "idle", policy |-> [enabled |-> FALSE, of |-> NoRanking]]
  /\ conf = [rev |-> 0, costs |-> 0, modeRev |-> 0, ai |-> TRUE, last |-> 0,
             policy |-> [enabled |-> FALSE, of |-> NoRanking]]
  /\ genPermit = "free"
  /\ bench = [core |-> FALSE, dir |-> FALSE, left |-> FALSE]

----------------------------------------------------------------------------
(* OpenAiPolicyTaskManager: begin and cancel.  Of the snapshot only        *)
(* whether it says running, or how the last task ended, is kept.           *)

At(p) == worker.at = p
Goto(p) == worker' = [worker EXCEPT !.at = p]

\* start_generation, up to the exchange of begin: one task at a time
Start ==
  /\ genPermit = "free" /\ conf.ai /\ ~manager.running /\ At("idle")
  /\ genPermit' = "start"
  /\ manager' = [manager EXCEPT !.running = TRUE]
  /\ worker' = [Resting EXCEPT !.at = "begun", !.read.modeRev = conf.modeRev]
  /\ UNCHANGED <<canceller, disabler, conf, bench>>

\* the rest of begin, and the spawn
Begun ==
  /\ At("begun") /\ Goto("load") /\ genPermit' = "free"
  /\ manager' = [manager EXCEPT !.cancelled = FALSE, !.shown = "running"]
  /\ UNCHANGED <<canceller, disabler, conf, bench>>

\* cancel does nothing to a task that is not running; the task it has seen
\* may end, and another begin, before the flag is set
CancelBegins ==
  /\ canceller = "idle" /\ manager.running /\ canceller' = "user"
  /\ UNCHANGED <<manager, worker, disabler, conf, genPermit, bench>>

CancelStores ==
  /\ canceller # "idle" /\ canceller' = "idle"
  /\ manager' = [manager EXCEPT !.cancelled = TRUE]
  /\ genPermit' = IF canceller = "mode" THEN "free" ELSE genPermit
  /\ UNCHANGED <<worker, disabler, conf, bench>>

----------------------------------------------------------------------------
(* generate_and_apply and benchmark_nodes.                                 *)

\* the drop of BenchmarkCore: kill, wait, remove the directory
Dropped == [bench EXCEPT !.core = FALSE, !.dir = FALSE]

\* finish_error is told whether the task was cancelled
Leaves(how) ==
  worker' = [worker EXCEPT !.at = "show",
               !.ended = IF how = "Failed" /\ manager.cancelled THEN "Cancelled" ELSE how]

Fails == Leaves("Failed") /\ UNCHANGED <<manager, canceller, disabler, conf, genPermit>>

Load ==
  /\ At("load")
  /\ worker' = [worker EXCEPT !.at = "costs", !.read.rev = conf.rev]
  /\ UNCHANGED <<manager, canceller, disabler, conf, genPermit, bench>>

\* too few candidates, or check_cancelled, end the task
Candidates ==
  /\ At("costs")
  /\ worker' = [worker EXCEPT !.at = "directory", !.read.costs = conf.costs]
  /\ ~manager.cancelled
  /\ UNCHANGED <<manager, canceller, disabler, conf, genPermit, bench>>

NoCandidates == At("costs") /\ Fails /\ UNCHANGED bench

\* BenchmarkCore::start: what fails before the struct exists leaves the
\* directory, a core that is never ready is dropped
MakeDirectory ==
  /\ At("directory")
  /\ \/ Goto("spawn") /\ bench' = [bench EXCEPT !.dir = TRUE]
        /\ UNCHANGED <<manager, canceller, disabler, conf, genPermit>>
     \/ bench' = [bench EXCEPT !.left = TRUE] /\ Fails

Spawn ==
  /\ At("spawn")
  /\ \/ Goto("ready") /\ bench' = [bench EXCEPT !.core = TRUE]
        /\ UNCHANGED <<manager, canceller, disabler, conf, genPermit>>
     \/ bench' = [Dropped EXCEPT !.left = TRUE] /\ Fails

Ready ==
  /\ At("ready")
  /\ \/ ~manager.cancelled /\ Goto("checking") /\ UNCHANGED bench
        /\ UNCHANGED <<manager, canceller, disabler, conf, genPermit>>
     \/ bench' = Dropped /\ Fails

\* the last probe of a round; check_cancelled follows every one
Probed ==
  /\ worker.at \in {"checking", "bandwidth"}
  /\ \/ /\ ~manager.cancelled /\ At("checking")
        /\ Goto("bandwidth") /\ UNCHANGED bench
        /\ UNCHANGED <<manager, canceller, disabler, conf, genPermit>>
     \/ /\ ~manager.cancelled /\ At("bandwidth")
        /\ Goto("ranked") /\ bench' = Dropped
        /\ UNCHANGED <<manager, canceller, disabler, conf, genPermit>>
     \/ bench' = Dropped /\ Fails

Ranked ==
  /\ At("ranked")
  /\ \/ ~manager.cancelled /\ Goto("apply")
        /\ UNCHANGED <<manager, canceller, disabler, conf, genPermit>>
     \/ manager.cancelled /\ Fails
  /\ UNCHANGED bench

----------------------------------------------------------------------------
(* apply_policy_revision_checked.                                          *)

Release == genPermit' = "free"

ApplyBegins ==
  /\ At("apply")
  /\ \/ genPermit = "free" /\ genPermit' = "worker" /\ Goto("compare")
        /\ UNCHANGED <<manager, canceller, disabler, conf>>
     \/ genPermit # "free" /\ Fails
  /\ UNCHANGED bench

\* the mode, its revision, the active revision and the costs of the start
Unchanged ==
  conf.ai /\ worker.read = [rev |-> conf.rev, costs |-> conf.costs, modeRev |-> conf.modeRev]

Compare ==
  /\ At("compare")
  /\ IF Unchanged /\ ~manager.cancelled
       THEN Goto("loading") /\ UNCHANGED genPermit
       ELSE Leaves("Failed") /\ Release
  /\ UNCHANGED <<manager, canceller, disabler, conf, bench>>

\* the new revision of the profile, with its policy
NewRevision(policy) ==
  conf' = [conf EXCEPT !.rev = conf.last + 1, !.last = @ + 1, !.policy = policy]

\* apply_profile_config has an end: committed, or taken back
Applied ==
  /\ At("loading") /\ conf.last < MaxConf /\ Release
  /\ NewRevision([enabled |-> TRUE, of |-> worker.read]) /\ Leaves("Completed")
  /\ UNCHANGED <<manager, canceller, disabler, bench>>

TakenBack ==
  /\ At("loading") /\ Leaves("Failed") /\ Release
  /\ UNCHANGED <<manager, canceller, disabler, conf, bench>>

\* finish_success and finish_error: the snapshot, then the two flags; a new
\* task may begin between these (bound: one late store at a time)
FinishShows ==
  /\ At("show") /\ Goto("free")
  /\ manager' = [manager EXCEPT !.shown = worker.ended]
  /\ UNCHANGED <<canceller, disabler, conf, genPermit, bench>>

FinishFrees ==
  /\ At("free") /\ ~manager.late /\ worker' = Resting
  /\ manager' = [manager EXCEPT !.running = FALSE, !.late = TRUE]
  /\ UNCHANGED <<canceller, disabler, conf, genPermit, bench>>

FinishResets ==
  /\ manager.late
  /\ manager' = [manager EXCEPT !.cancelled = FALSE, !.late = FALSE]
  /\ UNCHANGED <<worker, canceller, disabler, conf, genPermit, bench>>

----------------------------------------------------------------------------
(* The other writers of the configuration.                                 *)

\* disable_policy loads the policy without the permit ...
DisableReads ==
  /\ disabler.at = "idle" /\ conf.policy.enabled
  /\ disabler' = [at |-> "read", policy |-> [conf.policy EXCEPT !.enabled = FALSE]]
  /\ UNCHANGED <<manager, worker, canceller, conf, genPermit, bench>>

\* ... and applies it, or not, whatever has become of it
DisableApplies ==
  /\ disabler.at = "read" /\ disabler' = [disabler EXCEPT !.at = "idle"]
  /\ \/ genPermit = "free" /\ conf.ai /\ conf.last < MaxConf
        /\ NewRevision(disabler.policy)
     \/ UNCHANGED conf
  /\ UNCHANGED <<manager, worker, canceller, genPermit, bench>>

\* a refresh or a rule of the profile, the costs (save_openai_costs)
ChangeConf ==
  /\ genPermit = "free" /\ conf.last < MaxConf
  /\ \/ NewRevision(conf.policy)
     \/ conf' = [conf EXCEPT !.costs = conf.last + 1, !.last = @ + 1]
  /\ UNCHANGED <<manager, worker, canceller, disabler, genPermit, bench>>

\* manual_outbound::set, which cancels the task at its end, the permit held
ChangeMode ==
  /\ genPermit = "free" /\ conf.last < MaxConf /\ canceller = "idle"
  /\ conf' = [conf EXCEPT !.ai = ~@, !.modeRev = conf.last + 1, !.last = @ + 1]
  /\ IF manager.running
       THEN genPermit' = "mode" /\ canceller' = "mode"
       ELSE UNCHANGED <<genPermit, canceller>>
  /\ UNCHANGED <<manager, worker, disabler, bench>>

----------------------------------------------------------------------------
WorkerSteps ==
  \/ Begun \/ Load \/ Candidates \/ NoCandidates \/ MakeDirectory \/ Spawn \/ Ready
  \/ Probed \/ Ranked \/ ApplyBegins \/ Compare \/ Applied \/ TakenBack
  \/ FinishShows \/ FinishFrees \/ FinishResets

PolicyNext ==
  \/ Start \/ WorkerSteps \/ CancelBegins \/ CancelStores
  \/ DisableReads \/ DisableApplies \/ ChangeConf \/ ChangeMode

PolicyTypeOK ==
  /\ manager \in [running : BOOLEAN, cancelled : BOOLEAN, late : BOOLEAN,
                  shown : Ends \union {"Idle", "running"}]
  /\ worker \in [at : Working \union Ending \union {"idle", "begun"},
                 read : Rankings, ended : Ends]
  /\ canceller \in {"idle", "user", "mode"}
  /\ disabler \in [at : {"idle", "read"}, policy : Policies]
  /\ conf \in [rev : Marks, costs : Marks, modeRev : Marks, ai : BOOLEAN, last : Marks,
               policy : Policies]
  /\ genPermit \in {"free", "start", "worker", "mode"}
  /\ bench \in [core : BOOLEAN, dir : BOOLEAN, left : BOOLEAN]

\* A ranking is applied to the configuration it was measured for: neither a
\* new revision, nor new costs, nor a mode that was left and entered again
\* while the probes ran (openai_policy.rs 418-427, manual_outbound.rs 128-133).
RankingIsCurrent ==
  conf'.policy.enabled /\ conf'.policy # conf.policy =>
    conf'.policy.of = [rev |-> conf.rev, costs |-> conf.costs, modeRev |-> conf.modeRev]

\* No probing core without its task, and none while a ranking is applied;
\* a task at work is shown as running.
BenchmarkHasTask ==
  /\ bench.core => worker.at \in {"ready", "checking", "bandwidth"}
  /\ worker.at \in Working => manager.running /\ manager.shown = "running"
=============================================================================
