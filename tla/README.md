# Serylane in TLA+

Serylane is a desktop client (Tauri: a Rust process and a TypeScript window) that
supervises a Mihomo proxy core.  It decides when the core runs, points the
operating system at it, and must leave the machine as it found it after a stop, a
crash, the end of the Windows session or an update.  Nearly everything that can go
wrong there is a matter of order: a start that overtakes an exit, a restore that
overtakes a Stop, an answer that is taken for that of a later question, a crash
between two registry values.

These modules specify that part of the program, `src/src-tauri/src/*.rs`.  TLC
checks them on small instances; TLAPS proves the central invariants for every
value of the constants.  Line numbers below are those of the source.

    tlc -workers 2 -config MCSessionControl.cfg MCSessionControl
    tlapm SessionControlProofs.tla

## 1. Inventory

| Component | State it keeps | Operations | Meets | What makes it correct | Modules |
|---|---|---|---|---|---|
| Process gate (`lifecycle.rs`, `windows_lifecycle.rs`) | one atomic word (epoch, PREPARING/CLOSING/UPDATING), the spawn mutex | prepare, cancel, close, pause_update, ticket, check, admission | everything that creates a child process or adopts a long observation | no reason is lost, exit is terminal, no work of an earlier epoch is revived, a caller never waits for ever | AdmissionGate, ProcessLifecycle |
| Session control (`lib.rs`, `session_resume.rs`, the permit of `user_rules.rs`) | configuration permit, `runtime_transition`, generation and phase of the restore, `desired_running`, `clean_shutdown`, the mode | start, stop, set mode, bootstrap and restore, exit cleanup | gate, core, platform, storage | a Stop is final, nothing follows cleanup, the clean mark is true, a running core is wanted, nobody waits for ever | SessionControl |
| Core supervisor (`runtime.rs`, `binary_probe.rs`) | child, phase, run identity, error, cached version of the file, heartbeat thread | start, start_tun, stop, status, validate, probe | gate, TUN helper | no core is lost, the phase is true, a core has been checked before it runs | CoreRun, CoreProbe, TunLease |
| System Proxy (`platform.rs`) | registry values and lease file; network services and snapshot file | enable, automatic enable, restore, transaction with rollback | other proxy clients, crashes | the user's settings come back, a client that took over is left alone | ProxyLease, UnixProxy |
| TUN helper (`tun_service/*`, `macos_service.rs`) | lease of the client, daemon's child, staged files, probe cache | start, heartbeat, stop, watchdog, status, register, remove, repair | core supervisor | no core without a living client, no late answer of an old helper, nothing unchecked runs as root | TunLease, HelperProbe, HelperStaging |
| TUN readiness (`tun_readiness*`, `network_safety.rs`) | none that lasts | checks of adapter, routes, DNS, internet | session control | a start is accepted for what this core and this adapter have shown | TunStart |
| Storage (`storage.rs`, `models.rs`) | state.json, settings.json, profiles, observations, deletion journal | atomic write, save, delete and recover, record observation | everybody | a crash leaves the old or the new file, a deletion is completed or undone | AtomicFile, ProfileDeletion, SubscriptionTask |
| Configuration transactions (`user_rules.rs`, `profile_service.rs`, `effective.rs`, `config.rs`) | rules, active revision, the running configuration | build, transact, activate, refresh, roll back | controller, storage, permit | files and core agree after every outcome; what is built refers to nothing that is gone | ConfigTransaction, EffectiveConfig |
| Subscriptions (`subscription*.rs`) | task phase, cancel flag, status, quota | download, cancel, commit, import, edit, poll | storage | cancel or commit, never both; an answer belongs to its source | SubscriptionTask, SubscriptionFetch |
| Software update (`app_update*`, `update_receipt.rs`, `macos_upgrade.rs`, ...) | session, receipt, marker, bundle and its backup | check, download, install, recover | gate, core, services | an interrupted installation loses neither application nor services | UpdateInstall |
| Startup and status (`startup*.rs`, `connection_feedback.rs`) | the login entry of the system, the setting, operation numbers | save, migrate, repair; begin, update, probe, invalidate | runtime, system settings | setting and entry agree; a late probe never overwrites a newer state | LoginEntry, ConnectionFeedback |
| Nodes (`node_*.rs`, `manual_outbound.rs`) | current test, results, selection | begin, cancel, invalidate, select | controller, configuration | a result belongs to its test, a dead test frees its place | NodeTest, StabilityRound |
| Domain routing (`domain_routing*`) | document, revision | save, apply, verify, publish | controller, gate | a verification is published for the configuration it saw | DomainRouting |
| OpenAI policy, stability, cost (`openai_*.rs`) | task, ranking, health of nodes, epoch, schedule | generate, disable, tick, probe, record, switch | nodes, configuration | a ranking is applied to what it measured, evidence is not carried across configurations | PolicyTask, NodeRanking, StabilityRound |
| Local routing (`local_routing/*`) | document, listener, requests, Codex files and their lease | start, stop, forward, take and restore files | configuration | no request is cut, foreign edits are kept | LocalRoute |
| Program proxy, application binding | list with revision, running programs, launch receipts | list, save, delete, launch | core, configuration | an entry runs once, a handle is its own | ProgramProxy |
| Traffic, logs, controller client, errors | counters, files | poll, rotate, call | - | - | - |
| Window, tray, front end, scripts, installer, website | presentation, packaging | - | commands | - | - |

How they interact.  Every change of the configuration or of the running core takes
the *configuration permit* (`user_rules.rs` 207-236): an owner token taken without
waiting, except by the manual commands, which poll for it for up to 70 s if they
have just cancelled a restore.  Changes of process, system proxy and state.json
take the *runtime_transition* mutex through `while_open`, which refuses once the
session is ending.  Creating a child process additionally passes the *process
gate*, an atomic word that the window procedure can change without waiting for
anybody.  A manual command also increments the *generation* of the restore; the
restore notices at its next await and undoes what it did.  Whatever waits for a
network or a core without the permit (node tests, subscription tasks, policy tasks,
rounds of the failover, probes) remembers what it was started for and compares
before it writes: a number, an epoch, a fingerprint, a revision or a time.

Hard behaviours: threads, async tasks and the window procedure interleave freely;
the process may die anywhere; the exit waits four seconds for cleanup and then
dies too; other programs write the same registry values; a write of four registry
values and a file is not atomic.  PROJECT.json lists each at its line.

## 2. Plan

Done, in this order:

1. `AdmissionGate` (abstract), `ProcessLifecycle`, `ProcessLifecycleProofs`;
2. `SessionControl`, `SessionControlProofs`;
3. `ProxyLease`, `ProxyLeaseProofs`; `ProfileSet` (abstract), `ProfileDeletion`;
   `AtomicFile`; `ConfigTransaction`, `ConfigTransactionProofs`; `TunLease`,
   `TunLeaseProofs`;
4. the background work, composed by `MCBackground`: `NodeTest`, `UpdateInstall`,
   `HelperProbe`, `SubscriptionTask`, `ConnectionFeedback`, `DomainRouting`; and
   `BackgroundProofs`;
5. the services, composed by `MCServices`: `LoginEntry`, `SubscriptionFetch`,
   `LocalRoute`, `PolicyTask`, `StabilityRound`, `NodeRanking`, `TunStart`,
   `HelperStaging`, `UnixProxy`, `CoreRun`, `CoreProbe`, `EffectiveConfig`,
   `ProgramProxy`; and `StoreProofs`, about the deletion of a profile, the login entry and
   the local route, and `ServicesProofs`, about these and nine more of the thirteen.

Next, most important first:

6. The plans of `UnixProxy` as functions, so that its part of `ResultsAreSound` can be
   proved in `ServicesProofs`.
7. state.json as one record, written under the permit, under the mutex and under
   neither (`storage.rs` 686-730, `lib.rs` 192, 458).
8. The traffic monitor's session (`traffic_monitor.rs` 131-142) against a restart of the
   core; the cache of the application picker.

## 3. The modules

### AdmissionGate, ProcessLifecycle

`ProcessLifecycle` is `lifecycle.rs` at the grain of the hardware: a load, a
compare-and-swap and a `try_lock` are each a step.

| Model | Code |
|---|---|
| `gate.epoch`, `gate.reasons` | `Lifecycle.state`; the epoch is `state / 8` |
| `spawn` | `Lifecycle.spawn` and the `MutexGuard` inside `ProcessGuard` |
| `seen[t]` | the local `old` of `flag`, the `ticket` of `admission` and `pause_update` |
| `StartFlag`, `FlagReturnsFalse`, `FlagSwaps`, `FlagRetries` | `flag` (86-108), called by `prepare`, `cancel`, `close` and the drop of an `UpdatePause` |
| `PauseLoads`, `PauseSwaps`, `PauseFails`, `DropPause` | `pause_update` (110-123) and `UpdatePause::drop` |
| `TakeTicket`, `CheckBeforeLock`, `TryLock`, `WouldBlock`, `TimedOut`, `Admitted`, `Interrupted` | `admission` (145-169) |
| `ReleaseGuard` | `spawn_for` of `windows_process.rs` returns |
| `Observe`, `Adopt` | `ticket`, long work, `check`: diagnostics and domain routing |

`AdmissionGate` says the same without words and locks: a *live* request can be
granted, every change of the reasons kills all live requests, one creation runs at
a time, a closed gate stays closed.  `ImplementsGate` is the refinement: a request
is live while its ticket equals the word.

The 61-bit epoch is a natural number: it would wrap after 2^61 changes.

### SessionControl

| Model | Code |
|---|---|
| `desired`, `clean`, `mode` | `desired_running` and `clean_shutdown` of state.json, `network_mode` of settings.json |
| `proxy` | the operating system uses a proxy we applied (the lease of `platform.rs`) |
| `gate` | `PROCESS_LIFECYCLE` seen by `while_open`: open, held by a session query or an installation, closed (`shutting_down` is set with it in `cleanup_app`) |
| `permit`, `lock` | owner of the configuration permit; holder of `runtime_transition` |
| `gen`, `phase`, `plan` | `ResumeState` and the `ResumePlan` of the restore task |
| `core` | the start whose run is alive; `NoOne` when no child is |
| `Begin`, `Acquire`, `AcquireFails`, `AcquireTimesOut` | `acquire_manual_configuration` and its polling loop |
| `MarkUnclean` ... `ApplyFails` | `start_runtime_for_settings`, shared by Start and restore |
| `SettleStart`, `RecordIntent`, `IntentRefused` | the end of `start_active_profile` |
| `StopIntent`, `StopRuntime` | `stop_runtime_with_permit` |
| `SwitchReady`, `Switch`, `SwitchFails`, `SetMode`, `ModeFails` | `set_network_mode` with and without a core |
| `DelayElapsed` ... `Undo` | `restore`, `restore_attempt`, `restore_preflight` |
| `Launch` | `setup`: recovery of an unclean end, unclean mark, bootstrap |
| `HoldGate`, `ReleaseGate`, `BeginShutdown`, `Cleanup`, `ProcessEnds` | the window procedure, an installation, `cleanup_app`, `cleanup_resources`, exit or crash |

An action lasts from one point where another thread can intervene to the next: an
await, a mutex taken or released, a poll.  `lock` stays taken over two actions
where the code holds the mutex over a write of state.json and the work that
follows it, because a crash may come in between.  `stopped` is a history variable:
a Stop has returned `Ok` and no Start has got the permit since.

### ProxyLease

The Windows branch of `platform.rs`.  `reg` has the four values that Serylane
writes, one at a time in the order of `restore_snapshot`; `lease` is
`system-proxy-snapshot.json`; `txn` is what `proxy_transaction` captured and `guard`
the `ResumeProxyGuard`.  `Owns`, `Restoration`, `AppliedProxy` and `Available`
translate the functions of those names.  An error or a crash may come at every
write.  `ExternalRoute` and `ExternalBypass` are the user and other clients;
`users` remembers what they chose last.

Four things the journal cannot cover are recorded in `faults`, and what is claimed
afterwards is less, or nothing:

- *raced*: a change between the capture of an operation and its last write.  The
  registry has no compare-and-swap.
- *interrupted*: a change while an uncommitted lease is on disk.
  `windows_transition_matches` accepts each value separately, so it can take a
  mixture of another client's values and ours for an interrupted write of ours.
- *torn*: a rollback that fails or crashes.  It is not journaled itself.
- *reapplied*: an enable over our own proxy after the bypass list was edited; see
  the run `bypass_edits`.

### ProfileSet, ProfileDeletion

`ProfileDeletion` is the deletion of a profile (`storage.rs` 402-511) with every write
as a step: journal, state.json, active.yaml, settings.json, directory, purge, journal.

| Model | Code |
|---|---|
| `state`, `yaml`, `pinned`, `journal` | state.json (selection and intent), runtime/active.yaml (whose), `manual_outbound` of settings.json, profile-deletion.json |
| `where[p]` | the directory of the profile: in place, moved aside, removed |
| `phase`, `running` | the process is down, completes a journal in `setup`, or takes commands; the core runs |
| `Delete`, `StopFirst`, `StopFails`, `Refuse` | `delete_profile` (`lib.rs` 426-477) and the first checks of the transaction |
| `Journal`, `ClearState` ... `Move` | `delete_profile_transaction`, `commit_profile_deletion` |
| `Purge`, `Unjournal` | `finish_profile_deletion` |
| `UndoSettings` ... `UndoJournal` | the undo of a commit that failed, which stops at its own first failure |
| `Launch` | `recover_profile_deletion`; a failure there aborts the launch |

The other commands (`Add`, `Select`, `Unpin`, `Start`, `Stop`) are one step each: the
permit keeps them out of a deletion.  A write has three outcomes: done, not done, or done
with an error (the removal of the backup failed).  The undo's rename of the directory is
left out: the rename is the last step of the commit, nothing after it can fail.

`ProfileSet` says the same without files: a profile exists or is gone, the selected one
exists, a deletion happens, does not happen, or stays announced for the next launch.
`ImplementsProfileSet` is the refinement: a profile exists until its directory is moved or
the process ends with a journal that names it; the selection during a transaction is
the one it would restore; a deletion is announced while a journal remains in a process
that is not working on it.

### AtomicFile

`write_private_atomic` (`storage.rs` 755-791) call by call: create the temporary file,
look for the file, remove a stale backup, rename the file aside, rename the new one into
place, put the old one back, remove the backup.  Each call may fail, the process may die
between any two.  Commands write under the permit; `settings` (57-74), which every status
query calls, does not take it and writes the defaults when it finds no file.
`latest` (what a command put in place last), `before` and `faults` are history.  The model
is of a JSON file that exists since the first launch and is never removed: not of
active.yaml, which is removed without its backup.  `RemoveStale` joins the test for the
backup and its removal.

### ConfigTransaction

A change of the configuration while the core may be running.

| Model | Code |
|---|---|
| `selection`, `meta`, `saved` | state.json, metadata.json of each profile, the saved revisions |
| `doc`, `yaml` | user-rules.json and the mode of settings.json; runtime/active.yaml |
| `core` | the configuration that the core has loaded |
| `job`, `old` | locals of the command: candidate and context of `capture_context`; what its undo restores |
| `SelectRevision`, `Renew`, `SaveRules`, `SetMode` | `activate_profile` and `rollback_profile`; a refresh and a new OpenAI policy; `save_with_permit`; `manual_outbound::set` |
| `Validate`, `Load`, `Check`, `Commit`, `Restore` | `apply_profile_config_inner`, `transact`, `restore_after_failure` |
| `Order`, `Put`, `Save` | `save_revision`, `select_revision`, `save_user_rules`, `save_settings`, write by write |
| `Restores`, `Undo` | the undo of `commit_active_selection`, `save_with_permit`, `persist_candidate_with_configuration`, `commit_selection` |

A configuration is what it was built from: profile, source, policy, rules, mode.
`EffectiveOf` is what a start builds from the files, `Candidate` what the command builds.
Two history variables say when the files were left half-way (`hurt`: a crash within a
commit, an undo that failed) and when the core could not be taken back (`suspect`); each
is cleared by the command that repairs it.  "halfway" is the error of `commit_selection`
when the settings have been replaced and their backup cannot be removed: the code passes
it on without an undo, core and selection go back and the settings do not.

### TunLease

The TUN core of macOS: a client that may die, a privileged helper that may die, and a
core that the helper owns and that may end.

| Model | Code |
|---|---|
| `lease`, `phase` | `tun_lease` and the phase of `MihomoRuntime`; a lease is the number of its run, since 32 random bytes are never drawn twice |
| `gen`, `error` | `HeartbeatState`: generation, and whose failure it publishes |
| `slot`, `flag[r]` | `tun_heartbeat_stop`, and the flag that each worker keeps a clone of |
| `beat[r]`, `fails[r]`, `own[r]` | the worker of a run: between which two calls it is, its count of failures, its generation |
| `main`, `run` | where start or stop is (`runtime_transition` admits one), and its lease |
| `net`, `reply` | requests under way; what has arrived for a sender that still waits |
| `core`, `heard` | `HelperRuntime.child` with its `lease_id`; `last_heartbeat` against LEASE_TIMEOUT |
| `Start`, `Granted`, `Fence`, `BeginHeartbeat`, `StartFails` | `start_attempt`, `start_privileged_tun`, `start_tun_heartbeat` |
| `Stop`, `TakeLease`, `StopEnds`, `Status` | `stop`, `stop_tun_heartbeat`, `status` |
| `Wake`, `Answered`, `Report`, `SendStop` | the loop of the worker, `fail_if_current` |
| `HandleStart`, `HandleStarted` | `runtime_start`, which gives up the helper's mutex for 950 ms |
| `HandleBeat`, `HandleStop`, `Watchdog`, `CoreEnds` | `runtime_heartbeat`, `runtime_stop_lease`, `start_watchdog`, `refresh_child` |

Requests are a set, because each has a connection of its own: they overtake each other,
arrive when their sender has long given up, or are lost.  Equal requests count as one:
the second would find what the first has left.  An answer is kept only for a sender that still waits for it.  A
sender gives up whenever it likes unless a good answer is there, which stands for its 5 s
or 135 s.  A stop of a stopped runtime is left out; it would only count up the
generation.

### The background work: MCBackground

`MCBackground` is a disjoint sum of seven components that share no state in the code:
`AtomicFile`, which it extends, and six that it instantiates over variables in common.
`focus` says which one a behaviour is about; the others stand still.  Each is a thread or
a task that works without the lock of what it reports on.

**NodeTest** (`node_test.rs`).  A test is a task of the one slot of `NodeTestManager`.

| Model | Code |
|---|---|
| `world` | what `scope()` reads: mode, a fixed outbound of an old version, policy, profile and revision, run of the core, routing; `Scope` is its answer for a kind of test, or its error |
| `starting` | the scope that `start_kind` found before it asked the core |
| `Listings`, `Collected` | the core's map of entries with its nested groups; the names that `collect_nodes` reaches from the roots of the kind |
| `tests[i]` | a `Task`: results, phase, `valid`, `active`, the signal; `todo`, `flying`, `at` are locals of `execute` |
| `StartAsked`, `StartListed`, `StartFails` | `start_kind`: the scope before and after the core is asked for its nodes |
| `Enter`, `Dispatch`, `Answer`, `Exhausted`, `Finish`, `HearSignal`, `Monitor`, `Deadline` | `execute` and its select loop |
| `DropPhase`, `DropSlot`, `Abort` | the two halves of `Worker::drop`, and the task's abortion |
| `UserCancels`, `Invalidate`, `StatusReads` | `cancel`, `invalidate`, `status` |

**UpdateInstall** (`app_update.rs`, `app_update/transaction.rs`, `update_receipt.rs`,
`macos_update_install.rs`, `macos_upgrade.rs`).  `session` is the window's state, `disk` what
survives a crash: bundle, backup, receipt, marker of the detached services, the services
themselves.  `EnterStage` ... `Restart` are the steps of `run_install`; `StepFails`,
`UndoFiles`, `RetryOffered`, `FailInstall` its failure paths; `RecoverLogin`, `RecoverTun`,
`RecoverMarker`, `Leave` are `macos_upgrade::recover`, which an installation runs as its
rollback and a launch runs after a crash.  `touched` and `wanted` are history.

**HelperProbe** (`tun_service/lifecycle.rs`, `admin.rs`, `macos_service.rs`).  `flight` is the
request that readers share, `generation` the fence against a request that was sent before a
mutation; `service` is the system's registration, `pending` the flag that outlives the
caller's timeout.  Every helper process has a number, so that an answer says whose it is.

**SubscriptionTask** (`subscription_task.rs`, `profile_service.rs` 246-560,
`subscription_quota.rs`, `subscription_edit.rs`, `storage.rs` 310-384).  A refresh, an import
and the quota poller ask servers without the permit and then compare under it; `Cancel` and
`BeginCommit` race for the flag; `status` is the observation file with the start of the
request each entry came from; `clock` counts the moments that somebody remembers.
`Together` bounds which of the operations run in one behaviour.

**ConnectionFeedback** (`connection_feedback.rs` and its callers in `lib.rs`).  `shown` is
`State`; `starter` the command that starts or switches; `probes[op]` the probe of an
operation, which looks, waits for the permit, verifies and publishes only for the operation
and the context it was made for; `inspector` a status query that reports a core it found
gone.

**DomainRouting** (`domain_routing.rs`, `ingress.rs`).  `doc` is domains.json with its
revision, `editor` the transaction that loads, saves and takes back, `query` is
`verified_state`, which holds no permit and compares fingerprint and revision after its
awaits.

### The services: MCServices

A second disjoint sum, over `ProfileDeletion` and thirteen components.

**LoginEntry** (`startup.rs`, `startup_macos.rs`).  The setting and the system's list are two
stores.  `entry` and `allowed` are the values of the Run key with their StartupApproved
values on Windows, the SMAppService and the LaunchAgent with the user's switches on macOS;
`job` is the command with its steps and what it must put back.  `WindowsEnable` ... `RestoreRun`
and `MacEnable` ... `RemoveLegacy` are the two platforms; migration, repair, upgrade, the
clean-up of the installer and the user's own switch complete it.

**SubscriptionFetch** (`subscription.rs`).  One download: the attempts of `plan`, the single
`retry`, redirects, 403, 429/503, 304, a body that stalls or is refused, cancellation, and
the three deadlines.  `Tick` waits for timers that are due, so that a deadline is heard in
time, as `select!` does.  `UsageOf` reads the userinfo header.

**LocalRoute** (`local_routing/*`).  `relay` and `request` are the server with its permits and
the guard of each request; `config` and `lease` the two keys in the configuration of another
program and the note of what was there; `command` the holder of the manager's lock, step by
step, with crash and launch.  CODEX_ATTACH is off in the present build, which only takes
back what an earlier one has left; `attachable` says which build runs.

**PolicyTask** (`openai_policy.rs`).  The task that measures the nodes of a revision and
applies the ranking: two flags and a snapshot (`manager`), the benchmark core and its
directory (`bench`), the comparison under the permit, `cancel` and `disable_policy` with
their own stale reads, changes of the configuration at any time.

**NodeRanking** (`openai_policy.rs` 488-716 and 921-1080, `openai_cost.rs`, `node_metadata.rs`,
`effective.rs` 423-480).  A pipeline of pure functions: candidates, scores, the value window,
diverse servers, and what a later build keeps after nodes and prices have drifted.

**StabilityRound** (`openai_stability.rs`, `node_selection.rs`).  A round reads, asks the core,
compares, records, chooses and switches; an observation of a request and a manual choice go
on meanwhile.  `health` has failures and cooldowns per node.  ENHANCED_STABILITY is off in
the present build; the module is about the code behind it, and about
`node_selection::select`, which is on.

**TunStart** (`lib.rs` 546-800, `tun_readiness*`, `network_safety.rs`).  The acceptance of a
TUN start on Windows within two budgets, counted in ticks: adapter, routes, DNS answers with
their validation, the same adapter again, then the internet with its retries.  Meanwhile
the core dies, the adapter is made anew, another VPN takes the routes.

**HelperStaging** (`tun_service/daemon.rs`).  What a client sends is checked, core and
configuration are staged by way of files of their own, validated and run; error lines in the
log end a core.  The helper may die between any two files.

**UnixProxy** (`platform.rs`, macOS and GNOME).  Settings of each service, a switch and a
server per protocol, one command at a time; the snapshot names no owner.  `holes`, `lost`,
`edited` are history: what no snapshot covers is claimed nothing of.

**CoreRun**, **CoreProbe** (`runtime.rs`, `binary_probe.rs`).  The fields of `MihomoRuntime` are
behind a lock each and are written one after the other; `StatusReaps` comes at any time.
The validation of a configuration is a process of its own that a start or a task waits for.
A version of the core's file is kept with the identity of the file and its time.

**EffectiveConfig** (`effective.rs`, `user_rules.rs` 524-600, `domain_routing.rs` 189-250).
The build of the running configuration as a function of source, settings, policy, rules and
routes.  `Cleaned`, `WithOpenAi`, `WithUserRules` and `WithRoutes` are its passes in their
order, `OwnFields`, `PreparedDns` and `OwnTun` the fields it writes itself, `Usable` every
refusal (`ShapeFits` those for a section of the wrong type).  A rule is a set of destinations
with a target, so that the order of rules can be compared with what they must mean for each
destination.  `Build` and `Edit` alternate: TLC builds every pair of the instance.

**ProgramProxy** (`program_proxy.rs`, `app_binding/macos.rs`).  `doc` is the list with its
revision, old schema and entries that are still paths; `handles` what is known of the process
of an entry, `tries` the requests to open an application on macOS, with their receipts.  A
command is a thread: `List` and `Migrate`, `Save` and `Write`, `Delete`, and the start with its
look at the system, its reservation, the spawn or the request, the wait or its timeout, and
the `Snapshot` that ends each of them.  Every call may fail.  The core stops, dies and comes
back at another port; programs start and end by themselves.

What the code shows in corners, kept in the models as it is, and no property claims
otherwise:

- *Login*: a refused save from on to off on macOS registers the service anew as its rollback
  and so revives a login disabled through launchctl (`startup_macos.rs` 186).
- *Local route*: a crash between the rewriting of the configuration and the removal of the
  lease answers Conflict ever after if the file was edited since.
- *Policy*: a cancellation between the two stores of `finish_success` (`openai_policy.rs`
  221-222) is lost; `disable_policy` and `set_openai_stability` load the policy before
  they have the permit and write the copy back.
- *Stability*: a profile renewed and rolled back within one round keeps evidence of the other
  server (`openai_stability.rs` 242); a lost answer of the controller rolls back a choice that
  took effect (`node_selection.rs` 173).
- *TUN start*: the last route check takes whatever adapter exists then (`lib.rs` 766).
- *Helper*: the thread that reads a killed core's output is not joined; a late error line ends
  the next core.
- *System Proxy of macOS and GNOME*: on macOS services are enumerated anew by every command
  while the snapshot covers those of the first; an automatic resume after a half-failed
  release replaces the snapshot by the half-restored state; networksetup cannot write an
  empty server; the deletion of a profile looks once whether the proxy is as Serylane left
  it (`lib.rs` 1035, `platform.rs` 249-268) and restores it without another look (325-330),
  so a change made in between is overwritten (`lost`), although the comment at 247 says that
  deletion must not overwrite an external change. No property claims that it is spared.
- *Core*: a status call that reaps a core between the store of the child (`runtime.rs` 164) and
  the phase (170) leaves the phase Running without a child until the next Stop (`reaped`).
- *Configuration*: sub-rules that name a removed node stay, and the core refuses them.
- *Programs*: on Windows and Linux two commands may both start one program that has two entries
  (`program_proxy.rs` 926); an instance the user starts between request and answer is taken for
  the requested one.

## 4. Runs

| Run | Question | Bounds | Result |
|---|---|---|---|
| `process_gate` | do four threads on one atomic word keep each other's reasons, is closing final, can old work be revived, does admission return, is the abstract gate implemented | 2 workers, 1 installation, 1 ender, 4 epochs, 1 nap | holds |
| `session_control` | what may disk, proxy and core look like in any interleaving of commands, restore, exit and crash; do waiting commands get on | 2 commands, 3 generations, 2 launches | holds |
| `slow_network` | is a restore that met a slow network retried, as a comment says | 1 command | violated |
| `proxy_lease` | can the settings always be undone, do they come back, is a client that took over left alone | 2 ports, 3 originals, 2 external changes | holds |
| `bypass_edits` | does an edited bypass list survive, as a test's name says | the same | violated |
| `settings_gap` | can a status query lose the settings | 1 command at a time of 2, 1 query, 3 contents | violated |
| `config_transaction` | with every load, write and undo failing and core or process dying anywhere: is the selection saved and whole, does the core run it, are the answers true | 2 profiles, 2 changes; selections, failures and crashes unbounded | holds |
| `tun_lease` | with slow, lost and overtaking requests and the death of client, helper and core: do late workers and late stops harm a newer run, does a core that nobody holds end, is a lost core noticed | 2 runs; losses, crashes and launches unbounded | holds |
| `background` | is any late answer taken for a present one, does a crash lose a file, an application or a service, does what waits end | see below | holds |
| `cancelled_test` | does a cancelled node test end, as a test says | 2 tests | violated |
| `stale_usage` | is a quota shown that of the present source, as the release notes say | 3 moments | violated |
| `services` | for fourteen components: is what is accepted earned, what is taken returned, what is chosen current | see below | holds |

The properties of the two sums are conjunctions with one conjunct per component, each named
and commented in the component's module:

| Property | Conjuncts |
|---|---|
| `LatestIsThere` | AtomicFile: the last content survives every failure and crash |
| `TestsAreHonest` | NodeTest: `ProbesBounded`, `CompletedIsComplete` |
| `UpdateIsSafe` | UpdateInstall: `AppSurvives`, `ServicesSurvive`, `UndisturbedIsTrue` |
| `CommitsAreClean` | SubscriptionTask: `CancelOrCommit`, `UniqueUrls` |
| `RoutesAreTrue` | DomainRouting: `VerifiedIsTrue`, `RoutesAreLoaded` |
| `LateAnswersAreDropped` | HelperProbe: `AnswerFollowsRepair`; SubscriptionTask: `ObservationAdvances`, `RevisionOfSource`; ConnectionFeedback: `ResultBelongs` |
| `StaleTestEnds`, `CheckingEnds` | NodeTest: a test whose scope is gone frees its place; ConnectionFeedback: "checking" does not stay |
| `TakenIsReversible` | LoginEntry: `SaveIsWhole`, `MigrationRevivesNothing`, `MigrationKeepsLogin`; LocalRoute: `TakenCanBeGivenBack`, `NoRequestIsCut`, `CountedOnce` |
| `RunsAreSound` | ProgramProxy: `EntryRunsOnce`, `HandlesAreOwn`; TunStart: `AcceptanceIsEarned`; HelperStaging: `RunsWhatWasChecked`; CoreRun: `NoCoreIsLost`, `PhaseIsTrue`; CoreProbe: `KeptIsTrue` |
| `ResultsAreSound` | SubscriptionFetch: `RequestsAreFew`, `AnswersAreSound`; NodeRanking: `RankingIsSound`, `GroupIsSafe`; TunStart: `AnswersAreRead`; UnixProxy: `LedIsCovered`, `UsersSettingsReturn`; EffectiveConfig: `PrecedenceHolds`, `ReferencesResolve`, `OpenAiIsGuarded`, `NothingIsExposed` |
| `StepsAreCareful` | LoginEntry: `LoginStepOK`; SubscriptionFetch: `NothingSentLate`; LocalRoute: `OnlyOurKeys`; PolicyTask: `RankingIsCurrent`; StabilityRound: `SwitchIsCurrent`, `CooldownIsKept`; TunStart: `RetriesAreCareful`; HelperStaging: `StagingStepOK`; CoreRun: `OnlyCheckedCoresRun`; UnixProxy: `ResumeIsWelcome`; CoreProbe: `AnswersAreOfTheCall`; ProgramProxy: `ProgramStepOK` |
| `SelectionIsHere`, `YamlFollowsSelection`, `AnswersAreTrue`, `ImplementsProfileSet` | ProfileDeletion |
| `BackgroundTypeOK`, `ServicesTypeOK` | the types of the component in focus |

**Why the sums lose nothing.**  The components of a sum have no variable, lock or file in
common at the grain of their modules; where they meet in the code (the configuration permit,
the death of the core, a change of the configuration), each module has the others as an
action that may happen at any time.  A behaviour of one beside a behaviour of another
would reach no state of either that it does not reach alone.  They share the variables
`v1`, `v2`, ... to spare TLC the idle ones.  In `services` one pair of model values stands for
nodes, requests, callers and commands, and is symmetric: no module tells the two apart, and
no liveness property is checked there.

**Why the bounds are enough.**  Gate: the errors of interest need one thread holding
an old word while another changes and restores it; four epochs give two such rounds.
The thread numbers are lifted by the proofs.  Session: two commands are one that
waits for a cancelled restore and one that competes for the permit; three
generations are the launch and both commands; the second launch sees
what the first left behind.  Lease: the second port is needed for an enable over our
own proxy; the third original has a PAC, a server string and a switched-off proxy,
so each value differs from the applied one in some original; operations and crashes
are not bounded at all, only external changes are.  `Judged` stops TLC from
following behaviours after a fault of which nothing is claimed.  Deletion: the
third profile can be selected between an interrupted deletion and its completion while
the second is in use; the proof has any number.  Atomic file: a second
content makes "an older one" differ from "the latest", the defaults are the third.
Configuration: an inactive profile and an active one; the second change is made over the
leftovers of a first that failed.  TUN lease: an earlier run, whose worker and requests are
late, and the one that replaces it; a third would add only a second earlier one, and the
proof has any number.

`background`: two node tests, the second begun while the first ends; two nodes and one probe
at a time, so that a node waits; two worlds, one for each kind of test, and a change from
one to the other; a listing with a group in a group and a name that is no node; two helper processes and
two requests, a late one and its successor; three moments of the clock, a request, an edit
and a second request, for a refresh beside the poller and for an import by itself
(`Teams`); three operations of the
window and two runs of the core; three committed changes of the routes, one of them
undone; crashes of an installation unbounded.  `services`: the budgets of a
download are 4, 2 and 1 ticks, so that each deadline comes before and after each other; one
redirect at most; two requests of the relay with one permit, so that one waits; three
configurations of a policy, one changed and changed back; two nodes and an exit that
rejects, one recovery pass after a cooldown; pools of up to five
candidates for three places, made so that price, server and score disagree; two adapters;
two users of the helper and two cores; one failure and one external change of the
System Proxy, each at every step; two cores and one concurrent validation; sources with
a group of our name, a message among the nodes, sections of a wrong type and each shape of `dns`,
under settings with and without TUN, policy, rules and routes; two commands on two entries of
one application on a Mac, on Windows on an entry and one that is added, with a core that comes
back at another port.

**Deadlock.**  `SessionControl` may stop: the last launch has ended.  So may the components of
the two sums: a download has been answered, the bounds of a component are used up.  The
other modules are checked for deadlock.

**Fairness.**  `ProcessLifecycle`: weak fairness of the steps inside `admission` of
each worker, which are ordinary instructions and 2 ms naps; the owner of the mutex
is promised nothing, and `AdmissionReturns` holds in spite of it.  `SessionControl`:
weak fairness of the restore task, of each command that holds the permit, and of its
poll of a free permit.  The code justifies it: each wait inside a start, a stop or a
restore has a deadline of its own (controller, interface, helper 10 s, child
processes), and the runtime schedules a task that is ready.  `TunLease`: weak
fairness of start and stop and of each worker (its calls have deadlines of 5 s or 135 s, it
sleeps for 4 s), of the passage of LEASE_TIMEOUT (18 s), and of the watchdog (every 2 s).
No request need ever be handled: `OrphansEnd` and `LossIsNoticed` hold with every message
lost.  `NodeTest`: weak fairness of what tokio and `Drop` do by themselves (a monitor that
wakes every 250 ms, the signal it sends, the drop); answers and the time limit are promised
nothing.  `ConnectionFeedback`: weak fairness of the steps of a probe, whose request has a time
limit and whose wait for the permit ends after 2 s.  Nothing is assumed of the user, of the
session, of commands or of crashes.

### What the five violations show

*The restore is not retried.*  `session_resume.rs` 322-323 says that a slow login
network is not a user Stop and is retried; `retry_restore` (352) asks for the code
`NETWORK_CHECK_FAILED`.  No start returns it any more: System Proxy does not check
the internet, and a failed TUN check becomes `TUN_START_FAILED` even if it is marked
retryable (`lib.rs` 795-801, `error.rs` 45).  The restore pauses at once.  The business
contract of the documents calls the retry historical; the comment and the branch remain.

*A bypass edit is lost.*  Edit the bypass list while the System Proxy is on, then enable
it once more (a start after the core died): the new lease keeps the old original with its
old bypass list and takes the edited list for what Serylane applied.  The release sees no
edit and writes the old list back.

*A query overwrites the settings.*  `AppStorage::settings` (57-74) takes a missing
settings.json for a first launch and writes the defaults.  During a save the file is
missing between the two renames of `write_private_atomic` (779, 781), and status queries
call `settings` without the permit.  The query's defaults then replace what was saved,
and no call has failed.  The design document promises an atomic rename (955-956,
"刷新数据后原子 rename。").

*A cancelled test stays "cancelling".*  `Worker::drop` writes the final phase of a node test
(`node_test.rs` 127-144) and clears `active` afterwards (145-157); a cancellation in between
still finds the task active and writes Cancelling over the final phase.  Nobody ends it, and
the window counts it as running.  A test (583-598) says that a cancelled task is Cancelled
once its worker has been dropped.

*A quota of another subscription.*  The poller lists the profiles once per round
(`subscription_quota.rs` 40-46) and takes the start of a request when its turn comes (79).
An edit of the address in between is older than that moment, so the check of
`record_subscription_observation` accepts the answer of the old address.  The release notes
of 0.7.25 (line 21) say that the results of concurrent edits have a version check.

## 5. Proofs

All proofs are checked by TLAPS from nothing, without assumptions other than the
`ASSUME`s of the modules: the kinds of threads are disjoint, `NoOne` is no thread, bounds are
natural numbers.  TLC evaluates each of them.

**ProcessLifecycleProofs.**  `TypeCorrect`, `ReasonsOwned`, `ClosingStays`,
`NoWorkIsRevived`, and `Implements` (the refinement, step by step).  None of these is
inductive alone.  `IInv` adds: each thread is only where its kind can be; an epoch
names one value of the word, so whoever has loaded the current epoch has loaded the
current word, and a stale worker has an older epoch; a value loaded as closed means
the gate is closed; a drop in flight has loaded a value that its own pause holds; the
mutex is held by exactly the worker whose label says so.  The first is what makes the
compare-and-swap and `check` mean "nothing has happened since".

**SessionControlProofs.**  Every invariant that `session_control` checks, and
`RestoreHonoursIntent`, for any number of commands, generations and launches.  The
backbone of `IInv` is `Holders`: an actor's label says whether it holds the permit and
the mutex, so at most one actor is on its way to a process, a proxy, an intent or a
mode.  Around it: under a clean mark no start has passed `MarkUnclean` unless the gate
is closed for good; after cleanup nobody is about to spawn; under its permit the
restore has the stored intent and a Stop has none; a start in progress knows no other
core than its own.

**TunLeaseProofs.**  `TypeCorrect`, `FailuresStayCurrent` and `HeldRunsAreSpared` for any
number of runs.  `Fenced` is the heart of `IInv`: a worker whose generation is the present
one is the worker of the lease, and between an invalidation and the next worker there is
none.  `StopsAreMeant` carries it to the helper: whoever asks to stop a run does so after
its lease was given up or its failure published, or while a stop gives it up.  `Fresh` (nobody
has a lease that has not been drawn), `Counted` (generations) and `Failing` (a worker ends
with its third failure) make these inductive.

**ProxyLeaseProofs.**  Every property that `proxy_lease` checks, for any ports and any
original settings.  The heart of `IInv` is `Back`: what a release would leave behind, given
the registry and the lease on disk.  `Sound` says that this is what the user has, at every
position of every operation, as long as nothing but an enable over an edited bypass list
(`reapplied`) has been recorded in `faults`; that an uncommitted lease always owns the
registry, however many of the four values are written; and that no edit leads a committed
lease back to the list it applied (`EditsStay`).  `Forms` is why other clients' changes can
never look like ours: a committed lease has the form of an enable.  `Captured` keeps the same
for what a transaction will roll back to.  `Resumes` says what an automatic enable knows of
the registry it has looked at.

**ConfigTransactionProofs.**  Every property that `config_transaction` checks, for any
profiles and any number of versions.  What is still to be written is one of finitely many
ends of `Order` or `Restores` (`Plans`), so a commit is described by what is `Behind` it:
`Progress` says that exactly those files are new, `Regress` that an undo still has on its list
whatever is not old again.  `Restorations` is the lemma that matters: what the undo of a
command restores covers everything its commit may have written before the write that
failed.  `Loaded` says which configuration the core has in each phase, `Saves` that both what
is selected and what would be taken back was saved, `Whole` that selection and metadata
agree before a command, and so after its undo.

**BackgroundProofs.**  Everything safe that `background` checks, for any nodes, addresses,
bodies and contents and any bounds on tests, epochs, moments, operations, runs and changes
(`BackgroundAssumption`).  There is one section per component with its inductive invariant,
each of which TLC has checked before:

- `FileInv`: `OneWriter` (the permit is held by exactly the command that is not idle) and
  `Positions` (what each call of the writer implies about file, backup and temporary file).
  Both are claimed until a query meets the gap, after which two writers interleave.
- `NodesInv`: a test begins only when the slot is free and a worker frees it last, so only the
  last worker can have probes in flight; `Sane` says of each task that, as long as nobody has
  cancelled it, every node that is neither to do nor in flight has its result.
- `UpdateInv`: which steps belong to an installation and which to the next launch
  (`StepsInv`); that the window's stage is never behind what was done, and the backup is made
  before anything is disturbed (`InstallInv`); that the marker owes a service from before
  it is detached until it is registered again (`MarkerInv`).
- `HelperInv`: the requests of the present generation were answered by a helper that no
  mutation has replaced.  A reader joins only such a request, so its answer follows the repair.
- `SubscriptionInv`: `PermitInv` (the permit is with the task that is between its check and
  its write), `CommitInv` (from the commit on the task can no longer be cancelled, and it has
  not been), `SourceInv` (under the permit the source of the refresh is that of the profile).
- `FeedbackInv`: a probe has the context of its operation as long as that operation is the
  one that is shown, and publishes only while the configuration is the one it saw.
- `RoutingInv`: `EditorInv` (which side of the open change document, base and core are on)
  and `QueryInv` (what a query has read is not newer than what is there, and equal if the
  numbers are: it is what lets the final comparison of numbers stand for one of documents).

`StepOfFocus` composes them: a step of the sum is a step of the component in focus, or of the
file, and leaves the others alone; so `BackgroundInductive` needs each component's own step
lemma and nothing else.  The last section reads off `BackgroundTypeCorrect`,
`TestsStayHonest`, `UpdateStaysSafe`, `CommitsStayClean`, `RoutesStayTrue`,
`LatestStaysThere` and, for the steps, `LateAnswersStayDropped`.

**StoreProofs**, of deletions.  Every invariant about deletions and the refinement of
`ProfileSet`, for any set of profiles.  `IInv` adds to the invariants: `Stages` (which
positions belong to a launch, a live process, a journal), `Agreement` (locals and journal
name the same profile, and the saved copies differ from the files only by what the commit
has done), `Progress` (after a step its effect is there), `Directories` (the locals' profile is
in place until the move).  The refinement has one step per action; a failed
step of the undo maps to `Announce`, a crash over a journal to `Remove`.

**StoreProofs**, of what Serylane keeps for others.  Two components of the services whose
sections `ServicesProofs` takes from here:

- `LoginInv`: `Places` and `Owners` (which command may be where, on which system),
  `Remembers` (the answers a command noted agree with the stores it noted), `SaveInv` and
  `MigrationInv` (how far the two stores are from what was noted at each step, as long as
  the user has not changed them meanwhile), and `SaveIsWhole` itself.
- `RouteInv`: `LeaseInv` (a write into the other program's file is made under a lease that
  says what was there, over a file that is as it was read unless an edit came late),
  `ClosingInv` (once a disabling command has drained the relay nothing is forwarded) and
  `CountsInv` (each counter is the size of the set of requests that it stands for: the part
  that needs the cardinality lemmas).

**ServicesProofs**, of eleven services.  `TakenIsGivenBack`, `RunsStaySound` and
`StepsStayCareful` are `TakenIsReversible`, `RunsAreSound` and `StepsAreCareful` for any
requests, users, callers and exits and any bounds, under the assumptions of `MCServices`:
finitely many requests, natural numbers, "none" names no caller and "nobody" no command.  The hosts, answers,
policies, tables and failures are those that the modules and `MCServices` define.  Each
component has a section with an inductive invariant that TLC has checked before:

- `CoreInv`: `StartInv` and `PhaseInv` say what phase and child are at every step of a start
  between their locks, and that a core is spawned after a validation that said "ok".
- `ProbeInv`: `TicketInv` (a shut gate outdates every ticket), `FlightInv` (one caller probes,
  and each has seen the file that is there now), `IdentityInv` (what a probe read belongs to
  the file it was started for, unless that has been replaced).
- `StagingInv`: `HandledInv` says for each step of a request which of the four files of its
  user have been checked or renamed into place.
- `PolicyInv`: the permit is with the task from its comparison to the end of the loading, and
  the configuration is then the one it measured.  `BenchInv`: who has not ended holds the running
  flag, and the core that measures lives only between its spawn and its drop (`BenchmarkHasTask`).
- `RoundInv`: `PermitInv` and `ComparedInv` are the same for a round of the failover and for a
  manual choice; `RevisionInv` says that equal revisions mean equal members, so that comparing
  numbers is enough.  `HealthInv` types the histories; that a failed node stays cooling is a
  lemma of each step.
- `FetchInv`: the clock stops at the deadline, and no pause outlasts it.  `TunInv`: which checks
  have been passed at each step, and of which adapter.
- `ProgInv`: `HandlesInv` (a handle of an entry names a request or a process of this entry),
  `ReadInv` (what a command read is what the table holds as long as the revisions are equal),
  `TriesInv` (of one application only one request waits; what starts after it is its own or the
  user's; no two have opened the same), `AskingInv` (which question a command has asked at
  each step).  `MacInv` and `SpawnInv` are the two reasons why an entry runs once: on macOS the
  system opens an application once; elsewhere a start has its entry and the permit to itself,
  so a process that lives is known by its handle.
- `UnixInv`: an automatic resume never rolls back, and what it captured before it may enable has
  nobody's proxy on; so what it records in place of a snapshot is of nobody.

`StepOfFocus` composes them as in `BackgroundProofs`.  `ServicesAreProfiles` shows that the
sum implements `ProfileDeletion` by itself, so that what is proved of deletions holds of the
sum; `ServicesTypesHold` gives the types of the six components whose invariant needs them.

**Only model-checked.**  The liveness properties `AdmissionReturns`, `ManualReturns`,
`OrphansEnd`, `LossIsNoticed`, `StaleTestEnds` and `CheckingEnds` (liveness under fairness is
out of this prover's reach); and of `services`:

- `ResultsAreSound`.  What `NodeRanking` and `EffectiveConfig` compute, how many requests a
  download has sent (`RequestsAreFew` counts in a sequence) and what a DNS answer with aliases
  means (`AnswersAreRead`) are folds and recursions over documents, and a proof would be an
  induction over data.  The plans of `UnixProxy` are sequences made with FlattenSeq, for which
  the same holds.
- `ServicesTypeOK` as a whole; six of its parts are proved, and with `ServicesAreProfiles` a
  seventh, `TypeOK`.

## 6. What is not modelled

- Errors of state.json itself: a write that fails leaves the command's error path, but
  the values on disk change as written in the model.  The lost update of state.json
  between the permit and the mutex is planned (`ConfigTransaction` and
  `ProfileDeletion` write it under the permit, the exit cleanup and the theme do not).
- What a crash tears inside one commit: `ConfigTransaction` reaches it (`hurt`) and claims
  only that whatever is selected was saved.  active.yaml after a failed removal of its
  backup.
- The Unix core that survives a crash of the client; on Windows the job object takes it
  along, which `ProcessEnds` assumes.  Quitting during a benchmark (`lib.rs` 1495) leaves the
  benchmark's core and directory behind.
- The Windows service of the TUN helper, XPC, launchd and code signing.  `SessionControl`
  knows only the helper's outcomes; that its Stop and Start are those of `TunLease` is not
  checked.
- Leases of the System Proxy of version 0.4.0.  Two writers of the lease at once:
  `set_network_mode` without a core restores the proxy without the mutex (`lib.rs` 1162);
  `SessionControl` has that interleaving, `ProxyLease` and `UnixProxy` assume one operation at
  a time.
- The installer of Windows and the transport of an update; `UpdateInstall` starts from a
  download that ends or fails.
- The traffic monitor (`traffic_monitor.rs`): it reads an address, awaits, and may show the
  numbers of an earlier core until its next round.  The catalogue of installed programs and
  its cache, names and layouts of nodes, the reading of rule files: they parse, and what is
  parsed is data here.
- The switches of `capabilities.rs`: ENHANCED_STABILITY, PROGRAM_PROXY and CODEX_ATTACH are off in
  the present build; `StabilityRound`, `ProgramProxy` and the attaching half of `LocalRoute`
  are about the code behind them (`ProgramProxySwitch` is TRUE in `services`).
- Program proxy: bundles and plain executables in one list on one Mac (the latter start as
  programs of Windows do), the limits of the list (100 entries) and of the launch history
  (`macos.rs` 465), and of an entry everything but what decides whether it starts.
- The reading of a node's name (region, rate): `NodeRanking` takes it as a constant.
- The front end.  It calls commands and draws what they return; its request numbers decide
  only what is drawn.
- Presentation, translation, logging, parsing, code signing, build scripts.
