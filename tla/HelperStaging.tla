------------------------------ MODULE HelperStaging ------------------------------
(***************************************************************************)
(* What the privileged helper of macOS puts on disk before it runs a core  *)
(* (tun_service/daemon.rs): the checks of the configuration a client       *)
(* sends, the staged core and configuration in the directory of the user,  *)
(* each replaced by way of a file of its own, and the error lines by which *)
(* a core is given up.  TunLease models leases, heartbeats and messages.   *)
(*                                                                         *)
(* The helper's mutex is held from the first file to the spawn; what       *)
(* interleaves with these steps is the death of the helper, of the core,   *)
(* and the threads that read a core's output.                              *)
(***************************************************************************)
EXTENDS Integers

CONSTANTS
  Users,         \* effective uids of clients
  Submitted,     \* the configurations each of them sends
  MaxCores       \* bound: cores spawned

VARIABLES
  handled,       \* the request that holds the mutex, and where it is
  child,         \* the core: its number, owner and what it was started with
  files,         \* the directory of each user
  lines, unread, \* cores with an error line in the log, or in a pipe
  settling       \* the start that sleeps without the mutex

stagingVars == <<handled, child, files, lines, unread, settling>>

NoConfig == [ok |-> "none"]
NoUser == "nobody"
Idle == [at |-> "idle", op |-> "none", uid |-> NoUser, config |-> NoConfig]
NoChild == [id |-> 0, uid |-> NoUser, config |-> NoConfig]
NoFile == "none"
NoFiles == [core |-> NoFile, coreNext |-> NoFile, config |-> NoConfig, configNext |-> NoConfig]

StagingInit ==
  /\ handled = Idle /\ child = NoChild /\ files = [u \in Users |-> NoFiles]
  /\ lines = {} /\ unread = {} /\ settling = 0

----------------------------------------------------------------------------
(* What may be run as root.                                                *)

\* reject_unsafe_paths: the key of a list is the key of what is in it
UnsafePath(config) ==
  \E leaf \in config.strings : leaf.key = "path" /\ leaf.text \in {"absolute", "home", "upwards"}

\* validate_config
Accepted(config) ==
  /\ config.size = "fits" /\ config.text = "yaml"
  /\ config.blocked = {}
  /\ config.allowLan = "false"
  /\ config.bind = "loopback" /\ config.controller = "loopback"
  /\ config.tun /\ config.autoRoute
  /\ ~UnsafePath(config)

----------------------------------------------------------------------------
(* A request, under the mutex.                                             *)

At(p) == handled.at = p
Goto(p) == handled' = [handled EXCEPT !.at = p]
Ends == handled' = Idle
Mine == files[handled.uid]
Write(field, content) == files' = [files EXCEPT ![handled.uid][field] = content]

\* stop_child
Stopped == child' = NoChild

\* refresh_child: an error line in the log is taken for the child's
Refreshed == IF lines # {} THEN NoChild ELSE child

\* prepare_locked: nothing is prepared while a core runs
Receive ==
  /\ At("idle")
  /\ \E uid \in Users, op \in {"prepare", "start"} : \E config \in Submitted[uid] :
       /\ Accepted(config) /\ Refreshed.id = 0
       /\ handled' = [at |-> "core", op |-> op, uid |-> uid, config |-> config]
  /\ child' = Refreshed /\ UNCHANGED <<files, lines, unread, settling>>

\* stage_core, write_config: what a dead helper left is removed, the new file
\* is made beside the old one, which goes just before the new one is renamed
Step(at, field, content, next) ==
  /\ At(at) /\ Write(field, content) /\ Goto(next)
  /\ UNCHANGED <<child, lines, unread, settling>>

StageCore ==
  \/ Step("core", "coreNext", "unchecked", "checked")
  \/ Step("checked", "coreNext", "signed", "drop")
  \/ Step("drop", "core", NoFile, "move")

MoveCore ==
  /\ At("move") /\ Goto("config")
  /\ files' = [files EXCEPT ![handled.uid].core = Mine.coreNext, ![handled.uid].coreNext = NoFile]
  /\ UNCHANGED <<child, lines, unread, settling>>

WriteConfig ==
  \/ Step("config", "configNext", handled.config, "unlink")
  \/ Step("unlink", "config", NoConfig, "rename")

MoveConfig ==
  /\ At("rename") /\ Goto("native")
  /\ files' = [files EXCEPT ![handled.uid].config = Mine.configNext,
                            ![handled.uid].configNext = NoConfig]
  /\ UNCHANGED <<child, lines, unread, settling>>

\* a directory or file that is not root's, a signature, the validator: each
\* ends the request where it is
Refused ==
  /\ handled.at \in {"core", "checked", "drop", "move", "config", "unlink", "rename", "native",
                     "spawn"}
  /\ Ends /\ UNCHANGED <<child, files, lines, unread, settling>>

Validated ==
  /\ At("native")
  /\ IF handled.op = "start" THEN Goto("spawn") ELSE Ends
  /\ UNCHANGED <<child, files, lines, unread, settling>>

CoresSoFar == {child.id, settling} \union lines \union unread
NextCore == 1 + CHOOSE n \in CoresSoFar \union {0} : \A m \in CoresSoFar : m <= n

\* the log is cleared, the core is run with what lies in the directory now
Spawn ==
  /\ At("spawn") /\ NextCore <= MaxCores /\ settling = 0
  /\ child' = [id |-> NextCore, uid |-> handled.uid, config |-> Mine.config]
  /\ lines' = {} /\ settling' = NextCore /\ Ends
  /\ UNCHANGED <<files, unread>>

----------------------------------------------------------------------------
(* The rest of a start, stops, and what happens to a core.                 *)

\* after 950 ms; another core in its place is left alone
Settle ==
  /\ settling # 0 /\ settling' = 0 /\ At("idle")
  /\ child' = IF child.id \in {settling, 0} THEN Refreshed ELSE child
  /\ UNCHANGED <<handled, files, lines, unread>>

\* status, heartbeat, watchdog: each refreshes; a heartbeat that stays away ends it
Watch ==
  /\ At("idle") /\ child.id # 0
  /\ (child' = Refreshed \/ Stopped)
  /\ UNCHANGED <<handled, files, lines, unread, settling>>

\* runtime_stop: by its owner
Stop ==
  /\ At("idle") /\ \E uid \in Users : Refreshed.id = 0 \/ Refreshed.uid = uid
  /\ Stopped /\ UNCHANGED <<handled, files, lines, unread, settling>>

\* the core writes an error and may end; its reader passes the line on later
CoreErrs ==
  /\ child.id # 0 /\ child.id \notin lines
  /\ unread' = unread \union {child.id}
  /\ UNCHANGED <<handled, child, files, lines, settling>>

ReadLine ==
  /\ \E n \in unread : lines' = lines \union {n} /\ unread' = unread \ {n}
  /\ UNCHANGED <<handled, child, files, settling>>

\* launchd ends the process group and starts the helper anew on demand
HelperDies ==
  /\ handled' = Idle /\ child' = NoChild /\ lines' = {} /\ unread' = {} /\ settling' = 0
  /\ UNCHANGED files

StagingNext ==
  \/ Receive \/ StageCore \/ MoveCore \/ WriteConfig \/ MoveConfig \/ Refused \/ Validated
  \/ Spawn \/ Settle \/ Watch \/ Stop \/ CoreErrs \/ ReadLine \/ HelperDies

Ids == 0..MaxCores
Configs == {NoConfig} \union UNION {Submitted[u] : u \in Users}

StagingTypeOK ==
  /\ handled.op \in {"none", "prepare", "start"}
  /\ handled.uid \in Users \union {NoUser} /\ handled.config \in Configs
  /\ child \in [id : Ids, uid : Users \union {NoUser}, config : Configs]
  /\ \A u \in Users : /\ {files[u].core, files[u].coreNext} \subseteq {NoFile, "unchecked", "signed"}
                      /\ {files[u].config, files[u].configNext} \subseteq Configs
  /\ lines \subseteq Ids /\ unread \subseteq Ids /\ settling \in Ids

----------------------------------------------------------------------------
\* A core that runs as root was signed, runs what its own request brought and
\* the checks let through, and nobody changes the directory under it
\* (daemon.rs 234: "must neither overwrite a running core nor swap its
\* prepared configuration").
RunsWhatWasChecked ==
  /\ child.id # 0 =>
       /\ Accepted(child.config)
       /\ files[child.uid].core = "signed" /\ files[child.uid].config = child.config
       /\ handled = Idle
  /\ \A u \in Users : files[u].core \in {NoFile, "signed"}
  /\ At("spawn") => Mine.config = handled.config

\* A directory changes only for the user whose request is handled, a core ends
\* and none takes its place in the same step.
StagingStepOK ==
  /\ \A u \in Users : files'[u] # files[u] => u = handled.uid /\ child.id = 0
  /\ child'.id # child.id /\ child.id # 0 => child' = NoChild
=============================================================================
