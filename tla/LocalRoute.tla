----------------------------- MODULE LocalRoute -----------------------------
(***************************************************************************)
(* The local model route (local_routing): a document with a revision, a    *)
(* relay on a loopback port, and a reversible lease on two keys of another *)
(* program's configuration (Codex).  The relay must not be closed over a   *)
(* request, the lease must give back what it took and leave alone what     *)
(* others have written meanwhile, whenever the process dies.               *)
(*                                                                         *)
(* CODEX_ATTACH is a switch of the build.  It is off in this version: such *)
(* a build only takes back what an earlier one has left; both kinds of     *)
(* build run over the same files here, `attachable' says which one runs.   *)
(***************************************************************************)
EXTENDS Integers, FiniteSets

CONSTANTS
  Requests,      \* connections that may carry a request
  MaxActive,     \* permits of the relay, 8 in the code
  MaxRequests,   \* bound: requests that one relay serves
  MaxEdits,      \* bound: edits by the owner of the configuration
  MaxRevision    \* bound: revisions of the document

VARIABLES
  routeDoc,    \* settings.json of the route: [revision, enabled]
  config,      \* config.toml: [exists, provider, table, rest]
  lease,       \* codex-lease.json: [held, original]
  relay,       \* [up, accepting]: the server in LocalRoutingManager
  request,     \* [at, counted, complete] of each request
  stats,       \* [requests, active, completed, failed]
  command,     \* the command that holds the manager's lock
  lateEdit,    \* history: an edit between the comparison and the rename
  attachable   \* CODEX_ATTACH of the running build

routeVars ==
  <<routeDoc, config, lease, relay, request, stats, command, lateEdit, attachable>>

\* provider: the value of model_provider; table: [model_providers.routedeck]
Providers == {"none", "theirs", "ours"}
Tables == {"absent", "installed", "edited"}
NoLease == [held |-> FALSE, original |-> [exists |-> FALSE, provider |-> "none",
                                          table |-> "absent", rest |-> 0]]
NoCommand == [op |-> "none", at |-> "idle", before |-> NoLease.original,
              after |-> NoLease.original]
NoRequest == [at |-> "idle", counted |-> FALSE, complete |-> FALSE]

RouteTypeOK ==
  /\ routeDoc.revision \in 0..MaxRevision /\ routeDoc.enabled \in BOOLEAN
  /\ config.exists \in BOOLEAN /\ config.provider \in Providers
  /\ config.table \in Tables /\ config.rest \in 0..MaxEdits
  /\ lease.held \in BOOLEAN
  /\ relay.up \in BOOLEAN /\ relay.accepting \in BOOLEAN
  /\ \A r \in Requests :
       request[r].at \in {"idle", "permit", "active", "forward", "stream", "drop"}
  /\ stats.active \in 0..MaxActive
  /\ command.op \in {"none", "enable", "disable", "attach", "restore", "starting", "bootstrap", "shutdown"}

\* Codex may not be installed, or have a configuration of its own
RouteInit ==
  /\ routeDoc = [revision |-> 0, enabled |-> FALSE]
  /\ \E there \in BOOLEAN, p \in {"none", "theirs"} :
       config = [exists |-> there, provider |-> IF there THEN p ELSE "none",
                 table |-> "absent", rest |-> 0]
  /\ lease = NoLease
  /\ relay = [up |-> FALSE, accepting |-> FALSE]
  /\ request = [r \in Requests |-> NoRequest]
  /\ stats = [requests |-> 0, active |-> 0, completed |-> 0, failed |-> 0]
  /\ command = NoCommand /\ lateEdit = FALSE
  /\ attachable = TRUE

----------------------------------------------------------------------------
(* the lease on the configuration (codex.rs)                               *)

Served == <<request, stats>>
Files == <<routeDoc, config, lease>>

Owns(c) == c.provider = "ours" /\ c.table = "installed"
Installed(c) == [c EXCEPT !.exists = TRUE, !.provider = "ours", !.table = "installed"]

AfterRestore(op) == IF op \in {"restore", "shutdown"} THEN "stop" ELSE "document"

\* restore: our two keys as they were, everything else as it is now; a file
\* nobody has touched returns to its original text, an absent one to an empty
Restored(c) ==
  IF c = Installed(lease.original) THEN [lease.original EXCEPT !.exists = TRUE]
  ELSE [c EXCEPT !.provider = lease.original.provider, !.table = "absent"]

Step(at) == command' = [command EXCEPT !.at = at]
End == command' = NoCommand

\* the errors of the commands that leave everything as it is: revision,
\* confirmation, another writer's conflict, an unreadable file
CommandFails ==
  /\ command.at \in {"lease", "compare", "rename", "unlease", "document"}
  /\ relay' = [relay EXCEPT !.accepting = relay.up]
  /\ End
  /\ UNCHANGED <<Files, Served, lateEdit, attachable>>

\* attach: the user's revision is that of the file he was shown
AttachBegins ==
  /\ command.op = "none" /\ attachable /\ relay.up /\ stats.active = 0
  /\ ~lease.held /\ config.provider # "ours" /\ config.table = "absent"
  /\ command' = [op |-> "attach", at |-> "lease", before |-> config, after |-> Installed(config)]
  /\ lateEdit' = FALSE
  /\ UNCHANGED <<Files, Served, relay, attachable>>

\* "journal first"; a copy of the file is kept beside it
WriteLease ==
  /\ command.at = "lease"
  /\ lease' = [held |-> TRUE, original |-> command.before]
  /\ Step("compare")
  /\ UNCHANGED <<routeDoc, config, Served, relay, lateEdit, attachable>>

\* mutant: the lease is written after the configuration
CompareUnjournaled ==
  /\ command.at \in {"lease", "compare"}
  /\ IF config = command.before THEN Step("rename") /\ UNCHANGED relay
     ELSE End /\ relay' = [relay EXCEPT !.accepting = relay.up]
  /\ lateEdit' = FALSE
  /\ UNCHANGED <<Files, Served, attachable>>

\* compare_and_write reads the file again ...
Compare ==
  /\ command.at = "compare"
  /\ IF config = command.before THEN Step("rename") /\ UNCHANGED relay
     ELSE End /\ relay' = [relay EXCEPT !.accepting = relay.up]
  /\ lateEdit' = FALSE
  /\ UNCHANGED <<Files, Served, attachable>>

\* ... and renames a new one over it
Rename ==
  /\ command.at = "rename"
  /\ config' = command.after
  /\ IF command.op = "attach" THEN End ELSE Step("unlease")
  /\ UNCHANGED <<routeDoc, lease, Served, relay, lateEdit, attachable>>

Unlease ==
  /\ command.at = "unlease"
  /\ lease' = NoLease /\ Step(AfterRestore(command.op))
  /\ UNCHANGED <<routeDoc, config, Served, relay, lateEdit, attachable>>

\* where the ownership of the keys is checked: an untouched original needs no
\* write, keys that are not ours are a conflict
RestoreFrom(op) ==
  LET at == IF ~lease.held THEN AfterRestore(op)
            ELSE IF config = lease.original THEN "unlease"
            ELSE IF Owns(config) THEN "compare" ELSE "conflict"
  IN command' = [op |-> op, at |-> at, before |-> config, after |-> Restored(config)]

\* a conflict ends the command; the lease and the backup stay
Conflict ==
  /\ command.at = "conflict"
  /\ relay' = [relay EXCEPT !.accepting = relay.up] /\ End
  /\ UNCHANGED <<Files, Served, lateEdit, attachable>>

----------------------------------------------------------------------------
(* commands (mod.rs); each holds LocalRoutingManager.server                *)

RestoreBegins ==
  /\ command.op = "none" /\ stats.active = 0
  /\ RestoreFrom("restore") /\ lateEdit' = FALSE
  /\ UNCHANGED <<Files, Served, relay, attachable>>

\* the exit does not wait for requests (it restores without the lock; two
\* restores at once are not modelled)
ShutdownBegins ==
  /\ command.op = "none" /\ RestoreFrom("shutdown") /\ lateEdit' = FALSE
  /\ UNCHANGED <<Files, Served, relay, attachable>>

\* set_codex_route leaves the relay up, shutdown stops it
RestoreEnds ==
  /\ command.at = "stop" /\ End
  /\ relay' = IF command.op = "shutdown" THEN [up |-> FALSE, accepting |-> FALSE] ELSE relay
  /\ UNCHANGED <<Files, Served, lateEdit, attachable>>

\* save_local_route: only while nothing depends on the settings
SaveRoute ==
  /\ command.op = "none" /\ ~routeDoc.enabled /\ ~relay.up /\ ~lease.held
  /\ routeDoc.revision < MaxRevision
  /\ routeDoc' = [routeDoc EXCEPT !.revision = @ + 1]
  /\ UNCHANGED <<config, lease, Served, relay, command, lateEdit, attachable>>

\* server::start: the port is bound, the counters are new
StartServer ==
  /\ relay' = [up |-> TRUE, accepting |-> TRUE]
  /\ stats' = [requests |-> 0, active |-> 0, completed |-> 0, failed |-> 0]
  /\ request' = [r \in Requests |-> NoRequest]

\* the port is bound before the document says so; a failed write drops the server
EnableRoute ==
  /\ command.op = "none" /\ attachable /\ ~relay.up
  /\ routeDoc.revision < MaxRevision
  /\ routeDoc' = [revision |-> routeDoc.revision + 1, enabled |-> TRUE]
  /\ StartServer
  /\ UNCHANGED <<config, lease, command, lateEdit, attachable>>

\* no new request is accepted ...
DisableBegins ==
  /\ command.op = "none" /\ routeDoc.revision < MaxRevision
  /\ relay' = [relay EXCEPT !.accepting = FALSE]
  /\ command' = [NoCommand EXCEPT !.op = "disable", !.at = "drain"]
  /\ UNCHANGED <<Files, Served, lateEdit, attachable>>

\* ... and then those that are counted are asked for
Drain ==
  /\ command.at = "drain"
  /\ IF stats.active > 0 THEN End /\ relay' = [relay EXCEPT !.accepting = relay.up]
     ELSE RestoreFrom("disable") /\ UNCHANGED relay
  /\ UNCHANGED <<Files, Served, lateEdit, attachable>>

WriteDocument ==
  /\ command.at = "document"
  /\ routeDoc' = IF command.op = "bootstrap" /\ ~routeDoc.enabled THEN routeDoc
                 ELSE [revision |-> routeDoc.revision + 1, enabled |-> FALSE]
  /\ IF command.op = "bootstrap" THEN End ELSE Step("close")
  /\ UNCHANGED <<config, lease, Served, relay, lateEdit, attachable>>

\* the tasks of the server are aborted where they wait, a tunnel hears `stop'
Abandoned(r) ==
  IF request[r].at \in {"forward", "stream"} THEN [request[r] EXCEPT !.at = "drop"] ELSE request[r]

CloseRelay ==
  /\ command.at = "close"
  /\ relay' = [up |-> FALSE, accepting |-> FALSE]
  /\ request' = [r \in Requests |-> Abandoned(r)]
  /\ End
  /\ UNCHANGED <<Files, stats, lateEdit, attachable>>

\* accept() fails: the connections are aborted, the tunnels are tasks of their own
RelayDies ==
  /\ relay.up /\ relay' = [relay EXCEPT !.up = FALSE]
  /\ \E tunnels \in SUBSET {r \in Requests : request[r].at = "stream"} :
       request' = [r \in Requests |-> IF r \in tunnels THEN request[r] ELSE Abandoned(r)]
  /\ UNCHANGED <<Files, stats, command, lateEdit, attachable>>

\* every launch retires an old relay
Bootstrap ==
  /\ command.op = "starting"
  /\ routeDoc.enabled => routeDoc.revision < MaxRevision
  /\ RestoreFrom("bootstrap")
  /\ lateEdit' = FALSE
  /\ UNCHANGED <<Files, Served, relay, attachable>>

----------------------------------------------------------------------------
(* requests (server.rs)                                                    *)

Idle(r) == request[r].at = "idle"
Move(r, at) == request' = [request EXCEPT ![r].at = at]
NotServing == <<Files, relay, command, lateEdit, attachable>>

\* Host, path, headers and the list of allowed addresses come first and are
\* answered without a trace in the statistics; so is a missing permit
Admit(r) ==
  /\ relay.up /\ Idle(r) /\ stats.requests < MaxRequests
  /\ Cardinality({q \in Requests : ~Idle(q)}) < MaxActive
  /\ Move(r, "permit")
  /\ stats' = [stats EXCEPT !.requests = @ + 1]
  /\ UNCHANGED NotServing

\* counted before the flag is looked at
CountActive(r) ==
  /\ request[r].at = "permit" /\ Move(r, "active")
  /\ stats' = [stats EXCEPT !.active = @ + 1]
  /\ UNCHANGED NotServing

LookAccepting(r) ==
  /\ request[r].at = "active"
  /\ Move(r, IF relay.accepting THEN "forward" ELSE "drop")
  /\ UNCHANGED <<stats, NotServing>>

\* body refused, upstream unreachable or late, a redirect, a bad handshake
ForwardFails(r) ==
  /\ request[r].at = "forward" /\ Move(r, "drop")
  /\ UNCHANGED <<stats, NotServing>>

Upstream(r) ==
  /\ request[r].at = "forward" /\ relay.up /\ Move(r, "stream")
  /\ UNCHANGED <<stats, NotServing>>

\* RequestGuard::finish: once, whichever comes first
Finish(r, success, at) ==
  /\ request' = [request EXCEPT ![r].at = at, ![r].counted = TRUE]
  /\ stats' = IF request[r].counted THEN stats
              ELSE IF success THEN [stats EXCEPT !.completed = @ + 1]
              ELSE [stats EXCEPT !.failed = @ + 1]
  /\ UNCHANGED NotServing

\* the terminal event is counted at once: the client may leave after it
Completes(r) ==
  /\ request[r].at = "stream" /\ ~request[r].complete
  /\ request' = [request EXCEPT ![r].complete = TRUE, ![r].counted = TRUE]
  /\ stats' = IF request[r].counted THEN stats ELSE [stats EXCEPT !.completed = @ + 1]
  /\ UNCHANGED NotServing

\* the end of a stream of events without the terminal one is no success;
\* other answers succeed by their end
StreamEnds(r) ==
  /\ request[r].at = "stream"
  /\ \E events \in BOOLEAN : Finish(r, events => request[r].complete, "drop")

\* an error, five idle minutes, or the client has gone
StreamBreaks(r) == request[r].at = "stream" /\ Finish(r, FALSE, "drop")

\* mutant: the end of a request is not taken from the active ones
DropUncounted(r) ==
  /\ request[r].at = "drop"
  /\ request' = [request EXCEPT ![r] = NoRequest]
  /\ stats' = IF request[r].counted THEN stats ELSE [stats EXCEPT !.failed = @ + 1]
  /\ UNCHANGED NotServing

\* Drop of the guard
DropGuard(r) ==
  /\ request[r].at = "drop"
  /\ request' = [request EXCEPT ![r] = NoRequest]
  /\ stats' = [stats EXCEPT !.active = @ - 1,
                            !.failed = IF request[r].counted THEN @ ELSE @ + 1]
  /\ UNCHANGED NotServing

----------------------------------------------------------------------------
\* Codex or its user rewrite the file, at any moment
Edits ==
  /\ config.rest < MaxEdits
  /\ \/ config' = [config EXCEPT !.exists = TRUE, !.rest = @ + 1]
     \/ config.provider = "ours" /\ config' = [config EXCEPT !.provider = "theirs", !.rest = @ + 1]
     \/ config.table = "installed" /\ config' = [config EXCEPT !.table = "edited", !.rest = @ + 1]
  /\ lateEdit' = (command.at = "rename")
  /\ UNCHANGED <<routeDoc, lease, Served, relay, command, attachable>>

\* the process dies, and another build may be launched next
RouteCrash ==
  /\ relay' = [up |-> FALSE, accepting |-> FALSE]
  /\ request' = [r \in Requests |-> NoRequest]
  /\ stats' = [requests |-> 0, active |-> 0, completed |-> 0, failed |-> 0]
  /\ command' = [NoCommand EXCEPT !.op = "starting"]
  /\ lateEdit' = FALSE
  /\ attachable' \in BOOLEAN
  /\ UNCHANGED Files

RouteNext ==
  \/ CommandFails \/ AttachBegins \/ WriteLease \/ Compare \/ Rename \/ Unlease \/ Conflict
  \/ RestoreBegins \/ ShutdownBegins \/ RestoreEnds \/ SaveRoute \/ EnableRoute \/ RelayDies
  \/ DisableBegins \/ Drain \/ WriteDocument \/ CloseRelay \/ Bootstrap
  \/ \E r \in Requests :
       \/ Admit(r) \/ CountActive(r) \/ LookAccepting(r) \/ ForwardFails(r) \/ Upstream(r)
       \/ Completes(r) \/ StreamEnds(r) \/ StreamBreaks(r) \/ DropGuard(r)
  \/ Edits \/ RouteCrash

----------------------------------------------------------------------------
\* A configuration that points to the relay can be taken back: the lease is
\* on disk before the first key and until after the last.
TakenCanBeGivenBack == config.provider = "ours" => lease.held

\* Nobody's request is cut by the command that closes the route.
NoRequestIsCut ==
  command.at = "close" => \A r \in Requests : request[r].at \notin {"forward", "stream"}

\* Every request is counted once, however its stream, its client and its
\* guard end.
CountedOnce ==
  stats.requests = stats.completed + stats.failed
                   + Cardinality({r \in Requests : ~Idle(r) /\ ~request[r].counted})

\* A write of ours changes two keys: what else is in the file is what was
\* there when it was compared, and the keys of another provider stay.
OnlyOurKeys ==
  command.at = "rename" /\ command'.at # "rename" /\ config' # config /\ ~lateEdit =>
    /\ config'.rest = config.rest
    /\ command.op # "attach" => Owns(config) /\ config'.provider = lease.original.provider

=============================================================================
