------------------------------- MODULE UnixProxy -------------------------------
(***************************************************************************)
(* The System Proxy of macOS and Linux (platform.rs, not(windows)): the    *)
(* settings of the active network services, or of GNOME, written one       *)
(* command at a time, and the snapshot they are restored from.  Unlike the *)
(* lease of Windows (ProxyLease) the snapshot names no owner.              *)
(*                                                                         *)
(* One operation runs at a time (runtime_transition).  A protocol has a    *)
(* server and a switch; the switch of GNOME is one for all of them.  PAC   *)
(* settings are never written; they count as another's proxy being on.     *)
(***************************************************************************)
EXTENDS Integers, Sequences, SequencesExt, Functions

CONSTANTS
  Protocols,       \* http, https, socks
  Originals,       \* contents of all services before the first start
  Gnome,           \* the only service of Linux
  MaxFaults,       \* bound: commands that fail, crashes
  MaxOutside       \* bound: changes by others and of the network

VARIABLES
  unix,            \* "macos" or "linux"
  settings,        \* the settings of each service
  active,          \* the services mac_active_physical_network_services finds
  saved,           \* system-proxy-snapshot.json
  op,              \* the operation: kind, step, commands left, what it captured
  users,           \* history: what the user and others have chosen
  edited,          \* history: services others changed since we wrote them
  lost,            \* history: services whose change by others a restore undid
  holes,           \* history: what no snapshot covers
  faults, outside  \* history: the number of either

unixVars == <<unix, settings, active, saved, op, users, edited, lost, holes, faults, outside>>

None == "none"
Ours == "ours"                        \* 127.0.0.1 and the mixed port
Theirs == "theirs"
Nothing == [s \in {} |-> None]        \* no file

Idle == [kind |-> None, at |-> "idle", plan |-> <<>>, before |-> Nothing, lease |-> Nothing]

Services == DOMAIN settings
Capture == [s \in active |-> settings[s]]

UnixInit ==
  /\ unix \in {"macos", "linux"} /\ settings \in Originals[unix]
  /\ active \in IF unix = "linux" THEN {{Gnome}} ELSE SUBSET DOMAIN settings
  /\ saved = Nothing /\ op = Idle /\ users = settings
  /\ edited = {} /\ lost = {} /\ holes = {} /\ faults = 0 /\ outside = 0

----------------------------------------------------------------------------
(* Commands.                                                               *)

Set(s, field, p, value) == [service |-> s, field |-> field, proto |-> p, value |-> value]

\* networksetup turns a protocol on with its server; gsettings does not
After(old, command) ==
  CASE command.field = "server" ->
         [old EXCEPT !.server[command.proto] = command.value,
                     !.on[command.proto] = unix = "macos" \/ @]
    [] command.field = "on" -> [old EXCEPT !.on[command.proto] = command.value]
    [] command.field = "mode" -> [old EXCEPT !.on = [p \in Protocols |-> command.value]]
    [] command.field = "merge" -> [old EXCEPT !.bypass = @ \union {Ours}]
    [] command.field = "bypass" -> [old EXCEPT !.bypass = command.value]

Each(set, Commands(_)) == FlattenSeq([i \in DOMAIN SetToSeq(set) |-> Commands(SetToSeq(set)[i])])

\* apply_system_proxy
ApplyPlan ==
  IF unix = "linux"
    THEN <<Set(Gnome, "mode", None, TRUE)>>
           \o Each(Protocols, LAMBDA p : <<Set(Gnome, "server", p, Ours)>>)
           \o <<Set(Gnome, "bypass", None, {Ours})>>
    ELSE Each(active, LAMBDA s :
           Each(Protocols, LAMBDA p : <<Set(s, "server", p, Ours)>>)
             \o Each(Protocols, LAMBDA p : <<Set(s, "on", p, TRUE)>>)
             \o <<Set(s, "merge", None, None)>>)

\* restore_snapshot: networksetup cannot write an empty server; on Linux the
\* keys come in alphabetical order, the mode last
RestorePlan(snapshot) ==
  Each(DOMAIN snapshot, LAMBDA s :
    IF unix = "linux"
      THEN Each(Protocols, LAMBDA p : <<Set(s, "server", p, snapshot[s].server[p])>>)
             \o <<Set(s, "bypass", None, snapshot[s].bypass),
                  Set(s, "mode", None, \E p \in Protocols : snapshot[s].on[p])>>
      ELSE Each(Protocols, LAMBDA p :
             (IF snapshot[s].server[p] = None THEN <<>>
                ELSE <<Set(s, "server", p, snapshot[s].server[p])>>)
               \o <<Set(s, "on", p, snapshot[s].on[p])>>)
             \o <<Set(s, "bypass", None, snapshot[s].bypass)>>)

\* what the settings would be after all commands of a plan
Applied(old) ==
  [server |-> [p \in Protocols |-> Ours], on |-> [p \in Protocols |-> TRUE],
   bypass |-> IF unix = "linux" THEN {Ours} ELSE old.bypass \union {Ours}]

At(step) == op.at = step
Still == UNCHANGED <<unix, active, users, holes>>
Quiet == Still /\ UNCHANGED <<settings, edited, lost>>
Ends == op' = Idle

\* proxy_matches_port
Matches(snapshot) ==
  /\ DOMAIN snapshot # {}
  /\ \A s \in DOMAIN snapshot, p \in Protocols :
       snapshot[s].server[p] = Ours /\ snapshot[s].on[p]

----------------------------------------------------------------------------
(* Enabling: by a start or a switch, in a transaction, or automatically.   *)

\* proxy_transaction
BeginTransaction ==
  /\ At("idle")
  /\ \E kind \in {"start", "switch", "leave"} :
       op' = [kind |-> kind, at |-> IF kind = "leave" THEN "release" ELSE "enable",
              plan |-> <<>>, before |-> Capture, lease |-> saved]
  /\ Quiet /\ UNCHANGED saved

\* resume_proxy_available, with no ownership
Available == \A s \in active, p \in Protocols : ~settings[s].on[p]

PrepareAuto ==
  /\ At("idle") /\ Available
  /\ op' = [Idle EXCEPT !.kind = "auto", !.at = "recheck", !.before = Capture]
  /\ Quiet /\ UNCHANGED saved

\* prepared again after the core has started
RecheckAuto ==
  /\ At("recheck")
  /\ op' = IF Available /\ Capture = op.before THEN [op EXCEPT !.at = "enable"] ELSE Idle
  /\ Quiet /\ UNCHANGED saved

\* the snapshot of an earlier start is kept, that of an automatic one replaced
TakeSnapshot ==
  /\ At("enable")
  /\ IF op.kind = "auto" /\ Capture # op.before THEN Ends /\ UNCHANGED saved
       /\ UNCHANGED holes
     ELSE /\ saved' = IF op.kind = "auto" \/ saved = Nothing THEN Capture ELSE saved
          /\ op' = [op EXCEPT !.at = "apply"]
          /\ holes' = IF saved \notin {Nothing, saved'} THEN holes \union {"replaced"} ELSE holes
  /\ UNCHANGED <<unix, settings, active, users, edited, lost>>

\* a refused automatic enable has written nothing and restores nothing
SnapshotFails ==
  /\ At("enable")
  /\ op' = IF op.kind = "auto" THEN Idle ELSE [op EXCEPT !.at = "rollback"]
  /\ Quiet /\ UNCHANGED saved

Failed ==
  op' = IF op.kind = "auto" THEN [op EXCEPT !.at = "release"] ELSE [op EXCEPT !.at = "rollback"]

Apply ==
  /\ At("apply")
  /\ IF active = {} THEN Failed ELSE op' = [op EXCEPT !.at = "write", !.plan = ApplyPlan]
  /\ Quiet /\ UNCHANGED saved

\* one command of the plan
Command(step, next) ==
  /\ At(step) /\ op.plan # <<>>
  /\ LET command == Head(op.plan)
         s == command.service
     IN  /\ settings' = [settings EXCEPT ![s] = After(@, command)]
         /\ op' = [op EXCEPT !.plan = Tail(@), !.at = IF Len(op.plan) = 1 THEN next ELSE @]
         /\ edited' = edited \ {s}
         /\ lost' = IF s \in edited THEN lost \union {s} ELSE lost
  /\ Still /\ UNCHANGED saved

Write == Command("write", "verify")
\* ... or the command fails, or save_settings does
CommandFails == op.at \in {"write", "save"} /\ Failed /\ Quiet /\ UNCHANGED saved

\* verify_system_proxy_inner, over the services there are by now
Verify ==
  /\ At("verify")
  /\ IF ~Matches(Capture) THEN Failed
     ELSE op' = IF op.kind = "switch" THEN [op EXCEPT !.at = "save"] ELSE Idle
  /\ Quiet /\ UNCHANGED saved

\* save_settings
Save ==
  /\ At("save") /\ Ends /\ Quiet /\ UNCHANGED saved

----------------------------------------------------------------------------
(* Releasing, and rolling a transaction back.                              *)

\* deletion_snapshot_owned
DeletionOwned ==
  saved = Nothing \/ saved = Capture \/ [s \in DOMAIN saved |-> Applied(saved[s])] = Capture

\* restore_system_proxy of a Stop, the cleanup or the deletion of a profile
BeginRelease ==
  /\ At("idle")
  /\ \E kind \in {"stop", "delete"} :
       /\ kind = "delete" => DeletionOwned
       /\ op' = [Idle EXCEPT !.kind = kind, !.at = "release"]
  /\ Quiet /\ UNCHANGED saved

Released == IF op.kind = "leave" THEN op' = [op EXCEPT !.at = "save"] ELSE Ends

Release ==
  /\ At("release")
  /\ IF saved = Nothing THEN Released
     ELSE op' = [op EXCEPT !.plan = RestorePlan(saved),
                           !.at = IF RestorePlan(saved) = <<>> THEN "remove" ELSE "restore"]
  /\ Quiet /\ UNCHANGED saved

Restore == Command("restore", "remove")

\* a release that fails keeps the snapshot for the next one
RestoreFails ==
  /\ op.at \in {"restore", "remove"}
  /\ IF op.kind = "leave" THEN Failed ELSE Ends
  /\ Quiet /\ UNCHANGED saved

Discard == At("remove") /\ saved' = Nothing /\ Released /\ Quiet

Rollback ==
  /\ At("rollback")
  /\ op' = [op EXCEPT !.plan = RestorePlan(op.before),
                      !.at = IF RestorePlan(op.before) = <<>> THEN "compare" ELSE "back"]
  /\ Quiet /\ UNCHANGED saved

Back == Command("back", "compare")

\* commands run with no snapshot on disk: ours is switched on again before the
\* snapshot a release removed is back, or the user's own proxy is rewritten
Torn == op.at \in {"back", "compare"} /\ saved = Nothing
Hole == holes' = IF Torn THEN holes \union {"torn"} ELSE holes

\* only what reads back as it was gives the snapshot back
Compare ==
  /\ At("compare") /\ Ends
  /\ saved' = IF Capture = op.before THEN op.lease ELSE saved
  /\ IF Capture = op.before THEN UNCHANGED holes ELSE Hole
  /\ UNCHANGED <<unix, settings, active, users, edited, lost>>

RollbackFails ==
  /\ op.at \in {"back", "compare"} /\ Ends /\ Hole
  /\ UNCHANGED <<unix, settings, active, saved, users, edited, lost>>

\* the process dies; the next launch restores what a snapshot says
Crash ==
  /\ op.at # "idle" \/ saved # Nothing
  /\ op' = [Idle EXCEPT !.kind = "recover", !.at = "release"] /\ Hole
  /\ UNCHANGED <<unix, settings, active, saved, users, edited, lost>>

----------------------------------------------------------------------------
(* The user, other programs and the network.                               *)

Foreign == [server |-> [p \in Protocols |-> Theirs], on |-> [p \in Protocols |-> TRUE],
            bypass |-> {Theirs}]

Edit ==
  /\ \E s \in Services : \E new \in {Foreign, [settings[s] EXCEPT !.bypass = @ \union {Theirs}]} :
       /\ new # settings[s]
       /\ settings' = [settings EXCEPT ![s] = new] /\ users' = [users EXCEPT ![s] = new]
       /\ edited' = IF saved # Nothing \/ op # Idle THEN edited \union {s} ELSE edited
       /\ lost' = IF saved # Nothing \/ op # Idle THEN lost ELSE lost \ {s}
  /\ UNCHANGED <<unix, active, saved, op, holes>>

\* a cable is plugged in, a network is left: other services are active
Move ==
  /\ unix = "macos"
  /\ active' \in (SUBSET Services) \ {active}
  /\ holes' = IF saved # Nothing \/ op # Idle THEN holes \union {"moved"} ELSE holes
  /\ UNCHANGED <<unix, settings, saved, op, users, edited, lost>>

UnixNext ==
  \/ /\ UNCHANGED <<faults, outside>>
     /\ \/ BeginTransaction \/ PrepareAuto \/ RecheckAuto \/ TakeSnapshot
        \/ Apply \/ Write \/ Verify \/ Save
        \/ BeginRelease \/ Release \/ Restore \/ Discard
        \/ Rollback \/ Back \/ Compare
  \/ /\ faults < MaxFaults /\ faults' = faults + 1 /\ UNCHANGED outside
     /\ SnapshotFails \/ CommandFails \/ RestoreFails \/ RollbackFails \/ Crash
  \/ /\ outside < MaxOutside /\ outside' = outside + 1 /\ UNCHANGED faults
     /\ Edit \/ Move

Setting == [server : [Protocols -> {None, Ours, Theirs}], on : [Protocols -> BOOLEAN],
            bypass : SUBSET {Ours, Theirs}]
IsSnapshot(x) == DOMAIN x \subseteq Services /\ \A s \in DOMAIN x : x[s] \in Setting

UnixTypeOK ==
  /\ IsSnapshot(settings) /\ IsSnapshot(saved) /\ IsSnapshot(users)
  /\ IsSnapshot(op.before) /\ IsSnapshot(op.lease)
  /\ active \subseteq Services /\ edited \subseteq Services /\ lost \subseteq Services
  /\ holes \subseteq {"moved", "torn", "replaced"} /\ faults \in 0..MaxFaults /\ outside \in 0..MaxOutside
  /\ op.at \in {"idle", "recheck", "enable", "apply", "write", "verify", "save", "release",
                "restore", "remove", "rollback", "back", "compare"}

----------------------------------------------------------------------------
\* Traffic led to the local port
Led(x) == \E p \in Protocols : x.on[p] /\ x.server[p] = Ours

\* Whatever leads to the local port is in a snapshot that leads elsewhere, so
\* that a Stop or the next launch can undo it; unless the network moved to
\* other services meanwhile, or a rollback was cut short.
LedIsCovered ==
  holes \subseteq {"replaced"} /\ ~Torn =>
    /\ \A s \in Services : Led(settings[s]) => s \in DOMAIN saved
    /\ \A s \in DOMAIN saved : ~Led(saved[s])

\* A protocol that is off is as good as one that has no server.
SameEffect(x, y) ==
  /\ x.bypass = y.bypass
  /\ \A p \in Protocols : /\ x.on[p] = y.on[p]
                          /\ x.on[p] \/ y.server[p] # None => x.server[p] = y.server[p]

\* With no snapshot left the settings are those the user had, or made since;
\* unless an automatic resume took what a failed release had left for them.
UsersSettingsReturn ==
  holes = {} /\ op = Idle /\ saved = Nothing =>
    \A s \in Services \ (lost \union edited) : SameEffect(settings[s], users[s])

\* An automatic resume replaces a snapshot only where nobody's proxy is on, even
\* after the core has taken its time to start (platform.rs 84, 226).
ResumeIsWelcome ==
  op.kind = "auto" /\ saved' # saved /\ saved' # Nothing =>
    \A s \in active, p \in Protocols : ~settings[s].on[p] /\ ~saved'[s].on[p]
=============================================================================
