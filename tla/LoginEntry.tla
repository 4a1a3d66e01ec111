----------------------------- MODULE LoginEntry -----------------------------
(***************************************************************************)
(* Start at login (startup.rs, startup_macos.rs).  The setting             *)
(* launch_at_login and the system's own list are two stores: a save must   *)
(* change both or neither, an entry of an older version moves to a new     *)
(* name, and what the system's settings forbid stays forbidden.            *)
(*                                                                         *)
(* Both platforms keep a "new" and an "old" entry: the values Serylane and *)
(* RouteDeck of the Run key with their StartupApproved values on Windows;  *)
(* the SMAppService and the plist of the LaunchAgent with the choices made *)
(* in the system settings on macOS.  Every mutation holds the              *)
(* configuration permit, so there is one job at a time; the user, the      *)
(* system and a crash come between any two of its steps.                   *)
(***************************************************************************)
EXTENDS Naturals

VARIABLES
  os,        \* "windows" or "macos"
  pref,      \* settings.launch_at_login in settings.json
  entry,     \* what the system has: "none", "ours" or "other" (another copy's)
  allowed,   \* the system's switch of each entry: "unset", "on", "off"
  removing,  \* SMAppService: "no", "asked", or "orphan" of a process that died
  marker,    \* login_was_enabled in the marker of an upgrade
  queued,    \* a migration of macOS waits for the permit
  job,       \* the owner of the permit
  answer     \* what the last save has answered

loginVars == <<os, pref, entry, allowed, removing, marker, queued, job, answer>>

Names == {"new", "old"}
System == <<entry, allowed, removing>>

Present ==
  IF os = "windows" THEN entry["new"] # "none"
  ELSE entry["new"] = "ours" \/ entry["old"] = "ours"

\* the application will start at the next login
Effective == \E n \in Names : entry[n] = "ours" /\ allowed[n] # "off"

\* the system knows the application and has been told not to start it
Disabled == ~Effective /\ \E n \in Names : entry[n] = "ours"

\* the service is registered and not approved
NativeOff == os = "macos" /\ entry["new"] = "ours" /\ allowed["new"] = "off"

Stores == [entry |-> entry, allowed |-> allowed, pref |-> pref, present |-> Present,
           effective |-> Effective, disabled |-> Disabled]
NoJob == [op |-> "none", at |-> "idle", value |-> FALSE, back |-> FALSE,
          old |-> Stores, outside |-> FALSE]

LoginTypeOK ==
  /\ pref \in BOOLEAN /\ marker \in BOOLEAN /\ queued \in BOOLEAN
  /\ \A n \in Names : entry[n] \in {"none", "ours", "other"}
                      /\ allowed[n] \in {"unset", "on", "off"}
  /\ removing \in {"no", "asked", "orphan"}
  /\ job.op \in {"none", "save", "repair", "migrate", "recover", "detach", "cleanup"}
  /\ answer \in {"none", "saved", "refused", "both"}

\* An earlier version may have left its own entry; only the new version
\* writes the new name.
LoginInit ==
  /\ os \in {"windows", "macos"}
  /\ pref \in BOOLEAN
  /\ entry \in [Names -> {"none", "ours", "other"}]
  /\ allowed \in [Names -> {"unset", "on", "off"}]
  /\ \A n \in Names : entry[n] = "none" => allowed[n] = "unset"
  /\ os = "macos" => entry["new"] # "other"
  /\ removing = "no" /\ marker = FALSE /\ queued = FALSE
  /\ job = NoJob /\ answer = "none"

----------------------------------------------------------------------------
Goto(at) == job' = [job EXCEPT !.at = at]
Done(a) == answer' = a /\ job' = [NoJob EXCEPT !.old = job.old, !.outside = job.outside]

Begin(op, at, value) ==
  /\ job.at = "idle"
  /\ job' = [op |-> op, at |-> at, value |-> value, back |-> FALSE,
             old |-> Stores, outside |-> FALSE]
  /\ answer' = "none"

\* save_with_login_registration: a failure before the end is rolled back; a
\* failure of the way back is told apart
Failed ==
  CASE job.op = "save" /\ ~job.back ->
         /\ job' = [job EXCEPT !.at = IF os = "windows" THEN "backRun" ELSE "write",
                               !.back = TRUE, !.value = job.old.present]
         /\ UNCHANGED answer
    [] job.op = "save" /\ job.back -> Done("both")
    [] OTHER -> Done("none")

\* what follows a write that has succeeded
Written ==
  CASE job.op = "save" /\ ~job.back -> Goto("verify") /\ UNCHANGED answer
    [] job.op = "save" /\ job.back -> Done("refused")
    [] job.op = "recover" -> Goto("enabled") /\ UNCHANGED answer
    [] job.op = "repair" /\ marker /\ ~NativeOff ->   \* then macos_upgrade::recover
         /\ job' = [job EXCEPT !.op = "recover", !.at = "write", !.value = TRUE, !.old = Stores]
         /\ UNCHANGED answer
    [] OTHER -> Done("none")

Rest == <<os, pref, marker, queued>>

----------------------------------------------------------------------------
(* save_startup_settings                                                   *)

\* a save that leaves the preference alone writes settings.json only; both
\* kinds are followed by the migration
PlainSave ==
  /\ job.at = "idle" /\ queued' = (os = "macos")
  /\ UNCHANGED <<os, pref, marker, System, job, answer>>

SaveBegins(to) ==
  /\ Begin("save", "write", to) /\ to # pref
  /\ os = "macos" => removing # "asked"   \* read() fails: nothing has changed
  /\ UNCHANGED <<Rest, System>>

Verify ==
  /\ job.at = "verify"
  /\ \/ Failed
     \/ Present = job.value /\ Goto("persist") /\ UNCHANGED answer
  /\ UNCHANGED <<Rest, System>>

Persist ==
  /\ job.at = "persist"
  /\ \/ Failed /\ UNCHANGED <<pref, queued>>
     \/ /\ pref' = job.value
        /\ IF os = "windows"
           THEN /\ job' = [job EXCEPT !.op = "migrate", !.at = "own", !.old = Stores,
                                     !.outside = FALSE]
                /\ UNCHANGED queued
           ELSE job' = [NoJob EXCEPT !.old = job.old, !.outside = job.outside] /\ queued' = TRUE
        /\ answer' = "saved"
  /\ UNCHANGED <<os, marker, System>>

----------------------------------------------------------------------------
(* Windows: auto-launch's enable and disable, the exact way back, and      *)
(* migrate_login_entry                                                     *)

\* enable() writes the Run value and then resets StartupApproved
WindowsEnable ==
  /\ os = "windows" /\ job.at = "write" /\ job.value /\ job.op \in {"save", "repair"}
  /\ \/ Failed /\ UNCHANGED System
     \/ /\ entry' = [entry EXCEPT !["new"] = "ours"]
        /\ Goto("approve") /\ UNCHANGED <<allowed, removing, answer>>
  /\ UNCHANGED Rest

WindowsApprove ==
  /\ os = "windows" /\ job.at = "approve"
  /\ \/ Failed /\ UNCHANGED System
     \/ /\ allowed' = [allowed EXCEPT !["new"] = "on"]
        /\ Written /\ UNCHANGED <<entry, removing>>
  /\ UNCHANGED Rest

WindowsDisable ==
  /\ os = "windows" /\ job.at = "write" /\ ~job.value
  /\ \/ Failed /\ UNCHANGED entry
     \/ entry' = [entry EXCEPT !["new"] = "none"] /\ Written
  /\ UNCHANGED <<Rest, allowed, removing>>

\* both values are put back as they were, whichever fails; back turns FALSE
\* when the first has failed
RestoreRun ==
  /\ os = "windows" /\ job.at = "backRun"
  /\ \/ job' = [job EXCEPT !.at = "backApproval", !.value = FALSE] /\ UNCHANGED entry
     \/ /\ entry' = [entry EXCEPT !["new"] = job.old.entry["new"]]
        /\ job' = [job EXCEPT !.at = "backApproval", !.value = TRUE]
  /\ UNCHANGED <<Rest, answer, allowed, removing>>

RestoreApproval ==
  /\ os = "windows" /\ job.at = "backApproval"
  /\ \/ Done("both") /\ UNCHANGED allowed
     \/ /\ allowed' = [allowed EXCEPT !["new"] = job.old.allowed["new"]]
        /\ Done(IF job.value THEN "refused" ELSE "both")
  /\ UNCHANGED <<Rest, entry, removing>>

\* after a save, and at every launch
WindowsMigrates ==
  /\ os = "windows" /\ Begin("migrate", "own", FALSE)
  /\ UNCHANGED <<Rest, System>>

\* an entry of another copy is left alone; the switch of the old name is
\* copied unless the new name has one
CarrySwitch ==
  /\ job.at = "own"
  /\ IF entry["new"] = "other" \/ entry["old"] # "ours"
     THEN Done(answer) /\ UNCHANGED allowed
     ELSE \/ Done(answer) /\ UNCHANGED allowed
          \/ /\ allowed' = IF pref /\ allowed["new"] = "unset"
                           THEN [allowed EXCEPT !["new"] = allowed["old"]] ELSE allowed
             /\ Goto(IF pref THEN "adopt" ELSE "forget") /\ UNCHANGED answer
  /\ UNCHANGED <<Rest, entry, removing>>

Adopt ==
  /\ job.at = "adopt"
  /\ \/ Done(answer) /\ UNCHANGED entry
     \/ /\ entry' = [entry EXCEPT !["new"] = "ours"]
        /\ Goto("forget") /\ UNCHANGED answer
  /\ UNCHANGED <<Rest, allowed, removing>>

Forget ==
  /\ job.at = "forget"
  /\ Done(answer)
  /\ \/ UNCHANGED entry
     \/ entry' = [entry EXCEPT !["old"] = "none"]
  /\ UNCHANGED <<Rest, allowed, removing>>

\* remove_owned_login_entries, run by the uninstaller
Cleanup ==
  /\ os = "windows" /\ Begin("cleanup", "names", FALSE)
  /\ UNCHANGED <<Rest, System>>

CleanupNames ==
  /\ job.at = "names"
  /\ \E S \in SUBSET {n \in Names : entry[n] = "ours"} :
       /\ "old" \in S => "new" \in S \/ entry["new"] # "ours"
       /\ entry' = [n \in Names |-> IF n \in S THEN "none" ELSE entry[n]]
  /\ Done("none")
  /\ UNCHANGED <<Rest, allowed, removing>>

----------------------------------------------------------------------------
(* macOS: write(enabled)                                                   *)

LegacyOn == entry["old"] = "ours" /\ allowed["old"] # "off"
NativeOn == entry["new"] = "ours" /\ allowed["new"] # "off"

\* a registered service is left to the system; an old entry that is not
\* known to be allowed is not replaced
MayRegister == removing # "asked" /\ (entry["old"] = "ours" => LegacyOn)

MacEnable ==
  /\ os = "macos" /\ job.at = "write" /\ job.value
  /\ \/ Failed /\ UNCHANGED entry
     \/ /\ removing # "asked" /\ entry["new"] = "ours"
        /\ Goto("drop") /\ UNCHANGED <<entry, answer>>
     \/ /\ entry["new"] = "none" /\ MayRegister
        /\ entry' = [entry EXCEPT !["new"] = "ours"]
        /\ Goto("drop") /\ UNCHANGED answer
  /\ UNCHANGED <<Rest, allowed, removing>>

\* remove_legacy_after_registration
Drop ==
  /\ job.at = "drop"
  /\ \/ Failed /\ UNCHANGED entry
     \/ /\ entry' = IF NativeOn /\ LegacyOn THEN [entry EXCEPT !["old"] = "none"] ELSE entry
        /\ Written
     \* launchctl does not answer: the old entry is kept
     \/ UNCHANGED entry /\ Written
  /\ UNCHANGED <<Rest, allowed, removing>>

AfterRemoval ==
  CASE job.op = "repair" -> Goto("register") /\ UNCHANGED answer
    [] job.op = "detach" -> Done("none")
    [] OTHER -> Goto("remove") /\ UNCHANGED answer

\* Service::unregister
Unregister ==
  /\ os = "macos"
  /\ \/ job.at = "write" /\ ~job.value
     \/ job.at = "unregister"
  /\ \/ Failed /\ UNCHANGED removing
     \/ removing # "asked" /\ entry["new"] = "none" /\ AfterRemoval /\ UNCHANGED removing
     \/ /\ removing # "asked" /\ entry["new"] = "ours"
        /\ removing' = "asked" /\ Goto("wait") /\ UNCHANGED answer
  /\ UNCHANGED <<Rest, entry, allowed>>

RemovalCompletes ==
  /\ job.at = "wait" /\ removing = "asked"
  /\ removing' = "no"
  /\ \/ entry' = [entry EXCEPT !["new"] = "none"] /\ AfterRemoval
     \/ Failed /\ UNCHANGED entry
  /\ UNCHANGED <<Rest, allowed>>

\* recv_timeout: the removal goes on, and `pending` says so
RemovalTimesOut ==
  /\ job.at = "wait" /\ Failed
  /\ UNCHANGED <<Rest, System>>

RemoveLegacy ==
  /\ job.at = "remove"
  /\ \/ Failed /\ UNCHANGED entry
     \/ /\ entry' = [entry EXCEPT !["old"] = IF @ = "ours" THEN "none" ELSE @]
        /\ Written
  /\ UNCHANGED <<Rest, allowed, removing>>

----------------------------------------------------------------------------
(* migration, repair and upgrade                                           *)

\* settings are read again under the permit
MacMigrates ==
  /\ os = "macos" /\ queued /\ job.at = "idle"
  /\ queued' = FALSE
  /\ IF pref /\ LegacyOn /\ ~NativeOff
     THEN Begin("migrate", "write", TRUE)
     ELSE UNCHANGED <<job, answer>>
  /\ UNCHANGED <<os, pref, marker, System>>

\* permit refused, or launchctl not readable
MigrationDropped ==
  /\ queued /\ queued' = FALSE
  /\ UNCHANGED <<os, pref, marker, System, job, answer>>

\* repair_startup_registration: not against a "no" the system has told; an
\* old switch that cannot be read is no "no"
ToldNo ==
  /\ removing # "asked"
  /\ IF os = "windows" \/ entry["new"] = "ours" THEN allowed["new"] = "off"
     ELSE entry["old"] = "ours" /\ allowed["old"] = "off"

RepairBegins ==
  /\ pref
  /\ ~ToldNo \/ (os = "windows" \/ entry["new"] # "ours")   \* the reading fails
  /\ Begin("repair", IF os = "windows" THEN "write" ELSE "unregister", TRUE)
  /\ UNCHANGED <<Rest, System>>

RepairRegisters ==
  /\ job.at = "register"
  /\ \/ Failed /\ UNCHANGED entry
     \/ /\ removing # "asked"
        /\ entry' = [entry EXCEPT !["new"] = "ours"]
        /\ Goto("drop") /\ UNCHANGED answer
  /\ UNCHANGED <<Rest, allowed, removing>>

\* macos_upgrade::prepare: the intent is on disk before the service goes
UpgradeDetaches ==
  /\ os = "macos" /\ pref /\ removing # "asked" /\ (NativeOn \/ marker)
  /\ marker' = TRUE
  /\ IF NativeOn THEN Begin("detach", "unregister", FALSE)
     ELSE job.at = "idle" /\ UNCHANGED <<job, answer>>
  /\ UNCHANGED <<os, pref, queued, System>>

\* macos_upgrade::recover with restore_after_upgrade
UpgradeRecovers ==
  /\ os = "macos" /\ marker /\ job.at = "idle"
  /\ IF pref
     THEN /\ ~NativeOff
          /\ Begin("recover", "write", TRUE) /\ UNCHANGED <<marker, queued>>
     ELSE marker' = FALSE /\ queued' \in {queued, TRUE} /\ UNCHANGED <<job, answer>>
  /\ UNCHANGED <<os, pref, System>>

UpgradeRecovered ==
  /\ job.at = "enabled" /\ Done("none")
  /\ IF NativeOn /\ removing # "asked" THEN marker' = FALSE /\ queued' \in {queued, TRUE}
     ELSE UNCHANGED <<marker, queued>>
  /\ UNCHANGED <<os, pref, System>>

----------------------------------------------------------------------------
(* the system, its user and a crash                                        *)

Outside == job' = [job EXCEPT !.outside = TRUE] /\ UNCHANGED <<Rest, answer>>

UserSwitches(n) ==
  /\ entry[n] = "ours"
  /\ allowed' = [allowed EXCEPT ![n] = IF @ = "off" THEN "on" ELSE "off"]
  /\ Outside /\ UNCHANGED <<entry, removing>>

LateRemoval ==
  /\ removing # "no" /\ job.at # "wait"
  /\ removing' = "no"
  /\ entry' \in {entry, [entry EXCEPT !["new"] = "none"]}
  /\ job' = [job EXCEPT !.outside = TRUE] /\ answer' = "none"
  /\ UNCHANGED <<Rest, allowed>>

LoginCrash ==
  /\ job' = NoJob /\ answer' = "none"
  /\ removing' = IF removing = "no" THEN "no" ELSE "orphan"
  /\ queued' = (os = "macos" /\ ~marker)   \* else the recovery queues it
  /\ UNCHANGED <<os, pref, marker, entry, allowed>>

LoginNext ==
  \/ \E to \in BOOLEAN : SaveBegins(to)
  \/ PlainSave \/ Verify \/ Persist
  \/ WindowsEnable \/ WindowsApprove \/ WindowsDisable \/ RestoreRun \/ RestoreApproval
  \/ WindowsMigrates \/ CarrySwitch \/ Adopt \/ Forget \/ Cleanup \/ CleanupNames
  \/ MacEnable \/ Drop \/ Unregister \/ RemovalCompletes \/ RemovalTimesOut \/ RemoveLegacy
  \/ MacMigrates \/ MigrationDropped \/ RepairBegins \/ RepairRegisters
  \/ UpgradeDetaches \/ UpgradeRecovers \/ UpgradeRecovered
  \/ (\E n \in Names : UserSwitches(n)) \/ LateRemoval \/ LoginCrash

----------------------------------------------------------------------------
\* A save that answers has changed the setting and the system, or neither:
\* on Windows to the very values the user had (startup.rs 101).
SaveIsWhole ==
  /\ answer = "saved" /\ ~job.outside => Present = pref
  /\ answer = "refused" =>
       /\ pref = job.old.pref
       /\ ~job.outside => Present = job.old.present
       /\ ~job.outside /\ os = "windows" =>
            \A n \in Names : entry[n] = job.old.entry[n] /\ allowed[n] = job.old.allowed[n]

\* What moves an entry to its new name by itself, at a launch or after an
\* upgrade, does not revive a login the system has been told to leave out.
\* (A switch of the new name, left behind by an entry that is gone, counts as
\* the user's word for it: "keep an existing new-name approval".)
MigrationRevivesNothing ==
  (/\ job.op \in {"migrate", "recover"} /\ job.old.disabled /\ ~job.outside
   /\ (job.old.allowed["new"] # "on" \/ os = "macos"))
  => ~Effective

\* Nor does it lose one on the way, whatever fails and wherever it dies.
MigrationKeepsLogin ==
  (/\ job.op = "migrate" /\ pref /\ job.old.effective /\ ~job.outside
   /\ job.old.allowed["new"] # "off"
   \* enable() has died between its two values, next to an old entry
   /\ ~(os = "windows" /\ job.old.entry["new"] = "ours"
                      /\ job.old.allowed["new"] = "unset")) => Effective

\* Only for a user who wants it is an entry made, and neither the migration
\* nor the uninstaller touches the entry of another copy.
LoginStepOK ==
  \A n \in Names :
    /\ entry[n] # "ours" /\ entry'[n] = "ours"
         => pref \/ job.op = "save"
    /\ entry[n] = "other" /\ job.op \in {"migrate", "recover", "detach", "cleanup"}
         => entry'[n] = "other"

=============================================================================
