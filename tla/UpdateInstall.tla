--------------------------- MODULE UpdateInstall ---------------------------
(***************************************************************************)
(* The software update on macOS, from the session of app_update.rs (check, *)
(* download, cancel, install) through the coordinator of                   *)
(* app_update/transaction.rs, with what it leaves on disk at every step:   *)
(* the application bundle and its backup (macos_update_install.rs), the    *)
(* receipt (update_receipt.rs) and the marker of the services that were    *)
(* detached (macos_upgrade.rs).  The process may die between any two       *)
(* steps; the next launch runs macos_upgrade::recover and confirms the     *)
(* receipt.  "old" is the version the user has, "new" the update.          *)
(***************************************************************************)
EXTENDS Naturals

VARIABLES
  upAt,       \* what the process is doing; "down" when there is none
  step,       \* the next step of an install or of a recovery
  running,    \* the version of the process, or of the last one
  session,    \* Session of app_update.rs: [phase, stage, info, ready, retry, cancelled]
  disk,       \* what survives: [bundle, backup, receipt, marker, tun, login, loginSetting]
  touched,    \* history: the install in progress has stopped or changed something
  wanted      \* history: the services the user had and did not remove

updateVars == <<upAt, step, running, session, disk, touched, wanted>>

Versions == {"old", "new"}
Stages == {"preflight", "stopping", "services", "replacing", "restarting"}
\* the steps that write a stage to the receipt, and what follows each
StageOf == [toPreflight |-> "preflight", toStopping |-> "stopping", toServices |-> "services",
            toReplacing |-> "replacing", toRestarting |-> "restarting"]
NextOf == [toPreflight |-> "verify", toStopping |-> "stop", toServices |-> "prepare",
           toReplacing |-> "replace", toRestarting |-> "restart"]
Forward == DOMAIN StageOf \union
  {"verify", "backup", "stop", "prepare", "detachTun", "detachLogin", "replace", "restart"}
Recovery == {"login", "tun", "marker"}

NoMarker == [tun |-> FALSE, login |-> FALSE, there |-> FALSE]
NoReceipt == [stage |-> "none", failedAt |-> "none", backup |-> FALSE]
FreshSession ==
  [phase |-> "idle", stage |-> "", info |-> FALSE, ready |-> FALSE, retry |-> FALSE,
   cancelled |-> FALSE]

UpdateTypeOK ==
  /\ upAt \in {"down", "idle", "checking", "downloading", "confirming", "install", "boot"}
  /\ step \in {"none", "undoFiles", "failed"} \union Forward \union Recovery
  /\ running \in Versions
  /\ session.phase \in {"idle", "checking", "available", "current", "downloading", "ready",
                        "installing", "failed", "cancelled"}
  /\ session.stage \in Stages \union {"", "download", "verified"}
  /\ disk.bundle \in Versions \union {"none", "broken"}
  /\ disk.backup \in {"none", "old"}
  /\ disk.receipt \in [stage: Stages \union {"none", "failed", "confirmed"},
                       failedAt: Stages \union {"none"}, backup: BOOLEAN]
  /\ disk.marker \in [tun: BOOLEAN, login: BOOLEAN, there: BOOLEAN]
  /\ disk.tun \in Versions \union {"off"} /\ disk.login \in BOOLEAN
  /\ touched \in BOOLEAN /\ wanted \in [tun: BOOLEAN, login: BOOLEAN]

UpdateInit ==
  /\ upAt = "idle" /\ step = "none" /\ running = "old" /\ session = FreshSession /\ touched = FALSE
  /\ \E t \in {"off", "old"}, l \in BOOLEAN :
       /\ disk = [bundle |-> "old", backup |-> "none", receipt |-> NoReceipt, marker |-> NoMarker,
                  tun |-> t, login |-> l, loginSetting |-> l]
       /\ wanted = [tun |-> t = "old", login |-> l]

----------------------------------------------------------------------------
(* The session: AppUpdateManager admits one operation at a time.           *)

Quiet == UNCHANGED <<step, running, disk, touched, wanted>>

CheckBegins ==
  /\ upAt = "idle" /\ upAt' = "checking"
  /\ session' = [FreshSession EXCEPT !.phase = "checking"]
  /\ Quiet

CheckEnds ==
  /\ upAt = "checking" /\ upAt' = "idle"
  /\ session' \in {[session EXCEPT !.phase = "failed"],
                   [session EXCEPT !.phase = IF running = "old" THEN "available" ELSE "current",
                                   !.info = running = "old"]}
  /\ Quiet

DownloadBegins ==
  /\ upAt = "idle" /\ session.info /\ upAt' = "downloading"
  /\ session' = [session EXCEPT !.phase = "downloading", !.stage = "download", !.ready = FALSE,
                                !.retry = FALSE, !.cancelled = FALSE]
  /\ Quiet

\* up to Policy::attempts requests; only verified bytes become ready
DownloadDone ==
  /\ upAt = "downloading" /\ upAt' = "idle"
  /\ session' = [session EXCEPT !.phase = "ready", !.stage = "verified", !.ready = TRUE]
  /\ Quiet

\* AppUpdateManager::finish_error
DownloadFails ==
  /\ upAt = "downloading" /\ upAt' = "idle"
  /\ session' = [session EXCEPT !.phase = IF session.cancelled THEN "cancelled" ELSE "failed",
                                !.retry = session.ready /\ session.stage = "preflight"]
  /\ Quiet

CancelDownload ==
  /\ session.phase = "downloading"
  /\ session' = [session EXCEPT !.cancelled = TRUE]
  /\ Quiet /\ UNCHANGED upAt

\* select_install; an error leaves the session as it was
InstallBegins ==
  /\ upAt = "idle" /\ session.info /\ session.ready
  /\ session.phase = "ready" \/ (session.phase = "failed" /\ session.retry)
  /\ upAt' = "install" /\ step' = "toPreflight"
  /\ session' = [session EXCEPT !.phase = "installing", !.stage = "preflight", !.retry = FALSE]
  /\ touched' = FALSE
  /\ UNCHANGED <<running, disk, wanted>>

----------------------------------------------------------------------------
(* run_install.  Every step may fail or panic, which catch_unwind turns    *)
(* into a failure.                                                         *)

Go(from, to) == upAt = "install" /\ step = from /\ step' = to /\ UNCHANGED <<upAt, running, wanted>>

\* where a failure leads: past the preparation of the services it is undone
\* first (install_with_service_transaction)
UndoFrom == IF disk.marker.there THEN "login" ELSE "failed"
AfterFailure ==
  IF step \in {"prepare", "detachTun", "detachLogin", "toReplacing", "replace"}
    THEN UndoFrom ELSE "failed"

StepFails ==
  /\ step \in Forward /\ Go(step, AfterFailure)
  /\ session' = [session EXCEPT !.ready = @ /\ step \notin {"verify", "stop"}]
  /\ touched' = (touched \/ step \in {"stop", "prepare", "detachTun", "detachLogin", "replace"})
  /\ \* a failed detach may still be completed by the system; a failed stop is partial
     \/ step = "detachTun" /\ disk' = [disk EXCEPT !.tun = "off"]
     \/ step = "detachLogin" /\ disk' = [disk EXCEPT !.login = FALSE]
     \/ UNCHANGED disk

\* update_receipt::write, then the stage of the session; a new attempt forgets
\* the name of an earlier backup, whose directory stays
Written(stage) ==
  [stage |-> stage, failedAt |-> "none", backup |-> disk.receipt.backup /\ stage # "preflight"]

\* mutant: the stage is written to the receipt only
EnterStageSilently(to) ==
  /\ Go(to, NextOf[to])
  /\ disk' = [disk EXCEPT !.receipt = Written(StageOf[to])]
  /\ UNCHANGED <<session, touched>>

EnterStage(to) ==
  LET stage == StageOf[to] IN
  /\ Go(to, NextOf[to])
  /\ disk' = [disk EXCEPT !.receipt = Written(stage)]
  /\ session' = [session EXCEPT !.stage = stage]
  /\ UNCHANGED touched

VerifyReady ==
  /\ Go("verify", "backup")
  /\ UNCHANGED <<session, disk, touched>>

\* NativeHost::preflight: Backup::prepare, set_backup, retain
MakeBackup ==
  /\ Go("backup", "toStopping") /\ disk.bundle = running
  /\ disk' = [disk EXCEPT !.backup = "old", !.receipt.backup = TRUE]
  /\ UNCHANGED <<session, touched>>

\* ready.take(), then NativeHost::stop
StopAll ==
  /\ Go("stop", "toServices")
  /\ session' = [session EXCEPT !.ready = FALSE]
  /\ touched' = TRUE
  /\ UNCHANGED disk

\* mutant: what an earlier update still owes is forgotten
IntentOfNow ==
  [tun |-> disk.tun # "off", login |-> disk.loginSetting /\ disk.login, there |-> TRUE]

\* macos_upgrade::prepare: the marker holds what is registered now and what an
\* earlier update still owes
IntentNow ==
  [tun |-> disk.tun # "off" \/ disk.marker.tun,
   login |-> disk.loginSetting /\ (disk.login \/ disk.marker.login),
   there |-> TRUE]

\* detach_services: the durable marker comes before either detach
PersistIntent == [disk EXCEPT !.marker = IntentNow]

PrepareServices ==
  /\ IF IntentNow.tun \/ IntentNow.login
       THEN Go("prepare", "detachTun") /\ disk' = PersistIntent
       ELSE Go("prepare", "toReplacing") /\ UNCHANGED disk
  /\ touched' = TRUE
  /\ UNCHANGED session

DetachTun ==
  /\ Go("detachTun", "detachLogin")
  /\ disk' = [disk EXCEPT !.tun = "off"]
  /\ UNCHANGED <<session, touched>>

DetachLogin ==
  /\ Go("detachLogin", "toReplacing")
  /\ disk' = [disk EXCEPT !.login = @ /\ ~disk.marker.login]
  /\ UNCHANGED <<session, touched>>

\* Update::install (external) replaces the bundle; transaction verifies it
Replace ==
  /\ \E b \in {"old", "new", "none", "broken"} :
       /\ disk' = [disk EXCEPT !.bundle = b]
       /\ \/ b = "new" /\ Go("replace", "toRestarting")
          \/ Go("replace", "undoFiles")
  /\ touched' = TRUE
  /\ UNCHANGED session

\* the failed bundle is moved into the backup's directory, then the previous
\* application back to its place; either rename may fail
UndoFiles ==
  /\ Go("undoFiles", UndoFrom)
  /\ \/ disk' = [disk EXCEPT !.bundle = "old", !.backup = "none"]
     \/ disk' = [disk EXCEPT !.bundle = "none"]
     \/ UNCHANGED disk
  /\ UNCHANGED <<session, touched>>

\* AppHandle::restart
Restart ==
  /\ upAt = "install" /\ step = "restart"
  /\ upAt' = "down" /\ step' = "none" /\ session' = FreshSession
  /\ UNCHANGED <<running, disk, touched, wanted>>

\* run_install's error branch: the session, then the receipt, whose write may fail
RetryOffered == session.ready /\ session.stage = "preflight"

FailInstall ==
  /\ upAt = "install" /\ step = "failed" /\ upAt' = "idle" /\ step' = "none"
  /\ session' = [session EXCEPT !.phase = "failed", !.retry = RetryOffered]
  /\ \/ UNCHANGED disk
     \/ disk' = [disk EXCEPT !.receipt.stage = "failed", !.receipt.failedAt = session.stage]
  /\ UNCHANGED <<running, touched, wanted>>

----------------------------------------------------------------------------
(* macos_upgrade::recover, as the rollback of an install or at launch.     *)

Recovers(from) == upAt \in {"install", "boot"} /\ step = from
Proceed(to) == step' = to /\ UNCHANGED upAt
Leave ==
  IF upAt = "install" THEN step' = "failed" /\ UNCHANGED upAt ELSE step' = "none" /\ upAt' = "idle"
\* Marker::validate and codesign::validate accept a whole bundle only
BundleValid == disk.bundle \in Versions

RecoverFails ==
  /\ step \in Recovery /\ Leave
  \* the registration may have happened although its handshake did not
  /\ \/ step = "tun" /\ disk.marker.tun /\ BundleValid
        /\ disk' = [disk EXCEPT !.tun = disk.bundle]
     \/ UNCHANGED disk
  /\ UNCHANGED <<running, session, touched, wanted>>

RecoverLogin ==
  /\ Recovers("login") /\ BundleValid /\ Proceed("tun")
  /\ disk' = [disk EXCEPT !.login = @ \/ (disk.marker.login /\ disk.loginSetting),
                          !.marker.login = FALSE]
  /\ UNCHANGED <<running, session, touched, wanted>>

\* admin::register: ready only when the helper has this process's version
RecoverTun ==
  /\ Recovers("tun") /\ Proceed("marker")
  /\ disk.marker.tun => disk.bundle = running
  /\ disk' = IF disk.marker.tun THEN [disk EXCEPT !.tun = running] ELSE disk
  /\ UNCHANGED <<running, session, touched, wanted>>

RecoverMarker ==
  /\ Recovers("marker") /\ Leave
  /\ disk' = [disk EXCEPT !.marker = NoMarker]
  /\ UNCHANGED <<running, session, touched, wanted>>

----------------------------------------------------------------------------
(* Crash and launch                                                        *)

Crash ==
  /\ upAt # "down" /\ upAt' = "down" /\ step' = "none"
  /\ session' = FreshSession
  /\ UNCHANGED <<running, disk, touched, wanted>>

Launch ==
  /\ upAt = "down" /\ BundleValid
  /\ running' = disk.bundle
  /\ IF disk.marker.there
       THEN upAt' = "boot" /\ step' = "login"
       ELSE upAt' = "idle" /\ step' = "none"
  /\ touched' = FALSE
  /\ UNCHANGED <<session, disk, wanted>>

\* no application is left at its place: the user runs a complete installer
InstallerRuns ==
  /\ upAt = "down" /\ ~BundleValid
  /\ \E b \in Versions : disk' = [disk EXCEPT !.bundle = b]
  /\ UNCHANGED <<upAt, step, running, session, touched, wanted>>

\* update_receipt::summary and confirm_at: the running version and its bundle
\* are verified, then the backup goes, then the receipt says so
ConfirmBackup ==
  /\ upAt = "idle" /\ upAt' = "confirming"
  /\ disk.receipt.stage \notin {"none", "confirmed"} /\ running = "new" /\ disk.bundle = "new"
  /\ disk' = [disk EXCEPT !.backup = IF disk.receipt.backup THEN "none" ELSE @]
  /\ UNCHANGED <<step, running, session, touched, wanted>>

ConfirmReceipt ==
  /\ upAt = "confirming" /\ upAt' = "idle"
  /\ \/ disk' = [disk EXCEPT !.receipt = [NoReceipt EXCEPT !.stage = "confirmed"]]
     \/ UNCHANGED disk
  /\ UNCHANGED <<step, running, session, touched, wanted>>

\* uninstall_tun_helper: forget_tun_intent first, then the service
UserUninstallsTun ==
  /\ upAt = "idle"
  /\ disk.tun # "off" \/ disk.marker.tun
  /\ disk' = [disk EXCEPT !.tun = "off",
                          !.marker = IF disk.marker.login THEN [disk.marker EXCEPT !.tun = FALSE] ELSE NoMarker]
  /\ wanted' = [wanted EXCEPT !.tun = FALSE]
  /\ UNCHANGED <<upAt, step, running, session, touched>>

\* set_startup_preferences: the user turns the login entry off
UserTurnsLoginOff ==
  /\ upAt = "idle" /\ disk.loginSetting
  /\ disk' = [disk EXCEPT !.login = FALSE, !.loginSetting = FALSE]
  /\ wanted' = [wanted EXCEPT !.login = FALSE]
  /\ UNCHANGED <<upAt, step, running, session, touched>>

UpdateNext ==
  \/ CheckBegins \/ CheckEnds \/ DownloadBegins \/ DownloadDone \/ DownloadFails
  \/ CancelDownload \/ InstallBegins \/ StepFails
  \/ \E to \in DOMAIN StageOf : EnterStage(to)
  \/ VerifyReady \/ MakeBackup \/ StopAll \/ PrepareServices \/ DetachTun \/ DetachLogin
  \/ Replace \/ UndoFiles \/ Restart \/ FailInstall
  \/ RecoverFails \/ RecoverLogin \/ RecoverTun \/ RecoverMarker
  \/ Crash \/ Launch \/ InstallerRuns \/ ConfirmBackup \/ ConfirmReceipt
  \/ UserUninstallsTun \/ UserTurnsLoginOff

----------------------------------------------------------------------------
\* Wherever the process dies or a rename fails, a whole application is left:
\* at its place, or in the backup ("never remove the only surviving copy",
\* macos_update_install.rs 1).
AppSurvives == disk.bundle \in Versions \/ disk.backup = "old"

\* A service the user had before an update is registered, or the marker still
\* owes it to the next launch; only the user can end it.
ServicesSurvive ==
  /\ wanted.tun => disk.tun # "off" \/ disk.marker.tun
  /\ wanted.login => disk.login \/ disk.marker.login

\* When the window offers to retry the install, or the receipt says the proxy
\* was not stopped, the attempt has in fact touched nothing.
UndisturbedIsTrue ==
  session.retry \/ disk.receipt.failedAt = "preflight" => ~touched

=============================================================================
