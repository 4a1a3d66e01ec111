------------------------------ MODULE ProxyLease ------------------------------
(***************************************************************************)
(* The System Proxy of Windows and the lease that undoes it                *)
(* (src-tauri/src/platform.rs).                                            *)
(*                                                                         *)
(* The registry holds four values, written one by one; the lease file is   *)
(* the journal that tells the next release, perhaps after a crash, whether *)
(* the values are ours and what they were before.  Other clients and the   *)
(* user change the same values at any time.                                *)
(*                                                                         *)
(* One operation runs at a time: while_open, the Stop and cleanup hold     *)
(* runtime_transition.  Abstracted: a bypass list is the set of its        *)
(* entries, those Serylane adds being one; the refresh of WinINET counts   *)
(* as part of the last write; leases of version 0.4.0 are left out.        *)
(***************************************************************************)
EXTENDS Naturals, Sequences

CONSTANTS
  Ports,       \* values of the setting mixed_port, as proxy servers
  Originals,   \* registry contents before Serylane was ever started
  MaxChanges   \* bound of a model: changes made by the user and others

Absent == "absent"
Theirs == "theirs"       \* another client's server, another party's PAC
Required == "required"   \* <local>, localhost, 127.*, [::1]

Proxies == [server : Ports \union {Absent, Theirs},
            bypass : SUBSET {Required, "edited"},
            pac    : {Absent, Theirs},
            enable : BOOLEAN]

ASSUME ProxiesAssumption ==
  /\ Ports \intersect {Absent, Theirs} = {}
  /\ Originals \subseteq Proxies

ASSUME BoundsAssumption == MaxChanges \in Nat

VARIABLES
  reg,      \* HKCU Internet Settings
  lease,    \* system-proxy-snapshot.json
  op,       \* the operation that runs, and why
  pc,       \* where it is
  target,   \* the lease it is about to write
  done,     \* registry values it has written
  guard,    \* ResumeProxyGuard: the baseline of an automatic resume
  txn,      \* what proxy_transaction captured
  users,    \* history: what the user and other clients have chosen
  faults,   \* history: what happened that no journal entry covers
  changes   \* history: how often the user and others changed something

vars == <<reg, lease, op, pc, target, done, guard, txn, users, faults, changes>>

NoLease == [committed |-> FALSE]
NoGuard == [server |-> Absent]
NoTxn == [lease |-> NoLease]

Leases == [original : Proxies, before : Proxies, applied : Proxies,
           committed : BOOLEAN]

(* Manual: a start or a switch to System Proxy; Auto: the restore of the   *)
(* last session; Release: a Stop, cleanup, recovery; Leave: the switch to  *)
(* the manual mode of a running core.                                      *)
Ops == {"None", "Manual", "Auto", "Release", "Leave"}

TypeOK ==
  /\ reg \in Proxies
  /\ lease \in Leases \union {NoLease}
  /\ op \in Ops
  /\ pc \in {"idle", "starting", "capture", "journal", "write", "commit",
             "verify", "release", "remove", "save", "rollback"}
  /\ target \in Leases \union {NoLease}
  /\ done \in 0..4
  /\ guard \in Proxies \union {NoGuard}
  /\ txn \in [before : Proxies, lease : Leases \union {NoLease}] \union {NoTxn}
  /\ users \in Proxies
  /\ faults \subseteq {"raced", "interrupted", "torn", "reapplied"}
  /\ changes \in Nat

Init ==
  /\ reg \in Originals
  /\ users = reg /\ guard = NoGuard
  /\ lease = NoLease /\ target = NoLease /\ txn = NoTxn
  /\ op = "None" /\ pc = "idle" /\ done = 0
  /\ faults = {} /\ changes = 0

-----------------------------------------------------------------------------
(* What the lease knows.                                                   *)

(* windows_same_route: the bypass list does not count.                     *)
SameRoute(p, q) == p.server = q.server /\ p.pac = q.pac /\ p.enable = q.enable

(* windows_transition_matches: each value is that of one end or the other. *)
TransitionMatches(p, from, to) ==
  \A f \in DOMAIN p : p[f] \in {from[f], to[f]}

(* Mutant: an interrupted write is judged as a finished one.               *)
OwnsFinished(l, p) == SameRoute(p, l.applied)

(* WindowsProxyLease::owns                                                 *)
Owns(l, p) ==
  IF l.committed THEN SameRoute(p, l.applied)
                 ELSE TransitionMatches(p, l.before, l.applied)

HasLease == lease # NoLease
Owned == HasLease /\ Owns(lease, reg)

(* restoration(): the original, with the bypass list edited meanwhile.     *)
Restoration(l, p) ==
  IF l.committed /\ p.bypass # l.applied.bypass
  THEN [l.original EXCEPT !.bypass = p.bypass]
  ELSE l.original

(* windows_applied_proxy                                                   *)
AppliedProxy(p, port) ==
  [server |-> port, bypass |-> p.bypass \union {Required},
   pac |-> Absent, enable |-> TRUE]

(* resume_proxy_available                                                  *)
Available(p) == Owned \/ (~p.enable /\ p.pac = Absent)

(* Mutant: the lease of a running proxy is taken over as the original.     *)
ForgetOriginal(p, port) ==
  [original |-> p, before |-> p, applied |-> AppliedProxy(p, port),
   committed |-> FALSE]

(* The lease of an enable: what was ours before keeps its original.        *)
NewLease(p, port) ==
  [original  |-> IF Owned THEN lease.original ELSE p,
   before    |-> p,
   applied   |-> AppliedProxy(p, port),
   committed |-> FALSE]

(* The lease of a release, from the values now to the restored ones.       *)
Restoring(p) ==
  [original |-> Restoration(lease, p), before |-> p,
   applied |-> Restoration(lease, p), committed |-> FALSE]

-----------------------------------------------------------------------------
Goto(l) == pc' = l

Finish ==
  /\ pc' = "idle" /\ op' = "None" /\ done' = 0
  /\ target' = NoLease /\ txn' = NoTxn /\ guard' = NoGuard

(* restore_snapshot: server, bypass list, PAC, then the switch.            *)
WriteOrder == <<"server", "bypass", "pac", "enable">>

WriteValue(from) ==
  /\ done < 4
  /\ reg' = [reg EXCEPT ![WriteOrder[done + 1]] = from[WriteOrder[done + 1]]]
  /\ done' = done + 1

-----------------------------------------------------------------------------
(* An explicit enable, and the automatic one.                              *)

(* proxy_transaction captures first.                                       *)
BeginTransaction(kind, first) ==
  /\ pc = "idle"
  /\ op' = kind
  /\ txn' = [before |-> reg, lease |-> lease]
  /\ Goto(first)
  /\ UNCHANGED <<reg, lease, target, done, guard, users, faults, changes>>

BeginManual == BeginTransaction("Manual", "capture")

(* prepare_automatic_proxy_resume in the restore's preflight.              *)
PrepareAuto ==
  /\ pc = "idle"
  /\ Available(reg)
  /\ guard' = reg
  /\ op' = "Auto"
  /\ Goto("starting")
  /\ UNCHANGED <<reg, lease, target, done, txn, users, faults, changes>>

(* enable_automatic_system_proxy, once the core has started.               *)
RecheckAuto ==
  /\ pc = "starting"
  /\ Available(reg) /\ reg = guard
  /\ Goto("capture")
  /\ UNCHANGED <<reg, lease, op, target, done, guard, txn, users, faults,
                 changes>>

AutoRefused ==
  /\ pc \in {"starting", "capture"} /\ op = "Auto"
  /\ ~(Available(reg) /\ reg = guard)
  /\ Finish
  /\ UNCHANGED <<reg, lease, users, faults, changes>>

(* Mutant: the capture is not compared with the baseline.                  *)
AnyBaseline == TRUE

(* check_resume_baseline                                                   *)
BaselineHolds == op = "Auto" => reg = guard

(* enable_system_proxy_guarded reads everything before it writes.          *)
CaptureForEnable ==
  /\ pc = "capture"
  /\ BaselineHolds
  /\ \E port \in Ports : target' = NewLease(reg, port)
  /\ faults' = IF Owned /\ lease.committed /\ reg.bypass # lease.applied.bypass
               THEN faults \union {"reapplied"} ELSE faults
  /\ Goto("journal")
  /\ UNCHANGED <<reg, lease, op, done, guard, txn, users, changes>>

(* write_snapshot: the uncommitted lease is on disk before the first write.*)
Journal ==
  /\ pc = "journal"
  /\ lease' = target
  /\ Goto("write")
  /\ UNCHANGED <<reg, op, target, done, guard, txn, users, faults, changes>>

Write ==
  /\ pc = "write"
  /\ WriteValue(target.applied)
  /\ UNCHANGED <<lease, op, pc, target, guard, txn, users, faults, changes>>

Written ==
  /\ pc = "write" /\ done = 4
  /\ done' = 0
  /\ Goto(IF op \in {"Manual", "Auto"} THEN "commit" ELSE "remove")
  /\ UNCHANGED <<reg, lease, op, target, guard, txn, users, faults, changes>>

Commit ==
  /\ pc = "commit"
  /\ lease' = [target EXCEPT !.committed = TRUE]
  /\ Goto("verify")
  /\ UNCHANGED <<reg, op, target, done, guard, txn, users, faults, changes>>

(* verify_system_proxy, and the settings of a switch of modes.             *)
Verify ==
  /\ pc = "verify"
  /\ SameRoute(reg, target.applied)
  /\ Finish
  /\ UNCHANGED <<reg, lease, users, faults, changes>>

-----------------------------------------------------------------------------
(* restore_system_proxy                                                    *)

BeginRelease ==
  /\ pc = "idle" /\ HasLease
  /\ op' = "Release"
  /\ Goto("release")
  /\ UNCHANGED <<reg, lease, target, done, guard, txn, users, faults,
                 changes>>

BeginLeave == BeginTransaction("Leave", IF HasLease THEN "release" ELSE "save")

(* Ours: journal the way back first.  Theirs by now: drop the lease.       *)
CaptureForRelease ==
  /\ pc = "release"
  /\ IF Owned THEN target' = Restoring(reg) /\ Goto("journal")
              ELSE Goto("remove") /\ UNCHANGED target
  /\ UNCHANGED <<reg, lease, op, done, guard, txn, users, faults, changes>>

Remove ==
  /\ pc = "remove"
  /\ lease' = NoLease
  /\ IF op = "Leave"
     THEN Goto("save") /\ UNCHANGED <<op, target, done, guard, txn>>
     ELSE Finish
  /\ UNCHANGED <<reg, users, faults, changes>>

SaveSettings ==
  /\ pc = "save"
  /\ Finish
  /\ UNCHANGED <<reg, lease, users, faults, changes>>

-----------------------------------------------------------------------------
(* Errors, rollback, crash.                                                *)

(* A write, the refresh, the read-back or save_settings fails.  A          *)
(* transaction rolls back, an automatic enable that has begun to write     *)
(* releases, and a release leaves the rest to the next one.                *)
Fail ==
  /\ pc \in {"journal", "write", "commit", "verify", "remove", "save"}
  /\ \/ /\ txn # NoTxn
        /\ done' = 0 /\ Goto("rollback")
        /\ UNCHANGED <<op, target, guard, txn>>
     \/ /\ op = "Auto" /\ pc # "journal"
        /\ done' = 0 /\ op' = "Release" /\ Goto("release")
        /\ target' = NoLease /\ guard' = NoGuard
        /\ UNCHANGED txn
     \/ /\ txn = NoTxn
        /\ op = "Release" \/ pc = "journal"
        /\ Finish
  /\ UNCHANGED <<reg, lease, users, faults, changes>>

Rollback ==
  /\ pc = "rollback"
  /\ WriteValue(txn.before)
  /\ UNCHANGED <<lease, op, pc, target, guard, txn, users, faults, changes>>

(* Read back, then the ownership file.                                     *)
RolledBack ==
  /\ pc = "rollback" /\ done = 4
  /\ reg = txn.before
  /\ lease' = txn.lease
  /\ Finish
  /\ UNCHANGED <<reg, users, faults, changes>>

(* The rollback itself fails: it is reported, and not tried again.         *)
RollbackFails ==
  /\ pc = "rollback"
  /\ faults' = faults \union {"torn"}
  /\ Finish
  /\ UNCHANGED <<reg, lease, users, changes>>

(* Only the registry and the lease file survive.                           *)
Crash ==
  /\ pc # "idle"
  /\ faults' = IF pc = "rollback" THEN faults \union {"torn"} ELSE faults
  /\ Finish
  /\ UNCHANGED <<reg, lease, users, changes>>

-----------------------------------------------------------------------------
(* The user and other clients.  A change that a running operation cannot   *)
(* see any more has raced with it; one that meets an interrupted write is  *)
(* judged value by value.                                                  *)
Noted ==
  (IF txn # NoTxn \/ pc \in {"journal", "write", "commit"} THEN {"raced"} ELSE {})
    \union (IF HasLease /\ ~lease.committed THEN {"interrupted"} ELSE {})

(* Another client takes over, the proxy is switched off, a PAC is set.     *)
ExternalRoute ==
  /\ reg' \in {[reg EXCEPT !.server = Theirs, !.enable = TRUE],
               [reg EXCEPT !.enable = FALSE],
               [reg EXCEPT !.pac = Theirs]}
  /\ reg' # reg /\ changes < MaxChanges
  /\ changes' = changes + 1
  /\ users' = reg'
  /\ faults' = faults \union Noted
  /\ UNCHANGED <<lease, op, pc, target, done, guard, txn>>

(* The bypass list is edited.                                              *)
ExternalBypass ==
  /\ \E b \in {{}, reg.bypass \union {"edited"}} :
       /\ reg' = [reg EXCEPT !.bypass = b]
       /\ users' = [users EXCEPT !.bypass = b]
  /\ reg' # reg /\ changes < MaxChanges
  /\ changes' = changes + 1
  /\ faults' = faults \union Noted
  /\ UNCHANGED <<lease, op, pc, target, done, guard, txn>>
-----------------------------------------------------------------------------
Operation ==
  \/ BeginManual \/ PrepareAuto \/ RecheckAuto \/ AutoRefused
  \/ CaptureForEnable \/ Journal \/ Write \/ Written \/ Commit \/ Verify
  \/ BeginRelease \/ BeginLeave \/ CaptureForRelease \/ Remove \/ SaveSettings
  \/ Fail \/ Rollback \/ RolledBack \/ RollbackFails

Next == Operation \/ Crash \/ ExternalRoute \/ ExternalBypass

Spec == Init /\ [][Next]_vars

-----------------------------------------------------------------------------
(* At every instant, between any two writes and after any crash, settings  *)
(* that are not the user's can be undone with what is on disk: a lease     *)
(* that recognizes them and knows what to go back to (platform.rs 207-219).*)
Journaled ==
  faults \subseteq {"reapplied"} /\ pc # "rollback" /\ ~SameRoute(reg, users)
    => Owned /\ SameRoute(lease.original, users)

(* When all is done and no lease is left, the user has his own settings    *)
(* back, as he or another client last chose them, however often enables    *)
(* with other ports, failures, crashes and releases came in between.       *)
SettingsReturn ==
  pc = "idle" /\ ~HasLease =>
    /\ faults \subseteq {"reapplied"} => SameRoute(reg, users)
    /\ faults = {} => reg = users

(* An automatic resume writes only over the settings that its preflight    *)
(* saw and found free: a client that took over while the core started      *)
(* keeps its proxy (platform.rs 111-127, 163-199).                         *)
AutoKeepsOut ==
  [][pc = "journal" /\ op = "Auto" /\ pc' = "write" /\ "raced" \notin faults
       => reg = guard /\ Available(reg)]_vars

(* "bypass_edits_are_preserved" (the test at platform.rs 1509): a bypass   *)
(* list edited while our proxy was applied survives the release.           *)
BypassEditsAreKept ==
  pc = "idle" /\ ~HasLease /\ faults \subseteq {"reapplied"}
    => reg.bypass = users.bypass
=============================================================================
