-------------------------- MODULE ProxyLeaseProofs --------------------------
(***************************************************************************)
(* Proofs about ProxyLease, for any ports and any original settings.       *)
(***************************************************************************)
EXTENDS ProxyLease, TLAPS

Benign == faults \subseteq {"reapplied"}

(* What a release of the lease l would leave behind over the registry r.   *)
Back(r, l) == IF l # NoLease /\ Owns(l, r) THEN Restoration(l, r) ELSE r

(* What an enable writes, and what a committed lease stands for.           *)
EnableForm(p) ==
  p.server \in Ports /\ p.pac = Absent /\ p.enable = TRUE /\ Required \in p.bypass

(* An edit does not lead back to the bypass list that was applied.         *)
EditsStay(r, l) ==
  \/ r.bypass = l.applied.bypass
  \/ Required \notin r.bypass
  \/ "edited" \notin l.applied.bypass

(* The user's settings are those that a release would leave behind.        *)
UsersAre(p) == SameRoute(p, users) /\ (faults = {} => p = users)

Sound(r, l) ==
  /\ UsersAre(Back(r, l))
  /\ l # NoLease /\ ~l.committed => Owns(l, r)
  /\ l # NoLease /\ l.committed => EditsStay(r, l)

Transacting == op \in {"Manual", "Leave"}
Enabling == op \in {"Manual", "Auto"}

Positions ==
  /\ pc = "idle" <=> op = "None"
  /\ pc = "starting" => op = "Auto"
  /\ pc \in {"capture", "commit", "verify"} => Enabling
  /\ pc \in {"release", "remove"} => op \in {"Release", "Leave"}
  /\ pc = "save" => op = "Leave"
  /\ pc = "rollback" => Transacting
  /\ (txn # NoTxn) <=> Transacting
  /\ pc \notin {"write", "rollback"} => done = 0

Targets ==
  /\ pc \in {"journal", "write", "commit", "verify"} =>
       /\ target \in Leases /\ ~target.committed
       /\ IF Enabling THEN EnableForm(target.applied) ELSE target.applied = target.original
  /\ pc \in {"write", "commit"} => lease = target

Forms ==
  /\ lease # NoLease /\ lease.committed => EnableForm(lease.applied)
  /\ txn # NoTxn /\ txn.lease # NoLease /\ txn.lease.committed => EnableForm(txn.lease.applied)

Settled == pc # "rollback" => Sound(reg, lease)

Captured == txn # NoTxn => Sound(txn.before, txn.lease)

Prepared ==
  /\ pc = "journal" => target.before = reg /\ UsersAre(target.original)
  /\ pc = "write" => \A i \in 1..4 : i <= done => reg[WriteOrder[i]] = target.applied[WriteOrder[i]]
  /\ pc = "commit" => reg = target.applied
  /\ pc = "remove" => UsersAre(reg)

Journals == Benign => Settled /\ Captured /\ Prepared

Resumes ==
  op = "Auto" /\ pc \in {"starting", "capture", "journal"} =>
    /\ guard \in Proxies
    /\ (lease # NoLease /\ Owns(lease, guard)) \/ (~guard.enable /\ guard.pac = Absent)
    /\ pc = "journal" /\ "raced" \notin faults => reg = guard

IInv == TypeOK /\ Positions /\ Targets /\ Forms /\ Journals /\ Resumes

-----------------------------------------------------------------------------
(* The operators of the lease.                                             *)

LEMMA Shapes ==
  /\ \A l \in Leases : l # NoLease
  /\ \A t \in [before : Proxies, lease : Leases \union {NoLease}] : t # NoTxn
BY DEF Leases, NoLease, NoTxn

LEMMA ProxyParts ==
  ASSUME NEW p
  PROVE  p \in Proxies <=>
           /\ p = [server |-> p.server, bypass |-> p.bypass, pac |-> p.pac, enable |-> p.enable]
           /\ p.server \in Ports \union {Absent, Theirs} /\ p.bypass \subseteq {Required, "edited"}
           /\ p.pac \in {Absent, Theirs} /\ p.enable \in BOOLEAN
BY DEF Proxies

LEMMA Matching ==
  ASSUME NEW p \in Proxies, NEW from, NEW to
  PROVE  TransitionMatches(p, from, to) <=>
           /\ p.server \in {from.server, to.server} /\ p.bypass \in {from.bypass, to.bypass}
           /\ p.pac \in {from.pac, to.pac} /\ p.enable \in {from.enable, to.enable}
BY DEF TransitionMatches, Proxies

LEMMA Applying ==
  ASSUME NEW p \in Proxies, NEW port \in Ports
  PROVE  AppliedProxy(p, port) \in Proxies /\ EnableForm(AppliedProxy(p, port))
BY DEF Proxies, AppliedProxy, EnableForm

LEMMA GivesBack ==
  ASSUME NEW l \in Leases, NEW p \in Proxies
  PROVE  Restoration(l, p) \in Proxies /\ SameRoute(Restoration(l, p), l.original)
BY DEF Proxies, Leases, Restoration, SameRoute

LEMMA LeasesMade ==
  ASSUME lease \in Leases \union {NoLease}, NEW p \in Proxies
  PROVE  /\ \A port \in Ports : NewLease(p, port) \in Leases
         /\ HasLease => Restoring(p) \in Leases
BY Applying, GivesBack DEF NewLease, Restoring, HasLease, Owned, Leases

LEMMA Writing ==
  ASSUME TypeOK, NEW from \in Proxies, WriteValue(from)
  PROVE  /\ reg' \in Proxies /\ done \in 0..3 /\ done' = done + 1
         /\ done = 0 => reg' = [reg EXCEPT !.server = from.server]
         /\ done = 1 => reg' = [reg EXCEPT !.bypass = from.bypass]
         /\ done = 2 => reg' = [reg EXCEPT !.pac = from.pac]
         /\ done = 3 => reg' = [reg EXCEPT !.enable = from.enable]
<1>1. done \in 0..3 /\ done' = done + 1
  BY DEF TypeOK, WriteValue
<1>2. CASE done = 0
  <2>1. WriteOrder[done + 1] = "server"
    BY <1>2 DEF WriteOrder
  <2>2. reg' = [reg EXCEPT !.server = from.server]
    BY <2>1 DEF WriteValue
  <2> QED BY <1>1, <1>2, <2>2 DEF TypeOK, Proxies
<1>3. CASE done = 1
  <2>1. WriteOrder[done + 1] = "bypass"
    BY <1>3 DEF WriteOrder
  <2>2. reg' = [reg EXCEPT !.bypass = from.bypass]
    BY <2>1 DEF WriteValue
  <2> QED BY <1>1, <1>3, <2>2 DEF TypeOK, Proxies
<1>4. CASE done = 2
  <2>1. WriteOrder[done + 1] = "pac"
    BY <1>4 DEF WriteOrder
  <2>2. reg' = [reg EXCEPT !.pac = from.pac]
    BY <2>1 DEF WriteValue
  <2> QED BY <1>1, <1>4, <2>2 DEF TypeOK, Proxies
<1>5. CASE done = 3
  <2>1. WriteOrder[done + 1] = "enable"
    BY <1>5 DEF WriteOrder
  <2>2. reg' = [reg EXCEPT !.enable = from.enable]
    BY <2>1 DEF WriteValue
  <2> QED BY <1>1, <1>5, <2>2 DEF TypeOK, Proxies
<1> QED BY <1>1, <1>2, <1>3, <1>4, <1>5

LEMMA Finishing ==
  ASSUME Finish
  PROVE  /\ op' \in Ops /\ pc' = "idle" /\ target' \in Leases \union {NoLease} /\ done' \in 0..4
         /\ guard' \in Proxies \union {NoGuard}
         /\ txn' \in [before : Proxies, lease : Leases \union {NoLease}] \union {NoTxn}
BY DEF Finish, Ops

LEMMA Changing ==
  ASSUME TypeOK, ExternalRoute \/ ExternalBypass
  PROVE  reg' \in Proxies /\ users' \in Proxies
<1>1. CASE ExternalRoute
  BY <1>1 DEF TypeOK, ExternalRoute, Proxies
<1>2. CASE ExternalBypass
  BY <1>2 DEF TypeOK, ExternalBypass, Proxies
<1> QED BY <1>1, <1>2

-----------------------------------------------------------------------------
(* Types                                                                   *)

LEMMA InitIInv == Init => IInv
<1> SUFFICES ASSUME Init PROVE IInv
  OBVIOUS
<1>1. TypeOK
  BY ProxiesAssumption DEF Init, TypeOK, Ops
<1>2. Positions /\ Targets /\ Forms /\ Resumes
  BY DEF Init, Positions, Targets, Forms, Resumes, Transacting
<1>3. Journals
  BY DEF Init, Journals, Settled, Captured, Prepared, Sound, UsersAre, Back, SameRoute
<1> QED BY <1>1, <1>2, <1>3 DEF IInv

LEMMA TypeStep ==
  ASSUME IInv, [Next]_vars
  PROVE  TypeOK'
<1> USE DEF IInv
<1>0. CASE UNCHANGED vars
  BY <1>0 DEF TypeOK, vars
<1>1. CASE BeginManual \/ BeginLeave
  <2>1. txn' \in [before : Proxies, lease : Leases \union {NoLease}]
    BY <1>1 DEF TypeOK, BeginManual, BeginLeave, BeginTransaction
  <2>2. op' \in Ops /\ pc' \in {"capture", "release", "save"}
    BY <1>1 DEF BeginManual, BeginLeave, BeginTransaction, Goto, Ops
  <2> QED BY <1>1, <2>1, <2>2 DEF TypeOK, BeginManual, BeginLeave, BeginTransaction
<1>2. CASE PrepareAuto \/ RecheckAuto
  BY <1>2 DEF TypeOK, PrepareAuto, RecheckAuto, Goto, Ops
<1>16. CASE AutoRefused \/ Verify \/ SaveSettings
  BY <1>16, Finishing DEF TypeOK, AutoRefused, Verify, SaveSettings
<1>3. CASE CaptureForEnable
  <2>1. target' \in Leases
    BY <1>3, LeasesMade DEF CaptureForEnable, TypeOK
  <2> QED BY <1>3, <2>1 DEF TypeOK, CaptureForEnable, Goto
<1>4. CASE Journal
  BY <1>4 DEF TypeOK, Journal, Goto
<1>17. CASE Written
  <2>1. pc' \in {"commit", "remove"}
    BY <1>17 DEF Written, Goto
  <2> QED BY <1>17, <2>1 DEF TypeOK, Written
<1>5. CASE Write
  <2>1. target.applied \in Proxies
    BY <1>5 DEF Write, Targets, Leases
  <2>2. reg' \in Proxies /\ done' \in 1..4
    BY <1>5, <2>1, Writing DEF Write
  <2> QED BY <1>5, <2>2 DEF TypeOK, Write
<1>6. CASE Commit
  <2>1. target \in Leases
    BY <1>6 DEF Commit, Targets
  <2>2. lease' \in Leases
    BY <1>6, <2>1 DEF Commit, Leases
  <2> QED BY <1>6, <2>2 DEF TypeOK, Commit, Goto
<1>7. CASE Remove
  <2>1. CASE op = "Leave"
    BY <1>7, <2>1 DEF TypeOK, Remove, Goto
  <2>2. CASE op # "Leave"
    BY <1>7, <2>2, Finishing DEF TypeOK, Remove
  <2> QED BY <2>1, <2>2
<1>8. CASE BeginRelease
  BY <1>8 DEF TypeOK, BeginRelease, Goto, Ops
<1>9. CASE CaptureForRelease
  <2>1. Owned => target' \in Leases
    BY <1>9, LeasesMade DEF CaptureForRelease, TypeOK, Owned
  <2> QED BY <1>9, <2>1 DEF TypeOK, CaptureForRelease, Goto
<1>10. CASE Fail
  <2>1. CASE Finish
    BY <1>10, <2>1, Finishing DEF TypeOK, Fail
  <2>2. CASE pc' = "rollback" /\ done' = 0 /\ UNCHANGED <<op, target, guard, txn>>
    BY <1>10, <2>2 DEF TypeOK, Fail
  <2>3. CASE /\ pc' = "release" /\ op' = "Release" /\ done' = 0 /\ target' = NoLease
             /\ guard' = NoGuard /\ UNCHANGED txn
    BY <1>10, <2>3 DEF TypeOK, Fail, Ops
  <2> QED BY <1>10, <2>1, <2>2, <2>3 DEF Fail, Goto
<1>11. CASE Rollback
  <2>1. txn.before \in Proxies
    BY <1>11 DEF Rollback, Positions, TypeOK
  <2>2. reg' \in Proxies /\ done' \in 1..4
    BY <1>11, <2>1, Writing DEF Rollback
  <2> QED BY <1>11, <2>2 DEF TypeOK, Rollback
<1>12. CASE RolledBack
  <2>1. txn.lease \in Leases \union {NoLease}
    BY <1>12 DEF RolledBack, Positions, TypeOK
  <2> QED BY <1>12, <2>1, Finishing DEF TypeOK, RolledBack
<1>13. CASE RollbackFails \/ Crash
  BY <1>13, Finishing DEF TypeOK, RollbackFails, Crash
<1>14. CASE ExternalRoute
  BY <1>14, Changing DEF TypeOK, ExternalRoute, Noted
<1>15. CASE ExternalBypass
  <2>1. reg' \in Proxies /\ users' \in Proxies
    BY <1>15, Changing
  <2>2. faults' \subseteq {"raced", "interrupted", "torn", "reapplied"}
    BY <1>15 DEF TypeOK, ExternalBypass, Noted
  <2>3. changes' \in Nat
    BY <1>15 DEF TypeOK, ExternalBypass
  <2>4. UNCHANGED <<lease, op, pc, target, done, guard, txn>>
    BY <1>15 DEF ExternalBypass
  <2> QED BY <2>1, <2>2, <2>3, <2>4 DEF TypeOK
<1> QED BY <1>0, <1>1, <1>2, <1>3, <1>4, <1>5, <1>6, <1>7, <1>8, <1>9, <1>10, <1>11, <1>12,
           <1>13, <1>14, <1>15, <1>16, <1>17 DEF Next, Operation

-----------------------------------------------------------------------------
(* Where the operation is                                                  *)

LEMMA PositionsStep ==
  ASSUME IInv, [Next]_vars
  PROVE  Positions'
<1> USE DEF IInv, Transacting, Enabling
<1>0. CASE UNCHANGED vars \/ ExternalRoute \/ ExternalBypass
  BY <1>0 DEF Positions, vars, ExternalRoute, ExternalBypass
<1>1. CASE BeginManual \/ BeginLeave
  <2>1. txn' # NoTxn
    BY <1>1, Shapes DEF TypeOK, BeginManual, BeginLeave, BeginTransaction
  <2> QED BY <1>1, <2>1 DEF Positions, BeginManual, BeginLeave, BeginTransaction, Goto
<1>2. CASE PrepareAuto \/ RecheckAuto \/ BeginRelease
  BY <1>2 DEF Positions, PrepareAuto, RecheckAuto, BeginRelease, Goto
<1>3. CASE Finish
  BY <1>3 DEF Positions, Finish
<1>4. CASE CaptureForEnable \/ Journal
  BY <1>4 DEF Positions, CaptureForEnable, Journal, Goto
<1>5. CASE Write \/ Rollback
  BY <1>5 DEF Positions, Write, Rollback
<1>6. CASE Written \/ Commit
  BY <1>6 DEF Positions, Written, Commit, Goto, TypeOK, Ops
<1>7. CASE CaptureForRelease
  BY <1>7 DEF Positions, CaptureForRelease, Goto
<1>8. CASE Remove
  BY <1>8, <1>3 DEF Positions, Remove, Goto
<1>9. CASE Fail
  BY <1>9, <1>3 DEF Positions, Fail, Goto, TypeOK, Ops
<1> QED BY <1>0, <1>1, <1>2, <1>3, <1>4, <1>5, <1>6, <1>7, <1>8, <1>9
        DEF Next, Operation, AutoRefused, Verify, SaveSettings, RolledBack, RollbackFails, Crash

LEMMA TargetsStep ==
  ASSUME IInv, [Next]_vars
  PROVE  Targets'
<1> USE DEF IInv, Enabling
<1>0. CASE UNCHANGED vars \/ ExternalRoute \/ ExternalBypass
  BY <1>0 DEF Targets, vars, ExternalRoute, ExternalBypass
<1>1. CASE \/ pc' \notin {"journal", "write", "commit", "verify"}
  BY <1>1 DEF Targets
<1>2. CASE CaptureForEnable
  <2>1. PICK port \in Ports : target' = NewLease(reg, port)
    BY <1>2 DEF CaptureForEnable
  <2>2. target' \in Leases
    BY <2>1, LeasesMade DEF TypeOK
  <2>3. ~target'.committed /\ EnableForm(target'.applied)
    BY <2>1, Applying DEF NewLease, TypeOK
  <2>4. op' \in {"Manual", "Auto"} /\ pc' = "journal"
    BY <1>2 DEF CaptureForEnable, Goto, Positions
  <2> QED BY <2>2, <2>3, <2>4 DEF Targets
<1>3. CASE CaptureForRelease /\ Owned
  <2>1. target' = Restoring(reg) /\ pc' = "journal" /\ op' \in {"Release", "Leave"}
    BY <1>3 DEF CaptureForRelease, Goto, Positions
  <2>2. target' \in Leases
    BY <1>3, <2>1, LeasesMade DEF TypeOK, Owned
  <2> QED BY <2>1, <2>2 DEF Targets, Restoring
<1>4. CASE Journal
  BY <1>4 DEF Targets, Journal, Goto
<1>5. CASE Write
  BY <1>5 DEF Targets, Write
<1>6. CASE Written
  BY <1>6 DEF Targets, Written, Goto
<1>7. CASE Commit
  BY <1>7 DEF Targets, Commit, Goto
<1> QED
  BY <1>0, <1>1, <1>2, <1>3, <1>4, <1>5, <1>6, <1>7
  DEF Next, Operation, BeginManual, BeginLeave, BeginTransaction, PrepareAuto, RecheckAuto, AutoRefused,
      Verify, BeginRelease, CaptureForRelease, Remove, SaveSettings, Fail, Rollback, RolledBack,
      RollbackFails, Crash, Finish, Goto

LEMMA FormsStep ==
  ASSUME IInv, [Next]_vars
  PROVE  Forms'
<1> USE DEF IInv
<1>1. CASE UNCHANGED <<lease, txn>>
  BY <1>1 DEF Forms
<1>2. CASE Finish /\ (UNCHANGED lease \/ lease' = NoLease)
  BY <1>2 DEF Forms, Finish
<1>3. CASE BeginManual \/ BeginLeave
  <2>1. lease' = lease /\ txn'.lease = lease
    BY <1>3 DEF BeginManual, BeginLeave, BeginTransaction
  <2> QED BY <2>1 DEF Forms
<1>4. CASE Journal
  BY <1>4 DEF Forms, Journal, Targets
<1>5. CASE Commit
  <2>1. target \in Leases /\ EnableForm(target.applied)
    BY <1>5 DEF Commit, Targets, Positions
  <2>2. lease'.applied = target.applied /\ txn' = txn
    BY <1>5, <2>1 DEF Commit, Leases
  <2> QED BY <2>1, <2>2 DEF Forms
<1>6. CASE Remove
  BY <1>6, <1>2 DEF Forms, Remove
<1>7. CASE RolledBack
  BY <1>7 DEF Forms, RolledBack, Finish, Positions
<1> QED
  BY <1>1, <1>2, <1>3, <1>4, <1>5, <1>6, <1>7
  DEF Next, Operation, vars, PrepareAuto, RecheckAuto, AutoRefused, CaptureForEnable, Write, Written,
      Verify, BeginRelease, CaptureForRelease, SaveSettings, Fail, Rollback, RollbackFails, Crash,
      ExternalRoute, ExternalBypass

LEMMA ResumesStep ==
  ASSUME IInv, [Next]_vars
  PROVE  Resumes'
<1> USE DEF IInv
<1>0. CASE UNCHANGED vars
  BY <1>0 DEF Resumes, vars
<1>1. CASE ~(op' = "Auto" /\ pc' \in {"starting", "capture", "journal"})
  BY <1>1 DEF Resumes
<1>2. CASE PrepareAuto
  BY <1>2 DEF Resumes, PrepareAuto, Available, Owned, HasLease, Goto, TypeOK
<1>3. CASE RecheckAuto
  BY <1>3 DEF Resumes, RecheckAuto, Goto
<1>4. CASE CaptureForEnable
  BY <1>4 DEF Resumes, CaptureForEnable, Goto, BaselineHolds
<1>5. CASE ExternalRoute
  BY <1>5 DEF Resumes, ExternalRoute, Noted
<1>6. CASE ExternalBypass
  BY <1>6 DEF Resumes, ExternalBypass, Noted
<1> QED
  BY <1>0, <1>1, <1>2, <1>3, <1>4, <1>5, <1>6
  DEF Next, Operation, BeginManual, BeginLeave, BeginTransaction, AutoRefused, Journal, Write, Written,
      Commit, Verify, BeginRelease, CaptureForRelease, Remove, SaveSettings, Fail, Rollback,
      RolledBack, RollbackFails, Crash, Finish, Goto, Positions

-----------------------------------------------------------------------------
(* What the journal is worth                                               *)

LEMMA FaultsGrow ==
  ASSUME [Next]_vars
  PROVE  faults \subseteq faults'
BY DEF Next, Operation, vars, BeginManual, BeginLeave, BeginTransaction, PrepareAuto, RecheckAuto,
       AutoRefused, CaptureForEnable, Journal, Write, Written, Commit, Verify, BeginRelease,
       CaptureForRelease, Remove, SaveSettings, Fail, Rollback, RolledBack, RollbackFails, Crash,
       ExternalRoute, ExternalBypass

(* A lease that is not committed gives back its original, untouched.       *)
LEMMA Uncommitted ==
  ASSUME NEW l \in Leases, ~l.committed, NEW r
  PROVE  /\ Restoration(l, r) = l.original
         /\ Owns(l, r) <=> TransitionMatches(r, l.before, l.applied)
         /\ l # NoLease
         /\ Owns(l, r) => Back(r, l) = l.original
<1>1. l # NoLease
  BY Shapes
<1>2. Restoration(l, r) = l.original
  BY DEF Restoration
<1>3. Owns(l, r) <=> TransitionMatches(r, l.before, l.applied)
  BY DEF Owns
<1> QED BY <1>1, <1>2, <1>3 DEF Back

(* Nothing that matters has changed.                                       *)
LEMMA SameSettled ==
  ASSUME Settled, pc # "rollback", UNCHANGED <<reg, lease, users>>, faults \subseteq faults'
  PROVE  Settled'
BY DEF Settled, Sound, UsersAre

LEMMA SameCaptured ==
  ASSUME Captured, UNCHANGED <<txn, users>>, faults \subseteq faults'
  PROVE  Captured'
BY DEF Captured, Sound, UsersAre

LEMMA EnableJournals ==
  ASSUME IInv, Benign, CaptureForEnable, faults \subseteq faults'
  PROVE  Settled' /\ Captured' /\ Prepared'
<1>0. /\ pc = "capture" /\ pc' = "journal" /\ UNCHANGED <<reg, lease, users, txn>>
      /\ \E port \in Ports : target' = NewLease(reg, port)
  BY DEF CaptureForEnable, Goto
<1>1. Settled /\ Captured
  BY DEF IInv, Journals
<1>2. UsersAre(Back(reg, lease))
  BY <1>0, <1>1 DEF Settled, Sound
<1>3. target'.before = reg
  BY <1>0 DEF NewLease
<1>4. CASE Owned
  <2>1. target'.original = lease.original /\ lease \in Leases
    BY <1>0, <1>4 DEF NewLease, Owned, HasLease, IInv, TypeOK
  <2>2. Back(reg, lease) = Restoration(lease, reg)
    BY <1>4 DEF Back, Owned, HasLease
  <2>3. SameRoute(lease.original, users)
    BY <1>2, <2>1, <2>2, GivesBack DEF UsersAre, SameRoute, IInv, TypeOK
  <2>4. faults' = {} => lease.original = users
    <3>1. faults' = {} => ~(lease.committed /\ reg.bypass # lease.applied.bypass)
      BY <1>4 DEF CaptureForEnable
    <3> QED BY <3>1, <1>2, <2>2 DEF UsersAre, Restoration, CaptureForEnable
  <2> QED BY <1>0, <1>1, <1>3, <2>1, <2>3, <2>4, SameSettled, SameCaptured DEF Prepared, UsersAre
<1>5. CASE ~Owned
  <2>1. target'.original = reg
    BY <1>0, <1>5 DEF NewLease
  <2>2. Back(reg, lease) = reg
    BY <1>5 DEF Back, Owned, HasLease
  <2> QED
    BY <1>0, <1>1, <1>2, <1>3, <2>1, <2>2, SameSettled, SameCaptured DEF Prepared, UsersAre
<1> QED BY <1>4, <1>5

LEMMA JournalJournals ==
  ASSUME IInv, Benign, Journal
  PROVE  Settled' /\ Captured' /\ Prepared'
<1>0. /\ pc = "journal" /\ pc' = "write" /\ lease' = target
      /\ UNCHANGED <<reg, target, done, txn, users, faults>>
  BY DEF Journal, Goto
<1>1. target \in Leases /\ ~target.committed /\ target.before = reg /\ UsersAre(target.original)
  BY <1>0 DEF IInv, Targets, Journals, Prepared
<1>2. TransitionMatches(reg, target.before, target.applied)
  BY <1>1, Matching DEF IInv, TypeOK
<1>3. Owns(target, reg) /\ Back(reg, target) = target.original
  BY <1>1, <1>2, Uncommitted
<1>4. Sound(reg, target)
  BY <1>1, <1>3 DEF Sound
<1>5. Settled' /\ Captured'
  BY <1>0, <1>4, SameCaptured DEF Settled, Sound, UsersAre, IInv, Journals
<1>6. done = 0
  BY <1>0 DEF IInv, Positions
<1> QED BY <1>0, <1>5, <1>6 DEF Prepared

LEMMA WriteJournals ==
  ASSUME IInv, Benign, Write
  PROVE  Settled' /\ Captured' /\ Prepared'
<1>0. /\ pc = "write" /\ pc' = "write" /\ WriteValue(target.applied)
      /\ UNCHANGED <<lease, target, txn, users, faults>>
  BY DEF Write
<1>1. target \in Leases /\ ~target.committed /\ lease = target /\ target.applied \in Proxies
  BY <1>0 DEF IInv, Targets, Leases
<1>2. Sound(reg, lease)
  BY <1>0 DEF IInv, Journals, Settled
<1>3. reg \in Proxies /\ TransitionMatches(reg, target.before, target.applied)
  BY <1>1, <1>2, Uncommitted DEF Sound, IInv, TypeOK
<1>4. /\ reg' \in Proxies /\ done \in 0..3 /\ done' = done + 1
      /\ done = 0 => reg' = [reg EXCEPT !.server = target.applied.server]
      /\ done = 1 => reg' = [reg EXCEPT !.bypass = target.applied.bypass]
      /\ done = 2 => reg' = [reg EXCEPT !.pac = target.applied.pac]
      /\ done = 3 => reg' = [reg EXCEPT !.enable = target.applied.enable]
  BY <1>0, <1>1, Writing DEF IInv
<1>5. /\ reg'.server \in {reg.server, target.applied.server}
      /\ reg'.bypass \in {reg.bypass, target.applied.bypass}
      /\ reg'.pac \in {reg.pac, target.applied.pac}
      /\ reg'.enable \in {reg.enable, target.applied.enable}
  BY <1>3, <1>4 DEF Proxies
<1>6. TransitionMatches(reg', target.before, target.applied)
  BY <1>3, <1>4, <1>5, Matching
<1>7. Sound(reg', lease)
  BY <1>1, <1>2, <1>3, <1>6, Uncommitted DEF Sound, UsersAre
<1>8. Settled' /\ Captured'
  BY <1>0, <1>7, SameCaptured DEF Settled, Sound, UsersAre, IInv, Journals
<1>9. \A i \in 1..4 : i <= done' => reg'[WriteOrder[i]] = target.applied[WriteOrder[i]]
  <2> SUFFICES ASSUME NEW i \in 1..4, i <= done + 1
               PROVE  reg'[WriteOrder[i]] = target.applied[WriteOrder[i]]
    BY <1>4
  <2>1. i <= done => reg[WriteOrder[i]] = target.applied[WriteOrder[i]]
    BY <1>0 DEF IInv, Journals, Prepared
  <2>2. /\ WriteOrder[1] = "server" /\ WriteOrder[2] = "bypass"
        /\ WriteOrder[3] = "pac" /\ WriteOrder[4] = "enable"
    BY DEF WriteOrder
  <2>3. CASE i = 1
    BY <1>3, <1>4, <2>1, <2>2, <2>3 DEF Proxies
  <2>4. CASE i = 2
    BY <1>3, <1>4, <2>1, <2>2, <2>4 DEF Proxies
  <2>5. CASE i = 3
    BY <1>3, <1>4, <2>1, <2>2, <2>5 DEF Proxies
  <2>6. CASE i = 4
    BY <1>3, <1>4, <2>1, <2>2, <2>6 DEF Proxies
  <2> QED BY <2>3, <2>4, <2>5, <2>6
<1> QED BY <1>0, <1>8, <1>9 DEF Prepared

LEMMA WrittenJournals ==
  ASSUME IInv, Benign, Written
  PROVE  Settled' /\ Captured' /\ Prepared'
<1>0. /\ pc = "write" /\ done = 4 /\ pc' \in {"commit", "remove"}
      /\ pc' = "remove" => ~Enabling
      /\ UNCHANGED <<reg, lease, target, txn, users, faults>>
  BY DEF Written, Goto, Enabling
<1>1. target \in Leases /\ ~target.committed /\ lease = target
  BY <1>0 DEF IInv, Targets
<1>2. Sound(reg, lease) /\ Captured
  BY <1>0 DEF IInv, Journals, Settled
<1>3. reg = target.applied
  <2>1. /\ WriteOrder[1] = "server" /\ WriteOrder[2] = "bypass"
        /\ WriteOrder[3] = "pac" /\ WriteOrder[4] = "enable"
    BY DEF WriteOrder
  <2>2. \A i \in 1..4 : reg[WriteOrder[i]] = target.applied[WriteOrder[i]]
    BY <1>0 DEF IInv, Journals, Prepared
  <2>3. /\ reg.server = target.applied.server /\ reg.bypass = target.applied.bypass
        /\ reg.pac = target.applied.pac /\ reg.enable = target.applied.enable
    BY <2>1, <2>2
  <2>4. reg \in Proxies /\ target.applied \in Proxies
    BY <1>1 DEF IInv, TypeOK, Leases
  <2> QED BY <2>3, <2>4, ProxyParts
<1>4. pc' = "remove" => UsersAre(reg)
  <2>1. pc' = "remove" => target.applied = target.original
    BY <1>0 DEF IInv, Targets
  <2> QED BY <1>1, <1>2, <1>3, <2>1, Uncommitted DEF Sound
<1>5. Settled' /\ Captured'
  BY <1>0, <1>2, SameSettled, SameCaptured DEF Settled
<1> QED BY <1>0, <1>3, <1>4, <1>5 DEF Prepared, UsersAre

LEMMA CommitJournals ==
  ASSUME IInv, Benign, Commit
  PROVE  Settled' /\ Captured' /\ Prepared'
<1>0. /\ pc = "commit" /\ pc' = "verify" /\ lease' = [target EXCEPT !.committed = TRUE]
      /\ UNCHANGED <<reg, txn, users, faults>>
  BY DEF Commit, Goto
<1>1. target \in Leases /\ ~target.committed /\ lease = target /\ reg = target.applied
  BY <1>0 DEF IInv, Targets, Journals, Prepared
<1>2. UsersAre(target.original)
  BY <1>0, <1>1, Uncommitted DEF IInv, Journals, Settled, Sound
<1>3. /\ lease' \in Leases /\ lease'.committed /\ lease'.applied = target.applied
      /\ lease'.original = target.original
  BY <1>0, <1>1 DEF Leases
<1>4. lease' # NoLease /\ Owns(lease', reg) /\ Restoration(lease', reg) = target.original
  BY <1>1, <1>3, Shapes DEF Owns, SameRoute, Restoration
<1>5. Sound(reg, lease')
  BY <1>1, <1>2, <1>3, <1>4 DEF Sound, Back, EditsStay
<1>6. Settled' /\ Captured'
  BY <1>0, <1>5, SameCaptured DEF Settled, Sound, UsersAre, IInv, Journals
<1> QED BY <1>0, <1>6 DEF Prepared

LEMMA ReleaseJournals ==
  ASSUME IInv, Benign, CaptureForRelease
  PROVE  Settled' /\ Captured' /\ Prepared'
<1>0. pc = "release" /\ UNCHANGED <<reg, lease, txn, users, faults>>
  BY DEF CaptureForRelease
<1>1. UsersAre(Back(reg, lease)) /\ Settled' /\ Captured'
  BY <1>0, SameSettled, SameCaptured DEF IInv, Journals, Settled, Sound
<1>2. CASE Owned
  <2>1. pc' = "journal" /\ target'.before = reg /\ target'.original = Restoration(lease, reg)
    BY <1>2 DEF CaptureForRelease, Goto, Restoring
  <2>2. Back(reg, lease) = Restoration(lease, reg)
    BY <1>2 DEF Back, Owned, HasLease
  <2> QED BY <1>0, <1>1, <2>1, <2>2 DEF Prepared, UsersAre
<1>3. CASE ~Owned
  <2>1. pc' = "remove" /\ Back(reg, lease) = reg
    BY <1>3 DEF CaptureForRelease, Goto, Back, Owned, HasLease
  <2> QED BY <1>0, <1>1, <2>1 DEF Prepared, UsersAre
<1> QED BY <1>2, <1>3

LEMMA RouteJournals ==
  ASSUME IInv, Benign, Benign', ExternalRoute
  PROVE  Settled' /\ Captured' /\ Prepared'
<1>0. /\ users' = reg' /\ UNCHANGED <<lease, op, pc, target, done, txn>>
      /\ reg' \in {[reg EXCEPT !.server = Theirs, !.enable = TRUE], [reg EXCEPT !.enable = FALSE],
                    [reg EXCEPT !.pac = Theirs]}
  BY DEF ExternalRoute
<1>1. /\ txn = NoTxn /\ pc \notin {"journal", "write", "commit", "rollback"}
      /\ lease # NoLease => lease.committed
  BY DEF Benign, ExternalRoute, Noted, IInv, Positions, HasLease
<1>2. reg' \in Proxies
  BY Changing DEF IInv
<1>3. lease # NoLease => ~SameRoute(reg', lease.applied)
  <2>1. lease # NoLease => EnableForm(lease.applied)
    BY <1>1 DEF IInv, Forms
  <2>2. \/ reg'.server = Theirs \/ reg'.enable = FALSE \/ reg'.pac = Theirs
    BY <1>0 DEF IInv, TypeOK, Proxies
  <2> QED BY <2>1, <2>2, ProxiesAssumption DEF EnableForm, SameRoute, Absent, Theirs
<1>4. Back(reg', lease) = reg'
  BY <1>1, <1>3 DEF Back, Owns
<1>5. lease # NoLease => EditsStay(reg', lease)
  <2>1. reg'.bypass = reg.bypass
    BY <1>0 DEF IInv, TypeOK, Proxies
  <2> QED BY <1>1, <2>1 DEF IInv, Journals, Settled, Sound, EditsStay
<1>6. SameRoute(reg', reg')
  BY DEF SameRoute
<1>7. Settled'
  BY <1>0, <1>1, <1>4, <1>5, <1>6 DEF Settled, Sound, UsersAre
<1> QED BY <1>0, <1>1, <1>6, <1>7 DEF Captured, Prepared, UsersAre

LEMMA BypassJournals ==
  ASSUME IInv, Benign, Benign', ExternalBypass
  PROVE  Settled' /\ Captured' /\ Prepared'
<1>0. UNCHANGED <<lease, op, pc, target, done, txn>> /\ reg' # reg
  BY DEF ExternalBypass
<1>1. PICK b \in {{}, reg.bypass \union {"edited"}} :
        reg' = [reg EXCEPT !.bypass = b] /\ users' = [users EXCEPT !.bypass = b]
  BY DEF ExternalBypass
<1>2. /\ txn = NoTxn /\ pc \notin {"journal", "write", "commit", "rollback"}
      /\ lease # NoLease => lease \in Leases /\ lease.committed
  BY DEF Benign, ExternalBypass, Noted, IInv, Positions, HasLease, TypeOK
<1>3. /\ reg \in Proxies /\ users \in Proxies
      /\ reg'.server = reg.server /\ reg'.pac = reg.pac /\ reg'.enable = reg.enable
      /\ reg'.bypass = b /\ users'.bypass = b /\ b # reg.bypass
      /\ users'.server = users.server /\ users'.pac = users.pac /\ users'.enable = users.enable
  BY <1>0, <1>1 DEF IInv, TypeOK, Proxies
<1>4. faults' = {} => faults = {}
  BY DEF ExternalBypass
<1>5. Sound(reg, lease)
  BY <1>2 DEF IInv, Journals, Settled
<1>6. ASSUME SameRoute(reg, users), faults = {} => reg = users
      PROVE  SameRoute(reg', users') /\ (faults' = {} => reg' = users')
  BY <1>1, <1>3, <1>4, <1>6 DEF SameRoute
<1>7. CASE lease = NoLease \/ ~Owns(lease, reg)
  <2>1. lease = NoLease \/ ~Owns(lease, reg')
    BY <1>2, <1>3, <1>7 DEF Owns, SameRoute
  <2>2. Back(reg, lease) = reg /\ Back(reg', lease) = reg'
    BY <1>7, <2>1 DEF Back
  <2>3. SameRoute(reg', users') /\ (faults' = {} => reg' = users')
    BY <1>5, <1>6, <2>2 DEF Sound, UsersAre
  <2>4. lease # NoLease => EditsStay(reg', lease)
    BY <1>2, <1>3, <1>5 DEF Sound, EditsStay, Required
  <2>5. Settled'
    BY <1>0, <1>2, <2>2, <2>3, <2>4 DEF Settled, Sound, UsersAre
  <2> QED BY <1>0, <1>2, <2>3, <2>5 DEF Captured, Prepared, UsersAre
<1>8. CASE lease # NoLease /\ Owns(lease, reg)
  <2>1. lease \in Leases /\ lease.committed /\ EnableForm(lease.applied) /\ EditsStay(reg, lease)
    BY <1>2, <1>5, <1>8 DEF IInv, Forms, Sound
  <2>2. Owns(lease, reg')
    BY <1>3, <1>8, <2>1 DEF Owns, SameRoute
  <2>3. b # lease.applied.bypass
    BY <1>1, <1>3, <2>1 DEF EnableForm, EditsStay, Required
  <2>4. Back(reg', lease) = [lease.original EXCEPT !.bypass = b]
    BY <1>3, <1>8, <2>1, <2>2, <2>3 DEF Back, Restoration
  <2>5. lease.original \in Proxies
    BY <2>1 DEF Leases
  <2>6. SameRoute(lease.original, users)
    BY <1>3, <1>5, <1>8, <2>1, GivesBack DEF Sound, UsersAre, Back, SameRoute
  <2>7. faults = {} => [lease.original EXCEPT !.bypass = b] = users'
    <3>1. faults = {} => Restoration(lease, reg) = users
      BY <1>5, <1>8 DEF Sound, UsersAre, Back
    <3>2. [lease.original EXCEPT !.bypass = b] \in [server : Ports \union {Absent, Theirs},
             bypass : {b}, pac : {Absent, Theirs}, enable : BOOLEAN]
      BY <2>5 DEF Proxies
    <3> QED BY <1>1, <2>5, <3>1 DEF Restoration, Proxies
  <2>8. SameRoute(Back(reg', lease), users') /\ (faults' = {} => Back(reg', lease) = users')
    BY <1>3, <1>4, <2>4, <2>5, <2>6, <2>7 DEF SameRoute, Proxies
  <2>9. EditsStay(reg', lease)
    BY <1>1, <1>3, <2>1 DEF EditsStay, Required
  <2>10. Settled'
    BY <1>0, <1>2, <2>1, <2>8, <2>9 DEF Settled, Sound, UsersAre
  <2>11. pc # "remove" \/ UsersAre(reg)
    BY DEF IInv, Journals, Prepared
  <2>12. UsersAre(reg) => SameRoute(reg', users') /\ (faults' = {} => reg' = users')
    BY <1>6 DEF UsersAre
  <2> QED BY <1>0, <1>2, <2>10, <2>11, <2>12 DEF Captured, Prepared, UsersAre
<1> QED BY <1>7, <1>8

LEMMA JournalsStep ==
  ASSUME IInv, [Next]_vars
  PROVE  Journals'
<1> SUFFICES ASSUME Benign' PROVE Settled' /\ Captured' /\ Prepared'
  BY DEF Journals
<1>0. faults \subseteq faults' /\ Benign
  BY FaultsGrow DEF Benign
<1>1. Settled /\ Captured /\ Prepared
  BY <1>0 DEF IInv, Journals
<1>2. CASE UNCHANGED vars
  BY <1>1, <1>2 DEF vars, Settled, Captured, Prepared, Sound, UsersAre
<1>3. CASE BeginManual \/ BeginLeave
  <2>1. /\ pc = "idle" /\ pc' \in {"capture", "release", "save"} /\ UNCHANGED <<reg, lease, users, faults>>
        /\ txn'.before = reg /\ txn'.lease = lease
    BY <1>3 DEF BeginManual, BeginLeave, BeginTransaction, Goto
  <2>2. Settled'
    BY <1>0, <1>1, <2>1, SameSettled
  <2> QED BY <2>1, <2>2 DEF Settled, Captured, Prepared, Sound, UsersAre
<1>4. CASE PrepareAuto \/ RecheckAuto \/ BeginRelease
  <2>1. /\ pc \in {"idle", "starting"} /\ pc' \in {"starting", "capture", "release"}
        /\ UNCHANGED <<reg, lease, users, faults, txn>>
    BY <1>4 DEF PrepareAuto, RecheckAuto, BeginRelease, Goto
  <2> QED BY <1>0, <1>1, <2>1, SameSettled, SameCaptured DEF Prepared
<1>5. CASE Finish /\ pc # "rollback" /\ UNCHANGED <<reg, lease, users>>
  BY <1>0, <1>1, <1>5, SameSettled DEF Finish, Captured, Prepared
<1>6. CASE CaptureForEnable
  BY <1>0, <1>6, EnableJournals
<1>7. CASE Journal
  BY <1>0, <1>7, JournalJournals
<1>8. CASE Write
  BY <1>0, <1>8, WriteJournals
<1>9. CASE Written
  BY <1>0, <1>9, WrittenJournals
<1>10. CASE Commit
  BY <1>0, <1>10, CommitJournals
<1>11. CASE CaptureForRelease
  BY <1>0, <1>11, ReleaseJournals
<1>12. CASE Remove
  <2>1. pc = "remove" /\ lease' = NoLease /\ UNCHANGED <<reg, users, faults>> /\ pc' \in {"save", "idle"}
    BY <1>12 DEF Remove, Goto, Finish
  <2>2. UsersAre(reg)
    BY <1>1, <2>1 DEF Prepared
  <2>3. Settled' /\ Prepared'
    BY <2>1, <2>2 DEF Settled, Prepared, Sound, UsersAre, Back
  <2>4. txn' = txn \/ txn' = NoTxn
    BY <1>12 DEF Remove, Finish
  <2> QED BY <1>0, <1>1, <2>1, <2>3, <2>4, SameCaptured DEF Captured
<1>13. CASE Fail
  <2>1. pc # "rollback" /\ UNCHANGED <<reg, lease, users, faults>>
    BY <1>13 DEF Fail
  <2>2. CASE pc' \in {"rollback", "release"} /\ UNCHANGED txn
    BY <1>0, <1>1, <2>1, <2>2, SameSettled, SameCaptured DEF Prepared
  <2> QED BY <1>5, <1>13, <2>1, <2>2 DEF Fail, Goto
<1>14. CASE Rollback
  <2>1. pc = "rollback" /\ pc' = "rollback" /\ UNCHANGED <<txn, users, faults>>
    BY <1>14 DEF Rollback
  <2> QED BY <1>0, <1>1, <2>1, SameCaptured DEF Settled, Prepared
<1>15. CASE RolledBack
  <2>1. /\ pc = "rollback" /\ reg = txn.before /\ lease' = txn.lease /\ Finish
        /\ UNCHANGED <<reg, users, faults>>
    BY <1>15 DEF RolledBack
  <2>2. Sound(reg, lease')
    BY <1>1, <2>1 DEF Captured, IInv, Positions
  <2> QED BY <2>1, <2>2 DEF Finish, Settled, Captured, Prepared, Sound, UsersAre
<1>16. CASE RollbackFails \/ (Crash /\ pc = "rollback")
  BY <1>16 DEF RollbackFails, Crash, Benign
<1>17. CASE ExternalRoute
  BY <1>0, <1>17, RouteJournals
<1>18. CASE ExternalBypass
  BY <1>0, <1>18, BypassJournals
<1>19. CASE AutoRefused \/ Verify \/ SaveSettings \/ (Crash /\ pc # "rollback")
  BY <1>5, <1>19 DEF AutoRefused, Verify, SaveSettings, Crash
<1> QED
  BY <1>2, <1>3, <1>4, <1>6, <1>7, <1>8, <1>9, <1>10, <1>11, <1>12, <1>13, <1>14, <1>15, <1>16,
     <1>17, <1>18, <1>19 DEF Next, Operation

-----------------------------------------------------------------------------
(* The results                                                             *)

(* The invariant holds at first and is kept by every step.                 *)
THEOREM Inductive == Spec => []IInv
<1>1. IInv /\ [Next]_vars => IInv'
  BY TypeStep, PositionsStep, TargetsStep, FormsStep, JournalsStep, ResumesStep DEF IInv
<1> QED BY InitIInv, <1>1, PTL DEF Spec

(* Every variable has its type, for any ports and original settings.       *)
THEOREM TypeCorrect == Spec => []TypeOK
<1>1. IInv => TypeOK
  BY DEF IInv
<1> QED BY <1>1, Inductive, PTL

(* At every instant the lease on disk can undo what is in the registry     *)
(* (platform.rs 207-219): Serylane's values are there only under a lease   *)
(* that recognizes them and leads back to the user's route.                *)
THEOREM AlwaysJournaled == Spec => []Journaled
<1>1. IInv => Journaled
  <2> SUFFICES ASSUME IInv, Benign, pc # "rollback", ~SameRoute(reg, users)
               PROVE  Owned /\ SameRoute(lease.original, users)
    BY DEF Journaled, Benign
  <2>1. SameRoute(Back(reg, lease), users)
    BY DEF IInv, Journals, Settled, Sound, UsersAre
  <2>2. Owned
    BY <2>1 DEF Back, Owned, HasLease
  <2>3. lease \in Leases /\ reg \in Proxies /\ Back(reg, lease) = Restoration(lease, reg)
    BY <2>2 DEF Back, Owned, HasLease, IInv, TypeOK
  <2> QED BY <2>1, <2>2, <2>3, GivesBack DEF SameRoute
<1> QED BY <1>1, Inductive, PTL

(* When nothing runs and no lease is left, the user has his own settings   *)
(* back: the route always, the bypass list too unless it was edited under  *)
(* a proxy that was enabled once more (platform.rs 320-357).               *)
THEOREM AlwaysReturned == Spec => []SettingsReturn
<1>1. IInv => SettingsReturn
  <2> SUFFICES ASSUME IInv, pc = "idle", ~HasLease
               PROVE  /\ faults \subseteq {"reapplied"} => SameRoute(reg, users)
                      /\ faults = {} => reg = users
    BY DEF SettingsReturn
  <2>1. Benign => UsersAre(Back(reg, lease))
    BY DEF IInv, Journals, Settled, Sound
  <2>2. Back(reg, lease) = reg
    BY DEF Back, HasLease
  <2> QED BY <2>1, <2>2 DEF Benign, UsersAre
<1> QED BY <1>1, Inductive, PTL

(* An automatic resume writes only over settings that its preflight saw    *)
(* and found free (platform.rs 111-127, 163-199).                          *)
THEOREM AutoStaysOut == Spec => AutoKeepsOut
<1>1. IInv /\ [Next]_vars =>
        [pc = "journal" /\ op = "Auto" /\ pc' = "write" /\ "raced" \notin faults
           => reg = guard /\ Available(reg)]_vars
  BY DEF IInv, Resumes, Available, Owned, HasLease
<1> QED BY <1>1, Inductive, PTL DEF Spec, AutoKeepsOut
=============================================================================
