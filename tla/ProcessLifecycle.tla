--------------------------- MODULE ProcessLifecycle ---------------------------
(***************************************************************************)
(* The process-admission gate of src-tauri/src/lifecycle.rs.               *)
(*                                                                         *)
(* One atomic word holds an epoch and the independent reasons that close   *)
(* the gate.  Three kinds of threads meet there:                           *)
(*   - Enders: the window thread that answers WM_QUERYENDSESSION and       *)
(*     WM_ENDSESSION (windows_lifecycle.rs) and the exit handler; they     *)
(*     call prepare, cancel and close;                                     *)
(*   - Updaters: an installation that holds an UpdatePause (app_update.rs);*)
(*   - Workers: everything that takes a ticket, either to be admitted to   *)
(*     create a process (admission) or to adopt the result of a long       *)
(*     observation (ticket, work, check).                                  *)
(* Each load, compare-and-swap and try_lock is a step of its own.          *)
(***************************************************************************)
EXTENDS Naturals, FiniteSets

CONSTANTS
  Workers, Updaters, Enders,   \* the threads
  NoOne,                       \* the owner of a free spawn mutex
  MaxWaits,                    \* 2 ms naps that fit the 250 ms of admission()
  MaxEpoch                     \* bound of a model: no call begins past it

ASSUME ThreadsAssumption ==
  /\ Workers \intersect (Updaters \union Enders) = {}
  /\ Updaters \intersect Enders = {}
  /\ NoOne \notin Workers

ASSUME BoundsAssumption == MaxWaits \in Nat /\ MaxEpoch \in Nat

VARIABLES
  gate,      \* Lifecycle.state: the epoch and the reasons
  spawn,     \* Lifecycle.spawn: the worker that holds the mutex
  pc,        \* where each thread is
  seen,      \* the value each thread last loaded (`old` or `ticket`)
  call,      \* the flag() call an ender or an updater is in
  waits,     \* naps a worker has taken in this admission
  stale,     \* history: the gate changed since the worker took its ticket
  ending     \* history: a successful prepare has not been cancelled

vars == <<gate, spawn, pc, seen, call, waits, stale, ending>>

Flags == {"PREPARING", "CLOSING", "UPDATING"}
Callers == Updaters \union Enders
Threads == Workers \union Callers
GateState == [epoch : Nat, reasons : SUBSET Flags]
FlagCall == [flag : Flags, set : BOOLEAN]

TypeOK ==
  /\ gate \in GateState
  /\ spawn \in Workers \union {NoOne}
  /\ pc \in [Threads -> {"idle", "flag", "pausing", "paused", "ticketed",
                         "trying", "locked", "guarded", "observing"}]
  /\ seen \in [Threads -> GateState]
  /\ call \in [Callers -> FlagCall]
  /\ waits \in [Workers -> Nat]
  /\ stale \in [Workers -> BOOLEAN]
  /\ ending \in BOOLEAN

OpenGate == [epoch |-> 0, reasons |-> {}]

Init ==
  /\ gate = OpenGate
  /\ spawn = NoOne
  /\ pc = [t \in Threads |-> "idle"]
  /\ seen = [t \in Threads |-> OpenGate]
  /\ call = [c \in Callers |-> [flag |-> "PREPARING", set |-> FALSE]]
  /\ waits = [w \in Workers |-> 0]
  /\ stale = [w \in Workers |-> FALSE]
  /\ ending = FALSE

-----------------------------------------------------------------------------
(* The atomic word.                                                        *)

Goto(t, l) == pc' = [pc EXCEPT ![t] = l]

(* A load of the word into the thread's local.                             *)
Load(t) == seen' = [seen EXCEPT ![t] = gate]

(* check(ticket): no reason in the ticket and the word has not moved.      *)
Check(t) == seen[t].reasons = {} /\ gate = seen[t]

(* Mutant: the epoch is left alone, so a cancel restores the old word.     *)
ReopenedSameEpoch(old, c) ==
  [epoch   |-> old.epoch,
   reasons |-> IF c.set THEN old.reasons \union {c.flag}
                        ELSE old.reasons \ {c.flag}]

Reopened(old, c) ==
  [epoch   |-> old.epoch + 1,
   reasons |-> IF c.set THEN old.reasons \union {c.flag}
                        ELSE old.reasons \ {c.flag}]

(* flag() leaves the word alone: terminally closed, or already so.         *)
Refused(old, c) ==
  \/ "CLOSING" \in old.reasons
  \/ (c.flag \in old.reasons) = c.set

(* A successful compare-and-swap; every worker's ticket is now stale.      *)
Swap(new) ==
  /\ gate' = new
  /\ stale' = [w \in Workers |-> TRUE]

-----------------------------------------------------------------------------
(* flag(): prepare, cancel and close of an ender, the drop of an updater.  *)

EnderCalls ==
  {[flag |-> "PREPARING", set |-> TRUE],      \* prepare
   [flag |-> "PREPARING", set |-> FALSE],     \* cancel
   [flag |-> "CLOSING", set |-> TRUE]}        \* close

StartFlag(e) ==
  /\ pc[e] = "idle"
  /\ gate.epoch < MaxEpoch
  /\ \E c \in EnderCalls : call' = [call EXCEPT ![e] = c]
  /\ Load(e)
  /\ Goto(e, "flag")
  /\ UNCHANGED <<gate, spawn, waits, stale, ending>>

FlagReturnsFalse(c) ==
  /\ pc[c] = "flag"
  /\ Refused(seen[c], call[c])
  /\ Goto(c, "idle")
  /\ UNCHANGED <<gate, spawn, seen, call, waits, stale, ending>>

FlagSwaps(c) ==
  /\ pc[c] = "flag"
  /\ ~Refused(seen[c], call[c])
  /\ gate = seen[c]
  /\ Swap(Reopened(seen[c], call[c]))
  /\ ending' = IF call[c].flag = "PREPARING" THEN call[c].set ELSE ending
  /\ Goto(c, "idle")
  /\ UNCHANGED <<spawn, seen, call, waits>>

FlagRetries(c) ==
  /\ pc[c] = "flag"
  /\ ~Refused(seen[c], call[c])
  /\ gate # seen[c]
  /\ Load(c)
  /\ UNCHANGED <<gate, spawn, pc, call, waits, stale, ending>>

-----------------------------------------------------------------------------
(* pause_update and the drop of the UpdatePause it returns.                *)

PauseLoads(u) ==
  /\ pc[u] = "idle"
  /\ gate.epoch < MaxEpoch
  /\ Load(u)
  /\ Goto(u, "pausing")
  /\ UNCHANGED <<gate, spawn, call, waits, stale, ending>>

(* Mutant: a store in place of the compare-and-swap.                       *)
PauseStores(u) ==
  /\ pc[u] = "pausing"
  /\ seen[u].reasons = {}
  /\ Swap([epoch |-> seen[u].epoch + 1, reasons |-> {"UPDATING"}])
  /\ Goto(u, "paused")
  /\ UNCHANGED <<spawn, seen, call, waits, ending>>

(* ticket() succeeded and the exchange found the word it had checked.      *)
PauseSwaps(u) ==
  /\ pc[u] = "pausing"
  /\ Check(u)
  /\ Swap([epoch |-> seen[u].epoch + 1, reasons |-> {"UPDATING"}])
  /\ Goto(u, "paused")
  /\ UNCHANGED <<spawn, seen, call, waits, ending>>

(* Interrupted: the session changed, the installation does not start.      *)
PauseFails(u) ==
  /\ pc[u] = "pausing"
  /\ ~Check(u)
  /\ Goto(u, "idle")
  /\ UNCHANGED <<gate, spawn, seen, call, waits, stale, ending>>

DropPause(u) ==
  /\ pc[u] = "paused"
  /\ call' = [call EXCEPT ![u] = [flag |-> "UPDATING", set |-> FALSE]]
  /\ Load(u)
  /\ Goto(u, "flag")
  /\ UNCHANGED <<gate, spawn, waits, stale, ending>>

-----------------------------------------------------------------------------
(* ticket(), admission() and its guard.                                    *)

TakeTicket(w) ==
  /\ pc[w] = "idle"
  /\ Load(w)
  /\ waits' = [waits EXCEPT ![w] = 0]
  /\ stale' = [stale EXCEPT ![w] = FALSE]
  /\ Goto(w, "ticketed")
  /\ UNCHANGED <<gate, spawn, call, ending>>

(* The check of ticket() and the one at the head of admission()'s loop.    *)
CheckBeforeLock(w) ==
  /\ pc[w] = "ticketed"
  /\ Check(w)
  /\ Goto(w, "trying")
  /\ UNCHANGED <<gate, spawn, seen, call, waits, stale, ending>>

TryLock(w) ==
  /\ pc[w] = "trying"
  /\ spawn = NoOne
  /\ spawn' = w
  /\ Goto(w, "locked")
  /\ UNCHANGED <<gate, seen, call, waits, stale, ending>>

(* Mutant: the nap is not counted, the 250 ms never run out.               *)
WouldBlockUncounted(w) ==
  /\ pc[w] = "trying"
  /\ spawn # NoOne
  /\ Goto(w, "ticketed")
  /\ UNCHANGED <<gate, spawn, seen, call, waits, stale, ending>>

WouldBlock(w) ==
  /\ pc[w] = "trying"
  /\ spawn # NoOne
  /\ waits[w] < MaxWaits
  /\ waits' = [waits EXCEPT ![w] = @ + 1]
  /\ Goto(w, "ticketed")
  /\ UNCHANGED <<gate, spawn, seen, call, stale, ending>>

TimedOut(w) ==
  /\ pc[w] = "trying"
  /\ spawn # NoOne
  /\ waits[w] >= MaxWaits
  /\ Goto(w, "idle")
  /\ UNCHANGED <<gate, spawn, seen, call, waits, stale, ending>>

(* Mutant: no second check under the mutex.                                *)
AdmittedUnchecked(w) ==
  /\ pc[w] = "locked"
  /\ Goto(w, "guarded")
  /\ UNCHANGED <<gate, spawn, seen, call, waits, stale, ending>>

(* The second check, under the mutex: the guard is returned.               *)
Admitted(w) ==
  /\ pc[w] = "locked"
  /\ Check(w)
  /\ Goto(w, "guarded")
  /\ UNCHANGED <<gate, spawn, seen, call, waits, stale, ending>>

(* A check fails: the call returns Interrupted and lets the mutex go.      *)
Interrupted(w) ==
  /\ pc[w] \in {"ticketed", "locked", "observing"}
  /\ ~Check(w)
  /\ spawn' = IF pc[w] = "locked" THEN NoOne ELSE spawn
  /\ Goto(w, "idle")
  /\ UNCHANGED <<gate, seen, call, waits, stale, ending>>

(* The process is created, or skipped because Windows is shutting down,    *)
(* and the guard is dropped.                                               *)
ReleaseGuard(w) ==
  /\ pc[w] = "guarded"
  /\ spawn' = NoOne
  /\ Goto(w, "idle")
  /\ UNCHANGED <<gate, seen, call, waits, stale, ending>>

(* A diagnostic step or a route test: ticket() succeeds, long work outside *)
(* any lock, check.                                                        *)
Observe(w) ==
  /\ pc[w] = "idle"
  /\ gate.reasons = {}
  /\ Load(w)
  /\ stale' = [stale EXCEPT ![w] = FALSE]
  /\ Goto(w, "observing")
  /\ UNCHANGED <<gate, spawn, call, waits, ending>>

Adopt(w) ==
  /\ pc[w] = "observing"
  /\ Check(w)
  /\ Goto(w, "idle")
  /\ UNCHANGED <<gate, spawn, seen, call, waits, stale, ending>>

-----------------------------------------------------------------------------
EnderStep(e) == StartFlag(e) \/ FlagReturnsFalse(e) \/ FlagSwaps(e) \/ FlagRetries(e)

UpdaterStep(u) ==
  \/ PauseLoads(u) \/ PauseSwaps(u) \/ PauseFails(u) \/ DropPause(u)
  \/ FlagReturnsFalse(u) \/ FlagSwaps(u) \/ FlagRetries(u)

(* The steps of admission(); none of them waits for another thread.        *)
AdmissionStep(w) ==
  \/ CheckBeforeLock(w) \/ TryLock(w) \/ WouldBlock(w) \/ TimedOut(w)
  \/ Admitted(w) \/ Interrupted(w)

WorkerStep(w) ==
  \/ TakeTicket(w) \/ AdmissionStep(w) \/ ReleaseGuard(w)
  \/ Observe(w) \/ Adopt(w)

Next ==
  \/ \E e \in Enders : EnderStep(e)
  \/ \E u \in Updaters : UpdaterStep(u)
  \/ \E w \in Workers : WorkerStep(w)

Spec == Init /\ [][Next]_vars

(* A thread inside admission() is scheduled; nothing else is promised: the *)
(* guard's owner may take for ever to create its process.                  *)
Fairness == \A w \in Workers : WF_vars(AdmissionStep(w))

FairSpec == Spec /\ Fairness

-----------------------------------------------------------------------------
(* An UpdatePause exists.                                                  *)
Pausing(u) == pc[u] = "paused" \/ pc[u] = "flag"

(* The reasons that hold an unclosed gate are exactly those somebody holds:*)
(* an update pause and a session that is ending never clear each other,    *)
(* and no two installations hold the pause (lifecycle.rs 19-20, 101-123).  *)
ReasonsMatchOwners ==
  "CLOSING" \notin gate.reasons =>
    /\ "PREPARING" \in gate.reasons <=> ending
    /\ "UPDATING" \in gate.reasons <=> \E u \in Updaters : Pausing(u)
    /\ \A u, v \in Updaters : Pausing(u) /\ Pausing(v) => u = v

(* Exit is terminal: once closed the word never moves again, whatever      *)
(* prepare, cancel, pause or drop was already in flight with an old value. *)
ClosingIsTerminal == [][~("CLOSING" \in gate.reasons)]_gate

(* A guard is handed out, and an observation adopted, only if nothing      *)
(* changed since the ticket was taken: cancelling a shutdown does not      *)
(* revive the work of an earlier epoch (no ABA).                           *)
NoRevivedWork ==
  [][\A w \in Workers : Admitted(w) \/ Adopt(w) =>
        ~stale[w] /\ gate.reasons = {}]_vars

(* admission() returns, granted or refused, even if the guard's owner      *)
(* never finishes creating its process.                                    *)
AdmissionReturns ==
  \A w \in Workers : pc[w] \in {"ticketed", "trying", "locked"}
                       ~> pc[w] \in {"idle", "guarded"}

-----------------------------------------------------------------------------
(* The abstract gate this one implements.                                  *)

Abstract == INSTANCE AdmissionGate WITH
  held    <- gate.reasons,
  live    <- {w \in Workers :
                /\ pc[w] \in {"ticketed", "trying", "locked", "observing"}
                /\ Check(w)},
  running <- {w \in Workers : pc[w] = "guarded"}

(* Every step of the gate is a step of the abstract gate or none at all.   *)
ImplementsGate == Abstract!GateSpec
=============================================================================
