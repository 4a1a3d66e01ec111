------------------------ MODULE ProcessLifecycleProofs ------------------------
(***************************************************************************)
(* The process gate, for any number of threads and any bounds.             *)
(*                                                                         *)
(* The argument: an epoch is never reused, so a thread whose loaded epoch  *)
(* is the current one has loaded the current word, and a worker whose      *)
(* ticket went stale holds a strictly older epoch.                         *)
(***************************************************************************)
EXTENDS ProcessLifecycle, TLAPS

(* The first state and every step respect the type of every variable.      *)
LEMMA InitTypeOK == Init => TypeOK
<1>1. OpenGate \in GateState
  BY DEF OpenGate, GateState
<1>2. [flag |-> "PREPARING", set |-> FALSE] \in FlagCall
  BY DEF FlagCall, Flags
<1>3. SUFFICES ASSUME Init PROVE TypeOK
  OBVIOUS
<1>4. seen \in [Threads -> GateState] /\ gate \in GateState
  BY <1>1, <1>3 DEF Init
<1>5. call \in [Callers -> FlagCall]
  BY <1>2, <1>3, Zenon DEF Init
<1> QED BY <1>3, <1>4, <1>5 DEF Init, TypeOK

(* No step takes a variable out of its type.                               *)
LEMMA StepTypeOK == TypeOK /\ [Next]_vars => TypeOK'
<1> SUFFICES ASSUME TypeOK, [Next]_vars PROVE TypeOK'
  OBVIOUS
<1> USE DEF TypeOK, Goto, Load, Check, Threads, Callers
<1>1. ASSUME NEW e \in Enders, StartFlag(e) PROVE TypeOK'
  <2>1. EnderCalls \subseteq FlagCall
    BY DEF EnderCalls, FlagCall, Flags
  <2> QED BY <1>1, <2>1 DEF StartFlag
<1>2. ASSUME NEW c \in Callers, FlagReturnsFalse(c) PROVE TypeOK'
  BY <1>2 DEF FlagReturnsFalse
<1>3. ASSUME NEW c \in Callers, FlagSwaps(c) PROVE TypeOK'
  <2>1. Reopened(seen[c], call[c]) \in GateState
    BY DEF Reopened, GateState, FlagCall
  <2>2. call[c].set \in BOOLEAN
    BY DEF FlagCall
  <2> QED BY <1>3, <2>1, <2>2 DEF FlagSwaps, Swap
<1>4. ASSUME NEW c \in Callers, FlagRetries(c) PROVE TypeOK'
  BY <1>4 DEF FlagRetries
<1>5. ASSUME NEW u \in Updaters, PauseLoads(u) PROVE TypeOK'
  BY <1>5 DEF PauseLoads
<1>6. ASSUME NEW u \in Updaters, PauseSwaps(u) PROVE TypeOK'
  <2>1. [epoch |-> seen[u].epoch + 1, reasons |-> {"UPDATING"}] \in GateState
    BY DEF GateState, Flags
  <2> QED BY <1>6, <2>1 DEF PauseSwaps, Swap
<1>7. ASSUME NEW u \in Updaters, PauseFails(u) PROVE TypeOK'
  BY <1>7 DEF PauseFails
<1>8. ASSUME NEW u \in Updaters, DropPause(u) PROVE TypeOK'
  <2>1. [flag |-> "UPDATING", set |-> FALSE] \in FlagCall
    BY DEF FlagCall, Flags
  <2>2. call' \in [Callers -> FlagCall]
    BY <1>8, <2>1, Zenon DEF DropPause
  <2> QED BY <1>8, <2>2 DEF DropPause
<1>9. ASSUME NEW w \in Workers, WorkerStep(w) PROVE TypeOK'
  <2>1. CASE TakeTicket(w)
    BY <2>1 DEF TakeTicket
  <2>2. CASE Interrupted(w)
    BY <2>2 DEF Interrupted
  <2>3. CASE WouldBlock(w)
    BY <2>3 DEF WouldBlock
  <2>4. CASE Observe(w)
    BY <2>4 DEF Observe
  <2>5. CASE CheckBeforeLock(w) \/ TryLock(w) \/ TimedOut(w) \/ Admitted(w)
    BY <2>5 DEF CheckBeforeLock, TryLock, TimedOut, Admitted
  <2>6. CASE ReleaseGuard(w) \/ Adopt(w)
    BY <2>6 DEF ReleaseGuard, Adopt
  <2> QED BY <1>9, <2>1, <2>2, <2>3, <2>4, <2>5, <2>6
    DEF WorkerStep, AdmissionStep
<1>10. CASE UNCHANGED vars
  BY <1>10 DEF vars
<1> QED
  BY <1>1, <1>2, <1>3, <1>4, <1>5, <1>6, <1>7, <1>8, <1>9, <1>10
  DEF Next, EnderStep, UpdaterStep

(* Every variable of the gate keeps its type in every behaviour.           *)
THEOREM TypeCorrect == Spec => []TypeOK
BY InitTypeOK, StepTypeOK, PTL DEF Spec

-----------------------------------------------------------------------------
(* Where a thread of each kind can be, and the call it can be in.          *)
Places ==
  /\ \A w \in Workers : pc[w] \in {"idle", "ticketed", "trying", "locked",
                                     "guarded", "observing"}
  /\ \A u \in Updaters : pc[u] \in {"idle", "pausing", "paused", "flag"}
  /\ \A e \in Enders : pc[e] \in {"idle", "flag"}
  /\ \A u \in Updaters : pc[u] = "flag" =>
        call[u].flag = "UPDATING" /\ ~call[u].set
  /\ \A e \in Enders : pc[e] = "flag" => call[e] \in EnderCalls

(* An epoch names one value of the word, and a stale ticket an older one.  *)
EpochsNameValues ==
  /\ \A t \in Threads : seen[t].epoch <= gate.epoch
  /\ \A t \in Threads : seen[t].epoch = gate.epoch => seen[t] = gate
  /\ \A w \in Workers : stale[w] => seen[w].epoch < gate.epoch

(* A loaded value that was closed still is, and a drop in flight loaded a  *)
(* value that its own pause, or the exit, holds.                           *)
LoadsAreHeld ==
  /\ \A t \in Threads : "CLOSING" \in seen[t].reasons => "CLOSING" \in gate.reasons
  /\ \A u \in Updaters : pc[u] = "flag" =>
        "UPDATING" \in seen[u].reasons \/ "CLOSING" \in seen[u].reasons

MutexOwner ==
  \A w \in Workers : (spawn = w) <=> (pc[w] \in {"locked", "guarded"})

IInv ==
  /\ TypeOK
  /\ Places
  /\ EpochsNameValues
  /\ LoadsAreHeld
  /\ MutexOwner
  /\ ReasonsMatchOwners

(* The gate's invariant holds in every behaviour.                          *)
THEOREM Inductive == Spec => []IInv
<1>1. Init => IInv
  <2> SUFFICES ASSUME Init PROVE IInv
    OBVIOUS
  <2>1. TypeOK
    BY InitTypeOK
  <2>2. Places /\ MutexOwner
    BY ThreadsAssumption DEF Init, Places, MutexOwner, Threads, Callers
  <2>3. EpochsNameValues /\ LoadsAreHeld
    BY DEF Init, EpochsNameValues, LoadsAreHeld, Threads, Callers, OpenGate
  <2>4. ReasonsMatchOwners
    BY DEF Init, ReasonsMatchOwners, Pausing, OpenGate, Threads, Callers
  <2> QED BY <2>1, <2>2, <2>3, <2>4 DEF IInv
<1>2. IInv /\ [Next]_vars => IInv'
  <2> SUFFICES ASSUME IInv, [Next]_vars PROVE IInv'
    OBVIOUS
  <2> USE ThreadsAssumption DEF Threads, Callers, Goto, GateState
  <2>0. TypeOK'
    BY StepTypeOK DEF IInv
  <2>1. ASSUME NEW e \in Enders, StartFlag(e) PROVE IInv'
    <3>1. Places'
      BY <2>1 DEF IInv, TypeOK, Places, StartFlag, EnderCalls, Load
    <3>2. EpochsNameValues'
      BY <2>1 DEF IInv, TypeOK, EpochsNameValues, StartFlag, EnderCalls, Load
    <3>3. LoadsAreHeld'
      BY <2>1 DEF IInv, TypeOK, Places, LoadsAreHeld, ReasonsMatchOwners,
        Pausing, StartFlag, EnderCalls, Load
    <3>4. MutexOwner'
      BY <2>1 DEF IInv, TypeOK, Places, MutexOwner, StartFlag, EnderCalls, Load
    <3>5. ReasonsMatchOwners'
      BY <2>1 DEF IInv, TypeOK, Places, LoadsAreHeld, ReasonsMatchOwners,
        Pausing, StartFlag, EnderCalls, Load
    <3> QED BY <2>0, <3>1, <3>2, <3>3, <3>4, <3>5 DEF IInv
  <2>2. ASSUME NEW c \in Callers, FlagReturnsFalse(c) PROVE IInv'
    <3>1. Places'
      BY <2>2 DEF IInv, TypeOK, Places, FlagReturnsFalse, Refused
    <3>2. EpochsNameValues'
      BY <2>2 DEF IInv, TypeOK, EpochsNameValues, FlagReturnsFalse, Refused
    <3>3. LoadsAreHeld'
      BY <2>2 DEF IInv, TypeOK, Places, LoadsAreHeld, ReasonsMatchOwners,
        Pausing, FlagReturnsFalse, Refused
    <3>4. MutexOwner'
      BY <2>2 DEF IInv, TypeOK, Places, MutexOwner, FlagReturnsFalse, Refused
    <3>5. ReasonsMatchOwners'
      <4>1. CASE c \in Enders
        <5>1. \A u \in Updaters : Pausing(u)' <=> Pausing(u)
          BY <2>2, <4>1 DEF FlagReturnsFalse, Pausing, IInv, TypeOK
        <5>2. UNCHANGED <<gate, ending>>
          BY <2>2 DEF FlagReturnsFalse
        <5> QED BY <5>1, <5>2, Zenon DEF IInv, ReasonsMatchOwners
      <4>2. CASE c \in Updaters
        <5>1. "CLOSING" \in seen[c].reasons
          BY <2>2, <4>2 DEF FlagReturnsFalse, Refused, IInv, Places,
            LoadsAreHeld
        <5>2. "CLOSING" \in gate'.reasons
          BY <2>2, <4>2, <5>1 DEF FlagReturnsFalse, IInv, LoadsAreHeld
        <5> QED BY <5>2, Zenon DEF ReasonsMatchOwners
      <4> QED BY <4>1, <4>2
    <3> QED BY <2>0, <3>1, <3>2, <3>3, <3>4, <3>5 DEF IInv
  <2>3. ASSUME NEW c \in Callers, FlagSwaps(c) PROVE IInv'
    <3>1. Places'
      BY <2>3 DEF IInv, TypeOK, Places, FlagSwaps, Swap, Reopened, Refused,
        EnderCalls
    <3>2. EpochsNameValues'
      BY <2>3 DEF IInv, TypeOK, EpochsNameValues, FlagSwaps, Swap, Reopened,
        Refused, EnderCalls
    <3>3. LoadsAreHeld'
      BY <2>3 DEF IInv, TypeOK, Places, LoadsAreHeld, ReasonsMatchOwners,
        Pausing, FlagSwaps, Swap, Reopened, Refused, EnderCalls
    <3>4. MutexOwner'
      BY <2>3 DEF IInv, TypeOK, Places, MutexOwner, FlagSwaps, Swap, Reopened,
        Refused, EnderCalls
    <3>5. ReasonsMatchOwners'
      <4>0. /\ gate'.reasons = IF call[c].set THEN gate.reasons \union {call[c].flag}
                                              ELSE gate.reasons \ {call[c].flag}
            /\ "CLOSING" \notin gate.reasons
            /\ pc[c] = "flag" /\ pc' = [pc EXCEPT ![c] = "idle"]
        BY <2>3 DEF FlagSwaps, Swap, Reopened, Refused
      <4>1. CASE c \in Enders
        <5>1. \A u \in Updaters : Pausing(u)' <=> Pausing(u)
          BY <4>0, <4>1 DEF Pausing, IInv, TypeOK
        <5>2. call[c] \in EnderCalls
          BY <4>0, <4>1 DEF IInv, Places
        <5>3. CASE call[c] = [flag |-> "CLOSING", set |-> TRUE]
          <6>1. "CLOSING" \in gate'.reasons
            BY <4>0, <5>3
          <6> QED BY <6>1, Zenon DEF ReasonsMatchOwners
        <5>4. CASE call[c].flag = "PREPARING"
          <6>1. "PREPARING" \in gate'.reasons <=> ending'
            BY <2>3, <4>0, <5>2, <5>4 DEF FlagSwaps, EnderCalls
          <6>2. "UPDATING" \in gate'.reasons <=> "UPDATING" \in gate.reasons
            BY <4>0, <5>4
          <6>3. "UPDATING" \in gate.reasons <=> \E u \in Updaters : Pausing(u)
            BY <4>0 DEF IInv, ReasonsMatchOwners
          <6>4. \A u, v \in Updaters : Pausing(u) /\ Pausing(v) => u = v
            BY <4>0 DEF IInv, ReasonsMatchOwners
          <6> QED BY <5>1, <6>1, <6>2, <6>3, <6>4, Zenon DEF ReasonsMatchOwners
        <5>5. call[c] = [flag |-> "CLOSING", set |-> TRUE] \/ call[c].flag = "PREPARING"
          <6>1. \/ call[c] = [flag |-> "PREPARING", set |-> TRUE]
                \/ call[c] = [flag |-> "PREPARING", set |-> FALSE]
                \/ call[c] = [flag |-> "CLOSING", set |-> TRUE]
            BY <5>2, Zenon DEF EnderCalls
          <6> QED BY <6>1
        <5> QED BY <5>3, <5>4, <5>5, Zenon
      <4>2. CASE c \in Updaters
        <5>1. \A u \in Updaters : Pausing(u)' <=> Pausing(u) /\ u # c
          BY <4>0, <4>2 DEF Pausing, IInv, TypeOK
        <5>2. call[c].flag = "UPDATING" /\ ~call[c].set
          BY <4>0, <4>2 DEF IInv, Places
        <5>3. Pausing(c) /\ ending' = ending
          BY <2>3, <4>0, <5>2 DEF Pausing, FlagSwaps
        <5>4. gate'.reasons = gate.reasons \ {"UPDATING"}
          BY <4>0, <5>2
        <5>5. /\ "PREPARING" \in gate.reasons <=> ending
              /\ \A u, v \in Updaters : Pausing(u) /\ Pausing(v) => u = v
          BY <4>0 DEF IInv, ReasonsMatchOwners
        <5>6. \A u \in Updaters : ~Pausing(u)'
          BY <4>2, <5>1, <5>3, <5>5
        <5>7. "PREPARING" \in gate'.reasons <=> ending'
          BY <5>3, <5>4, <5>5
        <5>8. "UPDATING" \notin gate'.reasons
          BY <5>4
        <5> QED BY <5>6, <5>7, <5>8, Zenon DEF ReasonsMatchOwners
      <4> QED BY <4>1, <4>2
    <3> QED BY <2>0, <3>1, <3>2, <3>3, <3>4, <3>5 DEF IInv
  <2>4. ASSUME NEW c \in Callers, FlagRetries(c) PROVE IInv'
    <3>1. Places'
      BY <2>4 DEF IInv, TypeOK, Places, FlagRetries, Load
    <3>2. EpochsNameValues'
      BY <2>4 DEF IInv, TypeOK, EpochsNameValues, FlagRetries, Load
    <3>3. LoadsAreHeld'
      BY <2>4 DEF IInv, TypeOK, Places, LoadsAreHeld, ReasonsMatchOwners,
        Pausing, FlagRetries, Load
    <3>4. MutexOwner'
      BY <2>4 DEF IInv, TypeOK, Places, MutexOwner, FlagRetries, Load
    <3>5. ReasonsMatchOwners'
      BY <2>4 DEF IInv, TypeOK, Places, LoadsAreHeld, ReasonsMatchOwners,
        Pausing, FlagRetries, Load
    <3> QED BY <2>0, <3>1, <3>2, <3>3, <3>4, <3>5 DEF IInv
  <2>5. ASSUME NEW u \in Updaters, PauseLoads(u) PROVE IInv'
    <3>1. Places'
      BY <2>5 DEF IInv, TypeOK, Places, PauseLoads, Load
    <3>2. EpochsNameValues'
      BY <2>5 DEF IInv, TypeOK, EpochsNameValues, PauseLoads, Load
    <3>3. LoadsAreHeld'
      BY <2>5 DEF IInv, TypeOK, Places, LoadsAreHeld, ReasonsMatchOwners,
        Pausing, PauseLoads, Load
    <3>4. MutexOwner'
      BY <2>5 DEF IInv, TypeOK, Places, MutexOwner, PauseLoads, Load
    <3>5. ReasonsMatchOwners'
      BY <2>5 DEF IInv, TypeOK, Places, LoadsAreHeld, ReasonsMatchOwners,
        Pausing, PauseLoads, Load
    <3> QED BY <2>0, <3>1, <3>2, <3>3, <3>4, <3>5 DEF IInv
  <2>6. ASSUME NEW u \in Updaters, PauseSwaps(u) PROVE IInv'
    <3>1. Places'
      BY <2>6 DEF IInv, TypeOK, Places, PauseSwaps, Swap, Check
    <3>2. EpochsNameValues'
      BY <2>6 DEF IInv, TypeOK, EpochsNameValues, PauseSwaps, Swap, Check
    <3>3. LoadsAreHeld'
      BY <2>6 DEF IInv, TypeOK, Places, LoadsAreHeld, ReasonsMatchOwners,
        Pausing, PauseSwaps, Swap, Check
    <3>4. MutexOwner'
      BY <2>6 DEF IInv, TypeOK, Places, MutexOwner, PauseSwaps, Swap, Check
    <3>5. ReasonsMatchOwners'
      BY <2>6 DEF IInv, TypeOK, Places, LoadsAreHeld, ReasonsMatchOwners,
        Pausing, PauseSwaps, Swap, Check
    <3> QED BY <2>0, <3>1, <3>2, <3>3, <3>4, <3>5 DEF IInv
  <2>7. ASSUME NEW u \in Updaters, PauseFails(u) PROVE IInv'
    <3>1. Places'
      BY <2>7 DEF IInv, TypeOK, Places, PauseFails
    <3>2. EpochsNameValues'
      BY <2>7 DEF IInv, TypeOK, EpochsNameValues, PauseFails
    <3>3. LoadsAreHeld'
      BY <2>7 DEF IInv, TypeOK, Places, LoadsAreHeld, ReasonsMatchOwners,
        Pausing, PauseFails
    <3>4. MutexOwner'
      BY <2>7 DEF IInv, TypeOK, Places, MutexOwner, PauseFails
    <3>5. ReasonsMatchOwners'
      BY <2>7 DEF IInv, TypeOK, Places, LoadsAreHeld, ReasonsMatchOwners,
        Pausing, PauseFails
    <3> QED BY <2>0, <3>1, <3>2, <3>3, <3>4, <3>5 DEF IInv
  <2>8. ASSUME NEW u \in Updaters, DropPause(u) PROVE IInv'
    <3>1. Places'
      BY <2>8 DEF IInv, TypeOK, Places, DropPause, Load
    <3>2. EpochsNameValues'
      BY <2>8 DEF IInv, TypeOK, EpochsNameValues, DropPause, Load
    <3>3. LoadsAreHeld'
      BY <2>8 DEF IInv, TypeOK, Places, LoadsAreHeld, ReasonsMatchOwners,
        Pausing, DropPause, Load
    <3>4. MutexOwner'
      BY <2>8 DEF IInv, TypeOK, Places, MutexOwner, DropPause, Load
    <3>5. ReasonsMatchOwners'
      BY <2>8 DEF IInv, TypeOK, Places, LoadsAreHeld, ReasonsMatchOwners,
        Pausing, DropPause, Load
    <3> QED BY <2>0, <3>1, <3>2, <3>3, <3>4, <3>5 DEF IInv
  <2>9. ASSUME NEW w \in Workers, TakeTicket(w) PROVE IInv'
    <3>1. Places'
      BY <2>9 DEF IInv, TypeOK, Places, TakeTicket, Load
    <3>2. EpochsNameValues'
      BY <2>9 DEF IInv, TypeOK, EpochsNameValues, TakeTicket, Load
    <3>3. LoadsAreHeld'
      BY <2>9 DEF IInv, TypeOK, Places, LoadsAreHeld, ReasonsMatchOwners,
        Pausing, TakeTicket, Load
    <3>4. MutexOwner'
      BY <2>9 DEF IInv, TypeOK, Places, MutexOwner, TakeTicket, Load
    <3>5. ReasonsMatchOwners'
      BY <2>9 DEF IInv, TypeOK, Places, LoadsAreHeld, ReasonsMatchOwners,
        Pausing, TakeTicket, Load
    <3> QED BY <2>0, <3>1, <3>2, <3>3, <3>4, <3>5 DEF IInv
  <2>10. ASSUME NEW w \in Workers, CheckBeforeLock(w) PROVE IInv'
    <3>1. Places'
      BY <2>10 DEF IInv, TypeOK, Places, CheckBeforeLock, Check
    <3>2. EpochsNameValues'
      BY <2>10 DEF IInv, TypeOK, EpochsNameValues, CheckBeforeLock, Check
    <3>3. LoadsAreHeld'
      BY <2>10 DEF IInv, TypeOK, Places, LoadsAreHeld, ReasonsMatchOwners,
        Pausing, CheckBeforeLock, Check
    <3>4. MutexOwner'
      BY <2>10 DEF IInv, TypeOK, Places, MutexOwner, CheckBeforeLock, Check
    <3>5. ReasonsMatchOwners'
      BY <2>10 DEF IInv, TypeOK, Places, LoadsAreHeld, ReasonsMatchOwners,
        Pausing, CheckBeforeLock, Check
    <3> QED BY <2>0, <3>1, <3>2, <3>3, <3>4, <3>5 DEF IInv
  <2>11. ASSUME NEW w \in Workers, TryLock(w) PROVE IInv'
    <3>1. Places'
      BY <2>11 DEF IInv, TypeOK, Places, TryLock
    <3>2. EpochsNameValues'
      BY <2>11 DEF IInv, TypeOK, EpochsNameValues, TryLock
    <3>3. LoadsAreHeld'
      BY <2>11 DEF IInv, TypeOK, Places, LoadsAreHeld, ReasonsMatchOwners,
        Pausing, TryLock
    <3>4. MutexOwner'
      BY <2>11 DEF IInv, TypeOK, Places, MutexOwner, TryLock
    <3>5. ReasonsMatchOwners'
      BY <2>11 DEF IInv, TypeOK, Places, LoadsAreHeld, ReasonsMatchOwners,
        Pausing, TryLock
    <3> QED BY <2>0, <3>1, <3>2, <3>3, <3>4, <3>5 DEF IInv
  <2>12. ASSUME NEW w \in Workers, WouldBlock(w) PROVE IInv'
    <3>1. Places'
      BY <2>12 DEF IInv, TypeOK, Places, WouldBlock
    <3>2. EpochsNameValues'
      BY <2>12 DEF IInv, TypeOK, EpochsNameValues, WouldBlock
    <3>3. LoadsAreHeld'
      BY <2>12 DEF IInv, TypeOK, Places, LoadsAreHeld, ReasonsMatchOwners,
        Pausing, WouldBlock
    <3>4. MutexOwner'
      BY <2>12 DEF IInv, TypeOK, Places, MutexOwner, WouldBlock
    <3>5. ReasonsMatchOwners'
      BY <2>12 DEF IInv, TypeOK, Places, LoadsAreHeld, ReasonsMatchOwners,
        Pausing, WouldBlock
    <3> QED BY <2>0, <3>1, <3>2, <3>3, <3>4, <3>5 DEF IInv
  <2>13. ASSUME NEW w \in Workers, TimedOut(w) PROVE IInv'
    <3>1. Places'
      BY <2>13 DEF IInv, TypeOK, Places, TimedOut
    <3>2. EpochsNameValues'
      BY <2>13 DEF IInv, TypeOK, EpochsNameValues, TimedOut
    <3>3. LoadsAreHeld'
      BY <2>13 DEF IInv, TypeOK, Places, LoadsAreHeld, ReasonsMatchOwners,
        Pausing, TimedOut
    <3>4. MutexOwner'
      BY <2>13 DEF IInv, TypeOK, Places, MutexOwner, TimedOut
    <3>5. ReasonsMatchOwners'
      BY <2>13 DEF IInv, TypeOK, Places, LoadsAreHeld, ReasonsMatchOwners,
        Pausing, TimedOut
    <3> QED BY <2>0, <3>1, <3>2, <3>3, <3>4, <3>5 DEF IInv
  <2>14. ASSUME NEW w \in Workers, Admitted(w) PROVE IInv'
    <3>1. Places'
      BY <2>14 DEF IInv, TypeOK, Places, Admitted, Check
    <3>2. EpochsNameValues'
      BY <2>14 DEF IInv, TypeOK, EpochsNameValues, Admitted, Check
    <3>3. LoadsAreHeld'
      BY <2>14 DEF IInv, TypeOK, Places, LoadsAreHeld, ReasonsMatchOwners,
        Pausing, Admitted, Check
    <3>4. MutexOwner'
      BY <2>14 DEF IInv, TypeOK, Places, MutexOwner, Admitted, Check
    <3>5. ReasonsMatchOwners'
      BY <2>14 DEF IInv, TypeOK, Places, LoadsAreHeld, ReasonsMatchOwners,
        Pausing, Admitted, Check
    <3> QED BY <2>0, <3>1, <3>2, <3>3, <3>4, <3>5 DEF IInv
  <2>15. ASSUME NEW w \in Workers, Interrupted(w) PROVE IInv'
    <3>1. Places'
      BY <2>15 DEF IInv, TypeOK, Places, Interrupted, Check
    <3>2. EpochsNameValues'
      BY <2>15 DEF IInv, TypeOK, EpochsNameValues, Interrupted, Check
    <3>3. LoadsAreHeld'
      BY <2>15 DEF IInv, TypeOK, Places, LoadsAreHeld, ReasonsMatchOwners,
        Pausing, Interrupted, Check
    <3>4. MutexOwner'
      BY <2>15 DEF IInv, TypeOK, Places, MutexOwner, Interrupted, Check
    <3>5. ReasonsMatchOwners'
      BY <2>15 DEF IInv, TypeOK, Places, LoadsAreHeld, ReasonsMatchOwners,
        Pausing, Interrupted, Check
    <3> QED BY <2>0, <3>1, <3>2, <3>3, <3>4, <3>5 DEF IInv
  <2>16. ASSUME NEW w \in Workers, ReleaseGuard(w) PROVE IInv'
    <3>1. Places'
      BY <2>16 DEF IInv, TypeOK, Places, ReleaseGuard
    <3>2. EpochsNameValues'
      BY <2>16 DEF IInv, TypeOK, EpochsNameValues, ReleaseGuard
    <3>3. LoadsAreHeld'
      BY <2>16 DEF IInv, TypeOK, Places, LoadsAreHeld, ReasonsMatchOwners,
        Pausing, ReleaseGuard
    <3>4. MutexOwner'
      BY <2>16 DEF IInv, TypeOK, Places, MutexOwner, ReleaseGuard
    <3>5. ReasonsMatchOwners'
      BY <2>16 DEF IInv, TypeOK, Places, LoadsAreHeld, ReasonsMatchOwners,
        Pausing, ReleaseGuard
    <3> QED BY <2>0, <3>1, <3>2, <3>3, <3>4, <3>5 DEF IInv
  <2>17. ASSUME NEW w \in Workers, Observe(w) PROVE IInv'
    <3>1. Places'
      BY <2>17 DEF IInv, TypeOK, Places, Observe, Load
    <3>2. EpochsNameValues'
      BY <2>17 DEF IInv, TypeOK, EpochsNameValues, Observe, Load
    <3>3. LoadsAreHeld'
      BY <2>17 DEF IInv, TypeOK, Places, LoadsAreHeld, ReasonsMatchOwners,
        Pausing, Observe, Load
    <3>4. MutexOwner'
      BY <2>17 DEF IInv, TypeOK, Places, MutexOwner, Observe, Load
    <3>5. ReasonsMatchOwners'
      BY <2>17 DEF IInv, TypeOK, Places, LoadsAreHeld, ReasonsMatchOwners,
        Pausing, Observe, Load
    <3> QED BY <2>0, <3>1, <3>2, <3>3, <3>4, <3>5 DEF IInv
  <2>18. ASSUME NEW w \in Workers, Adopt(w) PROVE IInv'
    <3>1. Places'
      BY <2>18 DEF IInv, TypeOK, Places, Adopt, Check
    <3>2. EpochsNameValues'
      BY <2>18 DEF IInv, TypeOK, EpochsNameValues, Adopt, Check
    <3>3. LoadsAreHeld'
      BY <2>18 DEF IInv, TypeOK, Places, LoadsAreHeld, ReasonsMatchOwners,
        Pausing, Adopt, Check
    <3>4. MutexOwner'
      BY <2>18 DEF IInv, TypeOK, Places, MutexOwner, Adopt, Check
    <3>5. ReasonsMatchOwners'
      BY <2>18 DEF IInv, TypeOK, Places, LoadsAreHeld, ReasonsMatchOwners,
        Pausing, Adopt, Check
    <3> QED BY <2>0, <3>1, <3>2, <3>3, <3>4, <3>5 DEF IInv
  <2>19. CASE UNCHANGED vars
    BY <2>19, <2>0 DEF vars, IInv, Places, EpochsNameValues, LoadsAreHeld,
      MutexOwner,
      ReasonsMatchOwners, Pausing
  <2> QED
    BY <2>1, <2>2, <2>3, <2>4, <2>5, <2>6, <2>7, <2>8, <2>9, <2>10, <2>11,
      <2>12, <2>13, <2>14, <2>15, <2>16, <2>17, <2>18, <2>19
    DEF Next, EnderStep, UpdaterStep, WorkerStep, AdmissionStep
<1> QED BY <1>1, <1>2, PTL DEF Spec

(* Pauses and a session end never clear each other's reason, and no two    *)
(* installations pause the gate at once.                                   *)
THEOREM ReasonsOwned == Spec => []ReasonsMatchOwners
BY Inductive, PTL DEF IInv

(* No call in flight can move the word after close.                        *)
THEOREM ClosingStays == Spec => ClosingIsTerminal
<1>1. IInv /\ [Next]_vars => [~("CLOSING" \in gate.reasons)]_gate
  <2> SUFFICES ASSUME IInv, Next, gate' # gate PROVE ~("CLOSING" \in gate.reasons)
    BY DEF vars
  <2>1. \/ \E c \in Callers : FlagSwaps(c)
        \/ \E u \in Updaters : PauseSwaps(u)
    BY DEF Next, EnderStep, UpdaterStep, WorkerStep, AdmissionStep, Callers,
      StartFlag,
      FlagReturnsFalse, FlagRetries, PauseLoads, PauseFails, DropPause,
        TakeTicket,
      CheckBeforeLock, TryLock, WouldBlock, TimedOut, Admitted, Interrupted,
      ReleaseGuard, Observe, Adopt
  <2> QED BY <2>1 DEF FlagSwaps, PauseSwaps, Refused, Check
<1> QED BY <1>1, Inductive, PTL DEF Spec, ClosingIsTerminal

(* No process is admitted and no observation adopted on a ticket that a    *)
(* change of the session made stale, whatever happened in between.         *)
THEOREM NoWorkIsRevived == Spec => NoRevivedWork
<1> DEFINE Fresh == \A w \in Workers : Admitted(w) \/ Adopt(w) =>
                      ~stale[w] /\ gate.reasons = {}
<1>1. IInv /\ [Next]_vars => [Fresh]_vars
  BY DEF IInv, TypeOK, EpochsNameValues, Admitted, Adopt, Check, Threads,
    GateState
<1> QED BY <1>1, Inductive, PTL DEF Spec, NoRevivedWork

(* The epochs, compare-and-swap loops and try-locks implement the gate     *)
(* whose changes drop every live request at once.                          *)
THEOREM Implements == Spec => ImplementsGate
<1>1. Init => Abstract!GateInit
  BY DEF Init, Abstract!GateInit, OpenGate, Threads
<1>2. IInv /\ IInv' /\ [Next]_vars => [Abstract!GateNext]_(Abstract!gvars)
  <2> SUFFICES ASSUME IInv, IInv', [Next]_vars
               PROVE  Abstract!GateNext \/ UNCHANGED Abstract!gvars
    OBVIOUS
  <2> USE DEF IInv, TypeOK, Places, Threads, Callers, Goto, Abstract!gvars
  <2>1. ASSUME NEW r \in Flags, "CLOSING" \notin gate.reasons,
               \/ r \notin gate.reasons /\ gate'.reasons = gate.reasons \union {r}
               \/ r \in gate.reasons /\ gate'.reasons = gate.reasons \ {r},
               gate'.epoch = gate.epoch + 1, UNCHANGED seen,
               \A w \in Workers : pc'[w] = pc[w]
        PROVE  Abstract!GateNext
    <3>1. \A w \in Workers : ~Check(w)'
      BY <2>1 DEF Check, EpochsNameValues, GateState
    <3>2. Abstract!Hold(r) \/ Abstract!Release(r)
      BY <2>1, <3>1 DEF Abstract!Hold, Abstract!Release
    <3> QED BY <3>2 DEF Abstract!GateNext, Abstract!Reasons, Flags
  <2>2. ASSUME NEW c \in Callers, FlagSwaps(c) PROVE Abstract!GateNext
    <3>1. call[c].flag \in Flags /\ call[c].set \in BOOLEAN
      BY <2>2 DEF FlagCall
    <3>2. /\ gate' = Reopened(gate, call[c])
          /\ "CLOSING" \notin gate.reasons
          /\ (call[c].flag \in gate.reasons) <=> ~call[c].set
      BY <2>2, <3>1 DEF FlagSwaps, Swap, Refused
    <3>3. UNCHANGED seen /\ \A w \in Workers : pc'[w] = pc[w]
      BY <2>2, ThreadsAssumption DEF FlagSwaps
    <3> QED BY <2>1, <3>1, <3>2, <3>3 DEF Reopened
  <2>3. ASSUME NEW u \in Updaters, PauseSwaps(u) PROVE Abstract!GateNext
    <3>1. gate.reasons = {} /\ gate' = [epoch |-> gate.epoch + 1, reasons |-> {"UPDATING"}]
      BY <2>3 DEF PauseSwaps, Swap, Check
    <3>2. UNCHANGED seen /\ \A w \in Workers : pc'[w] = pc[w]
      BY <2>3, ThreadsAssumption DEF PauseSwaps
    <3> QED BY <2>1, <3>1, <3>2 DEF Flags
  <2> DEFINE InAdmission == {"ticketed", "trying", "locked", "observing"}
             live == {w \in Workers : pc[w] \in InAdmission /\ Check(w)}
             running == {w \in Workers : pc[w] = "guarded"}
  (* Steps of callers that leave the word alone do not show.               *)
  <2>4. ASSUME UNCHANGED gate,
               \A w \in Workers : pc'[w] = pc[w] /\ seen'[w] = seen[w]
        PROVE  UNCHANGED Abstract!gvars
    BY <2>4 DEF Check
  <2>5. ASSUME NEW c \in Callers,
               FlagReturnsFalse(c) \/ FlagRetries(c)
        PROVE  UNCHANGED Abstract!gvars
    BY <2>4, <2>5, ThreadsAssumption DEF FlagReturnsFalse, FlagRetries, Load
  <2>6. ASSUME NEW e \in Enders, StartFlag(e) PROVE UNCHANGED Abstract!gvars
    BY <2>4, <2>6, ThreadsAssumption DEF StartFlag, Load
  <2>7. ASSUME NEW u \in Updaters, PauseLoads(u) \/ PauseFails(u) \/ DropPause(u)
        PROVE  UNCHANGED Abstract!gvars
    BY <2>4, <2>7, ThreadsAssumption
    DEF PauseLoads, PauseFails, DropPause, Load
  (* A worker step changes that worker alone.                              *)
  <2>8. ASSUME NEW w \in Workers, UNCHANGED gate,
               \A v \in Workers \ {w} : pc'[v] = pc[v] /\ seen'[v] = seen[v]
        PROVE  /\ \A v \in Workers \ {w} : v \in live' <=> v \in live
               /\ \A v \in Workers \ {w} : v \in running' <=> v \in running
    BY <2>8 DEF Check
  <2>9. ASSUME NEW w \in Workers, WorkerStep(w)
        PROVE  Abstract!GateNext \/ UNCHANGED Abstract!gvars
    <3>1. /\ \A v \in Workers \ {w} : pc'[v] = pc[v] /\ seen'[v] = seen[v]
          /\ UNCHANGED gate
      BY <2>9 DEF WorkerStep, AdmissionStep, TakeTicket, CheckBeforeLock,
        TryLock, WouldBlock,
        TimedOut, Admitted, Interrupted, ReleaseGuard, Observe, Adopt, Load
    <3>3. CASE TakeTicket(w)
      <4>1. w \notin live \union running /\ w \notin running'
        BY <3>3 DEF TakeTicket
      <4>2. w \in live' => gate.reasons = {}
        BY <3>3 DEF TakeTicket, Load, Check
      <4>3. CASE w \in live'
        <5>1. live' = live \union {w} /\ running' = running
          BY <2>8, <3>1, <4>1, <4>3
        <5>2. Abstract!Ask(w)
          BY <3>1, <4>1, <4>2, <4>3, <5>1 DEF Abstract!Ask
        <5> QED BY <5>2 DEF Abstract!GateNext
      <4> QED BY <3>1, <2>8, <4>1, <4>3
    <3>4. CASE Observe(w)
      <4>1. w \notin live \union running /\ w \notin running' /\ gate.reasons = {} /\ w \in live'
        BY <3>4 DEF Observe, Load, Check
      <4>2. live' = live \union {w} /\ running' = running
        BY <2>8, <3>1, <4>1
      <4>3. Abstract!Ask(w)
        BY <3>1, <4>1, <4>2 DEF Abstract!Ask
      <4> QED BY <4>3 DEF Abstract!GateNext
    <3>5. CASE CheckBeforeLock(w) \/ TryLock(w) \/ WouldBlock(w)
      <4>1. (w \in live' <=> w \in live) /\ w \notin running' /\ w \notin running
        BY <3>5 DEF CheckBeforeLock, TryLock, WouldBlock, Check
      <4> QED BY <3>1, <2>8, <4>1
    <3>6. CASE TimedOut(w) \/ Interrupted(w) \/ Adopt(w)
      <4>1. w \notin live' /\ w \notin running' /\ w \notin running
        BY <3>6 DEF TimedOut, Interrupted, Adopt
      <4>2. live' = live \ {w} /\ running' = running
        BY <2>8, <3>1, <4>1
      <4>3. CASE w \in live
        BY <3>1, <4>2, <4>3 DEF Abstract!Forget, Abstract!GateNext
      <4> QED BY <3>1, <4>2, <4>3
    <3>7. CASE Admitted(w)
      <4>1. w \in live /\ w \notin live' /\ w \in running'
        BY <3>7 DEF Admitted, Check
      <4>2. running = {}
        BY <3>7 DEF Admitted, MutexOwner
      <4>3. live' = live \ {w} /\ running' = {w}
        BY <2>8, <3>1, <4>1, <4>2
      <4>4. Abstract!Grant(w)
        BY <3>1, <4>1, <4>2, <4>3 DEF Abstract!Grant
      <4> QED BY <4>4 DEF Abstract!GateNext
    <3>8. CASE ReleaseGuard(w)
      <4>1. w \in running /\ w \notin running' /\ w \notin live /\ w \notin live'
        BY <3>8 DEF ReleaseGuard
      <4>2. live' = live /\ running' = running \ {w}
        BY <2>8, <3>1, <4>1
      <4>3. Abstract!Done(w)
        BY <3>1, <4>1, <4>2 DEF Abstract!Done
      <4> QED BY <4>3 DEF Abstract!GateNext
    <3> QED BY <2>9, <3>3, <3>4, <3>5, <3>6, <3>7, <3>8
      DEF WorkerStep, AdmissionStep
  <2>10. CASE UNCHANGED vars
    BY <2>4, <2>10 DEF vars
  <2> QED
    BY <2>2, <2>3, <2>5, <2>6, <2>7, <2>9, <2>10
    DEF Next, EnderStep, UpdaterStep
<1> QED BY <1>1, <1>2, Inductive, PTL DEF Spec, ImplementsGate, Abstract!GateSpec
=============================================================================
