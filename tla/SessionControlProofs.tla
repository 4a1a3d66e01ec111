------------------------- MODULE SessionControlProofs -------------------------
(***************************************************************************)
(* Sessions of any number of commands, generations and launches.           *)
(*                                                                         *)
(* The argument: an actor's label says whether it holds the permit and the *)
(* runtime_transition mutex, so at most one actor is on its way to a       *)
(* process, a proxy, an intent or a mode; what it may still do is bounded  *)
(* by what was stored when it got there, and by the gate once cleanup ran. *)
(***************************************************************************)
EXTENDS SessionControl, TLAPS

(* The labels under which an actor holds the configuration permit.         *)
Working == {"start", "spawn", "finish", "apply", "settle", "intend", "undo",
            "stop", "halt", "mode", "switch", "check"}

(* The labels of a start that has a process.                               *)
Started == {"finish", "apply", "settle", "intend"}

(* What a command never does, and what the restore never does; a mode      *)
(* change has a mode to change to.                                         *)
Places ==
  /\ \A c \in Commands : pc[c] \notin {"delay", "helper", "preflight", "check",
                                       "undo"}
  /\ pc[Restorer] \notin {"acquire", "intend", "stop", "halt", "mode", "switch"}
  /\ \A c \in Commands : pc[c] \in {"mode", "switch"} => op[c] \in Modes

(* The permit and the mutex are held by the actor whose label says so.     *)
Holders ==
  /\ \A p \in Starters : pc[p] \in Working <=> permit = p
  /\ \A p \in Starters : pc[p] \in {"spawn", "halt"} <=> lock = p

(* Without a process there is no actor, and no cleanup before the exit.    *)
ProcessHolds ==
  /\ ~up => /\ pc = AllIdle
            /\ core = NoOne /\ permit = NoOne /\ lock = NoOne
  /\ cleaned => ShuttingDown

(* While the mark is clean no start is on its way to a process or a proxy, *)
(* unless the gate that it still has to pass is closed for good.           *)
CleanHolds ==
  clean =>
    /\ ~proxy /\ core = NoOne
    /\ \A p \in Starters :
         /\ pc[p] # "spawn"
         /\ pc[p] \in {"finish", "apply", "switch"} => ShuttingDown

CleanupHolds == cleaned => core = NoOne /\ \A p \in Starters : pc[p] # "spawn"

(* A proxy is about to be applied only in System Proxy mode, and no switch *)
(* enters or leaves TUN.                                                   *)
TunHolds ==
  /\ mode = "Tun" => ~proxy
  /\ \A p \in Starters : pc[p] = "apply" => mode = "SystemProxy"
  /\ \A c \in Commands : pc[c] = "switch" => mode # "Tun" /\ op[c] # "Tun"

(* Under its permit the restore has the stored intent, a Stop has none.    *)
IntentHolds ==
  /\ pc[Restorer] \in Working => desired
  /\ \A c \in Commands : pc[c] = "halt" => ~desired

StopHolds ==
  stopped =>
    /\ ~desired /\ ~proxy /\ core = NoOne
    /\ \A c \in Commands :
         pc[c] \notin Started \union {"start", "spawn", "switch"}

(* A core without an intent belongs to a command that is about to record   *)
(* one, or to stop it; a start knows no other core than its own.           *)
RunHolds ==
  /\ \A p \in Starters : pc[p] \in Started => core \in {p, NoOne}
  /\ core # NoOne /\ ~ShuttingDown =>
       desired \/ \E c \in Commands : pc[c] \in Started \union {"halt"}

IInv ==
  /\ TypeOK
  /\ Places
  /\ Holders
  /\ ProcessHolds
  /\ CleanHolds
  /\ CleanupHolds
  /\ TunHolds
  /\ IntentHolds
  /\ StopHolds
  /\ RunHolds

-----------------------------------------------------------------------------
(* restore_system_proxy never applies a proxy, and success means it is gone.*)
LEMMA RestoreClears ==
  ASSUME proxy \in BOOLEAN, NEW ok \in BOOLEAN, RestoreProxy(ok)
  PROVE  proxy' \in BOOLEAN /\ (proxy' => proxy) /\ (ok => ~proxy')
<1>1. CASE ok
  BY <1>1, Zenon DEF RestoreProxy
<1>2. CASE ~ok
  BY <1>2, Zenon DEF RestoreProxy
<1> QED BY <1>1, <1>2

(* The values a process starts from have their types.                      *)
LEMMA FreshTypeOK ==
  /\ NoPlan \in [gen : Nat, mode : Modes]
  /\ NoOps \in [Commands -> {"Start", "Stop"} \union Modes]
  /\ NoWaits \in [Commands -> BOOLEAN]
  /\ AllIdle \in [Starters -> {"idle"}]
<1>1. NoPlan \in [gen : Nat, mode : Modes]
  BY DEF NoPlan, Modes
<1>2. NoWaits \in [Commands -> BOOLEAN]
  BY Zenon DEF NoWaits
<1>3. NoOps \in [Commands -> {"Start", "Stop"} \union Modes]
  BY DEF NoOps
<1>4. AllIdle \in [Starters -> {"idle"}]
  BY DEF AllIdle
<1> QED BY <1>1, <1>2, <1>3, <1>4

(* The first states have the types of every variable.                      *)
LEMMA InitTypeOK == Init => TypeOK
<1> SUFFICES ASSUME Init PROVE TypeOK
  OBVIOUS
<1>1. /\ desired \in BOOLEAN /\ clean \in BOOLEAN /\ proxy \in BOOLEAN
      /\ up \in BOOLEAN /\ cleaned \in BOOLEAN /\ stopped \in BOOLEAN
  BY Zenon DEF Init
<1>2. pc \in [Starters -> Labels] /\ phase \in Phases
  BY FreshTypeOK DEF Init, Labels, Phases
<1>3. /\ plan \in [gen : Nat, mode : Modes] /\ waits \in [Commands -> BOOLEAN]
      /\ op \in [Commands -> {"Start", "Stop"} \union Modes]
  BY FreshTypeOK, Zenon DEF Init
<1> QED BY <1>1, <1>2, <1>3, ActorsAssumption DEF Init, TypeOK

(* The end of an actor's turn.                                             *)
LEMMA ReleaseTypes ==
  ASSUME TypeOK, NEW p \in Starters, Release(p)
  PROVE  /\ permit' \in Starters \union {NoOne}
         /\ pc' \in [Starters -> Labels]
         /\ op' \in [Commands -> {"Start", "Stop"} \union Modes]
         /\ waits' \in [Commands -> BOOLEAN]
<1>1. permit' = NoOne /\ pc' \in [Starters -> Labels]
  BY DEF Release, TypeOK, Goto, Labels
<1>2. CASE p \in Commands
  BY <1>1, <1>2 DEF Release, TypeOK
<1>3. CASE p \notin Commands
  BY <1>1, <1>3 DEF Release, TypeOK
<1> QED BY <1>2, <1>3

LEMMA StartFailedTypes ==
  ASSUME TypeOK, NEW p \in Starters, NEW why \in {"core", "internet"},
         StartFailed(p, why)
  PROVE  /\ permit' \in Starters \union {NoOne}
         /\ pc' \in [Starters -> Labels]
         /\ op' \in [Commands -> {"Start", "Stop"} \union Modes]
         /\ waits' \in [Commands -> BOOLEAN]
         /\ gen' \in Nat /\ phase' \in Phases
         /\ plan' \in [gen : Nat, mode : Modes]
         /\ cause' \in {"none", "core", "internet"}
<1>1. CASE p = Restorer
  BY <1>1 DEF StartFailed, RestoreFailed, TypeOK, Goto, Labels, Phases
<1>2. CASE p # Restorer
  BY <1>2, ReleaseTypes DEF StartFailed, resume, TypeOK
<1> QED BY <1>1, <1>2

(* No step takes a variable out of its type.                               *)
LEMMA StepTypeOK == TypeOK /\ Places /\ [Next]_vars => TypeOK'
<1> SUFFICES ASSUME TypeOK, Places, [Next]_vars PROVE TypeOK'
  OBVIOUS
<1> USE DEF TypeOK, disk, process, resume, actors, Goto, Starters, Labels
<1>1. ASSUME NEW p \in Starters, MarkUnclean(p) PROVE TypeOK'
  BY <1>1 DEF MarkUnclean, Open
<1>2. ASSUME NEW p \in Starters, StartRefused(p) PROVE TypeOK'
  BY <1>2, StartFailedTypes DEF StartRefused, Refused
<1>3. ASSUME NEW p \in Starters, Spawn(p) PROVE TypeOK'
  BY <1>3 DEF Spawn
<1>4. ASSUME NEW p \in Starters, SpawnFails(p) PROVE TypeOK'
  BY <1>4, StartFailedTypes DEF SpawnFails
<1>5. ASSUME NEW p \in Starters, FinishReady(p) PROVE TypeOK'
  BY <1>5 DEF FinishReady
<1>6. ASSUME NEW p \in Starters, FinishFails(p) PROVE TypeOK'
  BY <1>6, StartFailedTypes DEF FinishFails
<1>7. ASSUME NEW p \in Starters, ApplyProxy(p) PROVE TypeOK'
  BY <1>7 DEF ApplyProxy, Open
<1>8. ASSUME NEW p \in Starters, ApplyFails(p) PROVE TypeOK'
  BY <1>8, StartFailedTypes DEF ApplyFails, Open, Refused
<1>9. ASSUME NEW c \in Commands, Begin(c) PROVE TypeOK'
  BY <1>9 DEF Begin, CancelResume, Modes, Phases
<1>10. ASSUME NEW c \in Commands, Acquire(c) PROVE TypeOK'
  BY <1>10 DEF Acquire
<1>11. ASSUME NEW c \in Commands, AcquireFails(c) PROVE TypeOK'
  BY <1>11 DEF AcquireFails
<1>12. ASSUME NEW c \in Commands, AcquireTimesOut(c) PROVE TypeOK'
  BY <1>12 DEF AcquireTimesOut
<1>13. ASSUME NEW c \in Commands, SettleStart(c) PROVE TypeOK'
  BY <1>13, ReleaseTypes DEF SettleStart
<1>14. ASSUME NEW c \in Commands, RecordIntent(c) PROVE TypeOK'
  BY <1>14, ReleaseTypes DEF RecordIntent, Open
<1>15. ASSUME NEW c \in Commands, IntentRefused(c) PROVE TypeOK'
  BY <1>15, ReleaseTypes, RestoreClears DEF IntentRefused, Refused
<1>16. ASSUME NEW c \in Commands, StopIntent(c) PROVE TypeOK'
  BY <1>16 DEF StopIntent, Open
<1>17. ASSUME NEW c \in Commands, StopRefused(c) PROVE TypeOK'
  BY <1>17, ReleaseTypes DEF StopRefused, Refused
<1>18. ASSUME NEW c \in Commands, StopRuntime(c) PROVE TypeOK'
  BY <1>18, ReleaseTypes, RestoreClears DEF StopRuntime
<1>19. ASSUME NEW c \in Commands, SwitchReady(c) PROVE TypeOK'
  BY <1>19 DEF SwitchReady
<1>20. ASSUME NEW c \in Commands, Switch(c) PROVE TypeOK'
  BY <1>20, ReleaseTypes DEF Switch, Open, Places
<1>21. ASSUME NEW c \in Commands, SwitchFails(c) PROVE TypeOK'
  <2>1. (op[c] = "SystemProxy") \in BOOLEAN
    BY Zenon
  <2>2. proxy' \in BOOLEAN
    BY <1>21, <2>1 DEF SwitchFails
  <2> QED BY <1>21, <2>2, ReleaseTypes DEF SwitchFails
<1>22. ASSUME NEW c \in Commands, SetMode(c) PROVE TypeOK'
  <2>1. mode' \in Modes
    BY <1>22, Zenon DEF SetMode, Places
  <2>2. proxy' \in BOOLEAN
    BY <1>22, RestoreClears DEF SetMode
  <2> QED BY <1>22, <2>1, <2>2, ReleaseTypes DEF SetMode
<1>23. ASSUME NEW c \in Commands, ModeFails(c) PROVE TypeOK'
  <2>1. proxy' \in BOOLEAN
    BY <1>23, RestoreClears DEF ModeFails
  <2> QED BY <1>23, <2>1, ReleaseTypes DEF ModeFails
<1>24. CASE DelayElapsed
  BY <1>24 DEF DelayElapsed, Publish, Phases
<1>25. CASE CancelledEarly
  BY <1>25 DEF CancelledEarly
<1>26. CASE HelperReady
  BY <1>26 DEF HelperReady
<1>27. CASE RestorePauses
  BY <1>27 DEF RestorePauses, Publish, Phases
<1>28. CASE Preflight
  BY <1>28 DEF Preflight
<1>29. CASE CheckCurrent
  BY <1>29 DEF CheckCurrent, Publish, Phases
<1>30. CASE CancelledLate
  BY <1>30 DEF CancelledLate
<1>31. CASE SettleRestore
  BY <1>31, ReleaseTypes DEF SettleRestore, Phases
<1>32. CASE Undo
  BY <1>32, ReleaseTypes, RestoreClears DEF Undo
<1>33. CASE Launch
  <2>1. proxy' \in BOOLEAN
    BY <1>33, RestoreClears DEF Launch
  <2>2. plan' \in [gen : Nat, mode : Modes]
    <3>1. [gen |-> 1, mode |-> mode] \in [gen : Nat, mode : Modes]
      OBVIOUS
    <3> QED BY <1>33, <3>1, Zenon DEF Launch
  <2>3. phase' \in Phases /\ pc' \in [Starters -> Labels] /\ launches' \in Nat
    BY <1>33 DEF Launch, Phases
  <2>4. up' \in BOOLEAN /\ clean' \in BOOLEAN /\ gen' \in Nat
    BY <1>33 DEF Launch
  <2>5. UNCHANGED <<desired, mode, gate, cleaned, core, permit, lock, cause, op,
                    waits, stopped>>
    BY <1>33 DEF Launch
  <2> QED BY <2>1, <2>2, <2>3, <2>4, <2>5
<1>34. CASE HoldGate
  BY <1>34 DEF HoldGate
<1>35. CASE ReleaseGate
  BY <1>35 DEF ReleaseGate
<1>36. CASE BeginShutdown
  BY <1>36 DEF BeginShutdown, CancelResume, Phases
<1>37. CASE Cleanup
  BY <1>37, RestoreClears DEF Cleanup
<1>38. CASE ProcessEnds
  BY <1>38, FreshTypeOK DEF ProcessEnds, LoseMemory, Phases
<1>39. CASE CoreDies
  BY <1>39 DEF CoreDies
<1>40. CASE UNCHANGED vars
  BY <1>40 DEF vars
<1> QED
  BY <1>1, <1>2, <1>3, <1>4, <1>5, <1>6, <1>7, <1>8, <1>9, <1>10, <1>11,
    <1>12, <1>13, <1>14, <1>15, <1>16, <1>17, <1>18, <1>19, <1>20, <1>21,
    <1>22, <1>23, <1>24, <1>25, <1>26, <1>27, <1>28, <1>29, <1>30, <1>31,
    <1>32, <1>33, <1>34, <1>35, <1>36, <1>37, <1>38, <1>39, <1>40 DEF Next,
    StartStep, CommandStep, RestoreStep
-----------------------------------------------------------------------------
(* Every step preserves the invariant.                                     *)
LEMMA StepIInv == IInv /\ [Next]_vars => IInv'
<1> SUFFICES ASSUME IInv, [Next]_vars PROVE IInv'
  OBVIOUS
<1>0. TypeOK'
  BY StepTypeOK DEF IInv
<1> USE ActorsAssumption DEF IInv, TypeOK, disk, process, resume, actors, Goto,
    Starters, ShuttingDown, Working, Started, AllIdle
<1>1. ASSUME NEW p \in Starters, MarkUnclean(p) PROVE IInv'
  <2>1. Places' /\ Holders' /\ ProcessHolds'
    BY <1>1 DEF Places, Holders, ProcessHolds, MarkUnclean, Open
  <2>2. CleanHolds' /\ CleanupHolds' /\ TunHolds'
    BY <1>1 DEF Places, Holders, ProcessHolds, CleanHolds, CleanupHolds,
      TunHolds, MarkUnclean, Open
  <2>3. IntentHolds' /\ StopHolds' /\ RunHolds'
    BY <1>1 DEF Places, Holders, ProcessHolds, IntentHolds, StopHolds,
      RunHolds, MarkUnclean, Open
  <2> QED BY <1>0, <2>1, <2>2, <2>3
<1>2. ASSUME NEW p \in Starters, StartRefused(p) PROVE IInv'
  <2>1. Places' /\ Holders' /\ ProcessHolds'
    BY <1>2 DEF Places, Holders, ProcessHolds, StartRefused, Refused,
      StartFailed, RestoreFailed, Release
  <2>2. CleanHolds' /\ CleanupHolds' /\ TunHolds'
    BY <1>2 DEF Places, Holders, ProcessHolds, CleanHolds, CleanupHolds,
      TunHolds, StartRefused, Refused, StartFailed, RestoreFailed, Release
  <2>3. IntentHolds' /\ StopHolds' /\ RunHolds'
    BY <1>2 DEF Places, Holders, ProcessHolds, IntentHolds, StopHolds,
      RunHolds, StartRefused, Refused, StartFailed, RestoreFailed, Release
  <2> QED BY <1>0, <2>1, <2>2, <2>3
<1>3. ASSUME NEW p \in Starters, Spawn(p) PROVE IInv'
  <2>1. Places' /\ Holders' /\ ProcessHolds'
    BY <1>3 DEF Places, Holders, ProcessHolds, Spawn
  <2>2. CleanHolds' /\ CleanupHolds' /\ TunHolds'
    BY <1>3 DEF Places, Holders, ProcessHolds, CleanHolds, CleanupHolds,
      TunHolds, Spawn
  <2>3. IntentHolds' /\ StopHolds' /\ RunHolds'
    BY <1>3 DEF Places, Holders, ProcessHolds, IntentHolds, StopHolds,
      RunHolds, Spawn
  <2> QED BY <1>0, <2>1, <2>2, <2>3
<1>4. ASSUME NEW p \in Starters, SpawnFails(p) PROVE IInv'
  <2>1. Places' /\ Holders' /\ ProcessHolds'
    BY <1>4 DEF Places, Holders, ProcessHolds, SpawnFails, StartFailed,
      RestoreFailed, Release
  <2>2. CleanHolds' /\ CleanupHolds' /\ TunHolds'
    BY <1>4 DEF Places, Holders, ProcessHolds, CleanHolds, CleanupHolds,
      TunHolds, SpawnFails, StartFailed, RestoreFailed, Release
  <2>3. IntentHolds' /\ StopHolds' /\ RunHolds'
    BY <1>4 DEF Places, Holders, ProcessHolds, IntentHolds, StopHolds,
      RunHolds, SpawnFails, StartFailed, RestoreFailed, Release
  <2> QED BY <1>0, <2>1, <2>2, <2>3
<1>5. ASSUME NEW p \in Starters, FinishReady(p) PROVE IInv'
  <2>1. Places' /\ Holders' /\ ProcessHolds'
    BY <1>5 DEF Places, Holders, ProcessHolds, FinishReady
  <2>2. CleanHolds' /\ CleanupHolds' /\ TunHolds'
    BY <1>5 DEF Places, Holders, ProcessHolds, CleanHolds, CleanupHolds,
      TunHolds, FinishReady
  <2>3. IntentHolds' /\ StopHolds' /\ RunHolds'
    BY <1>5 DEF Places, Holders, ProcessHolds, IntentHolds, StopHolds,
      RunHolds, FinishReady
  <2> QED BY <1>0, <2>1, <2>2, <2>3
<1>6. ASSUME NEW p \in Starters, FinishFails(p) PROVE IInv'
  <2>1. Places' /\ Holders' /\ ProcessHolds'
    BY <1>6 DEF Places, Holders, ProcessHolds, FinishFails, StartFailed,
      RestoreFailed, Release
  <2>2. CleanHolds' /\ CleanupHolds' /\ TunHolds'
    BY <1>6 DEF Places, Holders, ProcessHolds, CleanHolds, CleanupHolds,
      TunHolds, FinishFails, StartFailed, RestoreFailed, Release
  <2>3. IntentHolds' /\ StopHolds' /\ RunHolds'
    BY <1>6 DEF Places, Holders, ProcessHolds, IntentHolds, StopHolds,
      RunHolds, FinishFails, StartFailed, RestoreFailed, Release
  <2> QED BY <1>0, <2>1, <2>2, <2>3
<1>7. ASSUME NEW p \in Starters, ApplyProxy(p) PROVE IInv'
  <2>1. Places' /\ Holders' /\ ProcessHolds'
    BY <1>7 DEF Places, Holders, ProcessHolds, ApplyProxy, Open
  <2>2. CleanHolds' /\ CleanupHolds' /\ TunHolds'
    BY <1>7 DEF Places, Holders, ProcessHolds, CleanHolds, CleanupHolds,
      TunHolds, ApplyProxy, Open
  <2>3. IntentHolds' /\ StopHolds' /\ RunHolds'
    BY <1>7 DEF Places, Holders, ProcessHolds, IntentHolds, StopHolds,
      RunHolds, ApplyProxy, Open
  <2> QED BY <1>0, <2>1, <2>2, <2>3
<1>8. ASSUME NEW p \in Starters, ApplyFails(p) PROVE IInv'
  <2>1. Places' /\ Holders' /\ ProcessHolds'
    BY <1>8 DEF Places, Holders, ProcessHolds, ApplyFails, StartFailed,
      RestoreFailed, Release, Open, Refused
  <2>2. CleanHolds' /\ CleanupHolds' /\ TunHolds'
    <3>1. CASE UNCHANGED proxy
      BY <1>8, <3>1 DEF Places, Holders, ProcessHolds, CleanHolds, CleanupHolds,
        TunHolds, ApplyFails, StartFailed, RestoreFailed, Release
    <3>2. CASE Open
      BY <1>8, <3>2 DEF Places, Holders, ProcessHolds, CleanHolds, CleanupHolds,
        TunHolds, ApplyFails, StartFailed, RestoreFailed, Release, Open
    <3> QED BY <1>8, <3>1, <3>2 DEF ApplyFails
  <2>3. IntentHolds' /\ StopHolds' /\ RunHolds'
    BY <1>8 DEF Places, Holders, ProcessHolds, IntentHolds, StopHolds,
      RunHolds, ApplyFails, StartFailed, RestoreFailed, Release, Open,
      Refused
  <2> QED BY <1>0, <2>1, <2>2, <2>3
<1>9. ASSUME NEW c \in Commands, Begin(c) PROVE IInv'
  <2>1. Places' /\ Holders' /\ ProcessHolds'
    BY <1>9 DEF Places, Holders, ProcessHolds, Begin, CancelResume
  <2>2. CleanHolds' /\ CleanupHolds' /\ TunHolds'
    BY <1>9 DEF Places, Holders, ProcessHolds, CleanHolds, CleanupHolds,
      TunHolds, Begin, CancelResume
  <2>3. IntentHolds' /\ StopHolds' /\ RunHolds'
    BY <1>9 DEF Places, Holders, ProcessHolds, IntentHolds, StopHolds,
      RunHolds, Begin, CancelResume
  <2> QED BY <1>0, <2>1, <2>2, <2>3
<1>10. ASSUME NEW c \in Commands, Acquire(c) PROVE IInv'
  <2>1. Places' /\ Holders' /\ ProcessHolds'
    BY <1>10 DEF Places, Holders, ProcessHolds, Acquire
  <2>2. CleanHolds' /\ CleanupHolds' /\ TunHolds'
    BY <1>10 DEF Places, Holders, ProcessHolds, CleanHolds, CleanupHolds,
      TunHolds, Acquire
  <2>3. IntentHolds' /\ StopHolds' /\ RunHolds'
    BY <1>10 DEF Places, Holders, ProcessHolds, IntentHolds, StopHolds,
      RunHolds, Acquire
  <2> QED BY <1>0, <2>1, <2>2, <2>3
<1>11. ASSUME NEW c \in Commands, AcquireFails(c) PROVE IInv'
  <2>1. Places' /\ Holders' /\ ProcessHolds'
    BY <1>11 DEF Places, Holders, ProcessHolds, AcquireFails
  <2>2. CleanHolds' /\ CleanupHolds' /\ TunHolds'
    BY <1>11 DEF Places, Holders, ProcessHolds, CleanHolds, CleanupHolds,
      TunHolds, AcquireFails
  <2>3. IntentHolds' /\ StopHolds' /\ RunHolds'
    BY <1>11 DEF Places, Holders, ProcessHolds, IntentHolds, StopHolds,
      RunHolds, AcquireFails
  <2> QED BY <1>0, <2>1, <2>2, <2>3
<1>12. ASSUME NEW c \in Commands, AcquireTimesOut(c) PROVE IInv'
  <2>1. Places' /\ Holders' /\ ProcessHolds'
    BY <1>12 DEF Places, Holders, ProcessHolds, AcquireTimesOut
  <2>2. CleanHolds' /\ CleanupHolds' /\ TunHolds'
    BY <1>12 DEF Places, Holders, ProcessHolds, CleanHolds, CleanupHolds,
      TunHolds, AcquireTimesOut
  <2>3. IntentHolds' /\ StopHolds' /\ RunHolds'
    BY <1>12 DEF Places, Holders, ProcessHolds, IntentHolds, StopHolds,
      RunHolds, AcquireTimesOut
  <2> QED BY <1>0, <2>1, <2>2, <2>3
<1>13. ASSUME NEW c \in Commands, SettleStart(c) PROVE IInv'
  <2>1. Places' /\ Holders' /\ ProcessHolds'
    BY <1>13 DEF Places, Holders, ProcessHolds, SettleStart, Release
  <2>2. CleanHolds' /\ CleanupHolds' /\ TunHolds'
    BY <1>13 DEF Places, Holders, ProcessHolds, CleanHolds, CleanupHolds,
      TunHolds, SettleStart, Release
  <2>3. IntentHolds' /\ StopHolds' /\ RunHolds'
    BY <1>13 DEF Places, Holders, ProcessHolds, IntentHolds, StopHolds,
      RunHolds, SettleStart, Release
  <2> QED BY <1>0, <2>1, <2>2, <2>3
<1>14. ASSUME NEW c \in Commands, RecordIntent(c) PROVE IInv'
  <2>1. Places' /\ Holders' /\ ProcessHolds'
    BY <1>14 DEF Places, Holders, ProcessHolds, RecordIntent, Open, Release
  <2>2. CleanHolds' /\ CleanupHolds' /\ TunHolds'
    BY <1>14 DEF Places, Holders, ProcessHolds, CleanHolds, CleanupHolds,
      TunHolds, RecordIntent, Open, Release
  <2>3. IntentHolds' /\ StopHolds' /\ RunHolds'
    BY <1>14 DEF Places, Holders, ProcessHolds, IntentHolds, StopHolds,
      RunHolds, RecordIntent, Open, Release
  <2> QED BY <1>0, <2>1, <2>2, <2>3
<1>15. ASSUME NEW c \in Commands, IntentRefused(c) PROVE IInv'
  <2>1. Places' /\ Holders' /\ ProcessHolds'
    BY <1>15 DEF Places, Holders, ProcessHolds, IntentRefused, Refused,
      Release, RestoreProxy
  <2>2. CleanHolds' /\ CleanupHolds' /\ TunHolds'
    BY <1>15, RestoreClears DEF Places, Holders, ProcessHolds, CleanHolds,
      CleanupHolds, TunHolds, IntentRefused, Refused, Release
  <2>3. IntentHolds' /\ StopHolds' /\ RunHolds'
    BY <1>15, RestoreClears DEF Places, Holders, ProcessHolds, IntentHolds,
      StopHolds, RunHolds, IntentRefused, Refused, Release
  <2> QED BY <1>0, <2>1, <2>2, <2>3
<1>16. ASSUME NEW c \in Commands, StopIntent(c) PROVE IInv'
  <2>1. Places' /\ Holders' /\ ProcessHolds'
    BY <1>16 DEF Places, Holders, ProcessHolds, StopIntent, Open
  <2>2. CleanHolds' /\ CleanupHolds' /\ TunHolds'
    BY <1>16 DEF Places, Holders, ProcessHolds, CleanHolds, CleanupHolds,
      TunHolds, StopIntent, Open
  <2>3. IntentHolds' /\ StopHolds' /\ RunHolds'
    BY <1>16 DEF Places, Holders, ProcessHolds, IntentHolds, StopHolds,
      RunHolds, StopIntent, Open
  <2> QED BY <1>0, <2>1, <2>2, <2>3
<1>17. ASSUME NEW c \in Commands, StopRefused(c) PROVE IInv'
  <2>1. Places' /\ Holders' /\ ProcessHolds'
    BY <1>17 DEF Places, Holders, ProcessHolds, StopRefused, Refused, Release
  <2>2. CleanHolds' /\ CleanupHolds' /\ TunHolds'
    BY <1>17 DEF Places, Holders, ProcessHolds, CleanHolds, CleanupHolds,
      TunHolds, StopRefused, Refused, Release
  <2>3. IntentHolds' /\ StopHolds' /\ RunHolds'
    BY <1>17 DEF Places, Holders, ProcessHolds, IntentHolds, StopHolds,
      RunHolds, StopRefused, Refused, Release
  <2> QED BY <1>0, <2>1, <2>2, <2>3
<1>18. ASSUME NEW c \in Commands, StopRuntime(c) PROVE IInv'
  <2>1. Places' /\ Holders' /\ ProcessHolds'
    BY <1>18 DEF Places, Holders, ProcessHolds, StopRuntime, Release,
      RestoreProxy
  <2>2. CleanHolds' /\ CleanupHolds' /\ TunHolds'
    BY <1>18, RestoreClears DEF Places, Holders, ProcessHolds, CleanHolds,
      CleanupHolds, TunHolds, StopRuntime, Release
  <2>3. IntentHolds' /\ StopHolds' /\ RunHolds'
    BY <1>18, RestoreClears DEF Places, Holders, ProcessHolds, IntentHolds,
      StopHolds, RunHolds, StopRuntime, Release
  <2> QED BY <1>0, <2>1, <2>2, <2>3
<1>19. ASSUME NEW c \in Commands, SwitchReady(c) PROVE IInv'
  <2>1. Places' /\ Holders' /\ ProcessHolds'
    BY <1>19 DEF Places, Holders, ProcessHolds, SwitchReady
  <2>2. CleanHolds' /\ CleanupHolds' /\ TunHolds'
    BY <1>19 DEF Places, Holders, ProcessHolds, CleanHolds, CleanupHolds,
      TunHolds, SwitchReady
  <2>3. IntentHolds' /\ StopHolds' /\ RunHolds'
    BY <1>19 DEF Places, Holders, ProcessHolds, IntentHolds, StopHolds,
      RunHolds, SwitchReady
  <2> QED BY <1>0, <2>1, <2>2, <2>3
<1>20. ASSUME NEW c \in Commands, Switch(c) PROVE IInv'
  <2>1. Places' /\ Holders' /\ ProcessHolds'
    BY <1>20 DEF Places, Holders, ProcessHolds, Switch, Open, Release
  <2>2. CleanHolds' /\ CleanupHolds' /\ TunHolds'
    BY <1>20 DEF Places, Holders, ProcessHolds, CleanHolds, CleanupHolds,
      TunHolds, Switch, Open, Release
  <2>3. IntentHolds' /\ StopHolds' /\ RunHolds'
    BY <1>20 DEF Places, Holders, ProcessHolds, IntentHolds, StopHolds,
      RunHolds, Switch, Open, Release
  <2> QED BY <1>0, <2>1, <2>2, <2>3
<1>21. ASSUME NEW c \in Commands, SwitchFails(c) PROVE IInv'
  <2>1. Places' /\ Holders' /\ ProcessHolds'
    BY <1>21 DEF Places, Holders, ProcessHolds, SwitchFails, Open, Refused,
      Release
  <2>2. CleanHolds' /\ CleanupHolds' /\ TunHolds'
    BY <1>21 DEF Places, Holders, ProcessHolds, CleanHolds, CleanupHolds,
      TunHolds, SwitchFails, Open, Refused, Release
  <2>3. IntentHolds' /\ StopHolds' /\ RunHolds'
    BY <1>21 DEF Places, Holders, ProcessHolds, IntentHolds, StopHolds,
      RunHolds, SwitchFails, Open, Refused, Release
  <2> QED BY <1>0, <2>1, <2>2, <2>3
<1>22. ASSUME NEW c \in Commands, SetMode(c) PROVE IInv'
  <2>1. Places' /\ Holders' /\ ProcessHolds'
    BY <1>22 DEF Places, Holders, ProcessHolds, SetMode, Release,
      RestoreProxy
  <2>2. CleanHolds' /\ CleanupHolds' /\ TunHolds'
    BY <1>22, RestoreClears DEF Places, Holders, ProcessHolds, CleanHolds,
      CleanupHolds, TunHolds, SetMode, Release
  <2>3. IntentHolds' /\ StopHolds' /\ RunHolds'
    BY <1>22, RestoreClears DEF Places, Holders, ProcessHolds, IntentHolds,
      StopHolds, RunHolds, SetMode, Release
  <2> QED BY <1>0, <2>1, <2>2, <2>3
<1>23. ASSUME NEW c \in Commands, ModeFails(c) PROVE IInv'
  <2>1. Places' /\ Holders' /\ ProcessHolds'
    BY <1>23 DEF Places, Holders, ProcessHolds, ModeFails, Release,
      RestoreProxy
  <2>2. CleanHolds' /\ CleanupHolds' /\ TunHolds'
    BY <1>23, RestoreClears DEF Places, Holders, ProcessHolds, CleanHolds,
      CleanupHolds, TunHolds, ModeFails, Release
  <2>3. IntentHolds' /\ StopHolds' /\ RunHolds'
    BY <1>23, RestoreClears DEF Places, Holders, ProcessHolds, IntentHolds,
      StopHolds, RunHolds, ModeFails, Release
  <2> QED BY <1>0, <2>1, <2>2, <2>3
<1>24. CASE DelayElapsed
  <2>1. Places' /\ Holders' /\ ProcessHolds'
    BY <1>24 DEF Places, Holders, ProcessHolds, DelayElapsed, Publish
  <2>2. CleanHolds' /\ CleanupHolds' /\ TunHolds'
    BY <1>24 DEF Places, Holders, ProcessHolds, CleanHolds, CleanupHolds,
      TunHolds, DelayElapsed, Publish
  <2>3. IntentHolds' /\ StopHolds' /\ RunHolds'
    BY <1>24 DEF Places, Holders, ProcessHolds, IntentHolds, StopHolds,
      RunHolds, DelayElapsed, Publish
  <2> QED BY <1>0, <2>1, <2>2, <2>3
<1>25. CASE CancelledEarly
  <2>1. Places' /\ Holders' /\ ProcessHolds'
    BY <1>25 DEF Places, Holders, ProcessHolds, CancelledEarly
  <2>2. CleanHolds' /\ CleanupHolds' /\ TunHolds'
    BY <1>25 DEF Places, Holders, ProcessHolds, CleanHolds, CleanupHolds,
      TunHolds, CancelledEarly
  <2>3. IntentHolds' /\ StopHolds' /\ RunHolds'
    BY <1>25 DEF Places, Holders, ProcessHolds, IntentHolds, StopHolds,
      RunHolds, CancelledEarly
  <2> QED BY <1>0, <2>1, <2>2, <2>3
<1>26. CASE HelperReady
  <2>1. Places' /\ Holders' /\ ProcessHolds'
    BY <1>26 DEF Places, Holders, ProcessHolds, HelperReady
  <2>2. CleanHolds' /\ CleanupHolds' /\ TunHolds'
    BY <1>26 DEF Places, Holders, ProcessHolds, CleanHolds, CleanupHolds,
      TunHolds, HelperReady
  <2>3. IntentHolds' /\ StopHolds' /\ RunHolds'
    BY <1>26 DEF Places, Holders, ProcessHolds, IntentHolds, StopHolds,
      RunHolds, HelperReady
  <2> QED BY <1>0, <2>1, <2>2, <2>3
<1>27. CASE RestorePauses
  <2>1. Places' /\ Holders' /\ ProcessHolds'
    BY <1>27 DEF Places, Holders, ProcessHolds, RestorePauses, Publish
  <2>2. CleanHolds' /\ CleanupHolds' /\ TunHolds'
    BY <1>27 DEF Places, Holders, ProcessHolds, CleanHolds, CleanupHolds,
      TunHolds, RestorePauses, Publish
  <2>3. IntentHolds' /\ StopHolds' /\ RunHolds'
    BY <1>27 DEF Places, Holders, ProcessHolds, IntentHolds, StopHolds,
      RunHolds, RestorePauses, Publish
  <2> QED BY <1>0, <2>1, <2>2, <2>3
<1>28. CASE Preflight
  <2>1. Places' /\ Holders' /\ ProcessHolds'
    BY <1>28 DEF Places, Holders, ProcessHolds, Preflight
  <2>2. CleanHolds' /\ CleanupHolds' /\ TunHolds'
    BY <1>28 DEF Places, Holders, ProcessHolds, CleanHolds, CleanupHolds,
      TunHolds, Preflight
  <2>3. IntentHolds' /\ StopHolds' /\ RunHolds'
    BY <1>28 DEF Places, Holders, ProcessHolds, IntentHolds, StopHolds,
      RunHolds, Preflight
  <2> QED BY <1>0, <2>1, <2>2, <2>3
<1>29. CASE CheckCurrent
  <2>1. Places' /\ Holders' /\ ProcessHolds'
    BY <1>29 DEF Places, Holders, ProcessHolds, CheckCurrent, Publish
  <2>2. CleanHolds' /\ CleanupHolds' /\ TunHolds'
    BY <1>29 DEF Places, Holders, ProcessHolds, CleanHolds, CleanupHolds,
      TunHolds, CheckCurrent, Publish
  <2>3. IntentHolds' /\ StopHolds' /\ RunHolds'
    BY <1>29 DEF Places, Holders, ProcessHolds, IntentHolds, StopHolds,
      RunHolds, CheckCurrent, Publish
  <2> QED BY <1>0, <2>1, <2>2, <2>3
<1>30. CASE CancelledLate
  <2>1. Places' /\ Holders' /\ ProcessHolds'
    BY <1>30 DEF Places, Holders, ProcessHolds, CancelledLate
  <2>2. CleanHolds' /\ CleanupHolds' /\ TunHolds'
    BY <1>30 DEF Places, Holders, ProcessHolds, CleanHolds, CleanupHolds,
      TunHolds, CancelledLate
  <2>3. IntentHolds' /\ StopHolds' /\ RunHolds'
    BY <1>30 DEF Places, Holders, ProcessHolds, IntentHolds, StopHolds,
      RunHolds, CancelledLate
  <2> QED BY <1>0, <2>1, <2>2, <2>3
<1>31. CASE SettleRestore
  <2>1. Places' /\ Holders' /\ ProcessHolds'
    BY <1>31 DEF Places, Holders, ProcessHolds, SettleRestore, Release
  <2>2. CleanHolds' /\ CleanupHolds' /\ TunHolds'
    BY <1>31 DEF Places, Holders, ProcessHolds, CleanHolds, CleanupHolds,
      TunHolds, SettleRestore, Release
  <2>3. IntentHolds' /\ StopHolds' /\ RunHolds'
    BY <1>31 DEF Places, Holders, ProcessHolds, IntentHolds, StopHolds,
      RunHolds, SettleRestore, Release
  <2> QED BY <1>0, <2>1, <2>2, <2>3
<1>32. CASE Undo
  <2>1. Places' /\ Holders' /\ ProcessHolds'
    BY <1>32 DEF Places, Holders, ProcessHolds, Undo, Release, RestoreProxy
  <2>2. CleanHolds' /\ CleanupHolds' /\ TunHolds'
    BY <1>32, RestoreClears DEF Places, Holders, ProcessHolds, CleanHolds,
      CleanupHolds, TunHolds, Undo, Release
  <2>3. IntentHolds' /\ StopHolds' /\ RunHolds'
    BY <1>32, RestoreClears DEF Places, Holders, ProcessHolds, IntentHolds,
      StopHolds, RunHolds, Undo, Release
  <2> QED BY <1>0, <2>1, <2>2, <2>3
<1>33. CASE Launch
  <2>1. Places' /\ Holders' /\ ProcessHolds'
    BY <1>33 DEF Places, Holders, ProcessHolds, Launch, RestoreProxy
  <2>2. CleanHolds' /\ CleanupHolds' /\ TunHolds'
    BY <1>33, RestoreClears DEF Places, Holders, ProcessHolds, CleanHolds,
      CleanupHolds, TunHolds, Launch
  <2>3. IntentHolds' /\ StopHolds' /\ RunHolds'
    BY <1>33, RestoreClears DEF Places, Holders, ProcessHolds, IntentHolds,
      StopHolds, RunHolds, Launch
  <2> QED BY <1>0, <2>1, <2>2, <2>3
<1>34. CASE HoldGate
  <2>1. Places' /\ Holders' /\ ProcessHolds'
    BY <1>34 DEF Places, Holders, ProcessHolds, HoldGate
  <2>2. CleanHolds' /\ CleanupHolds' /\ TunHolds'
    BY <1>34 DEF Places, Holders, ProcessHolds, CleanHolds, CleanupHolds,
      TunHolds, HoldGate
  <2>3. IntentHolds' /\ StopHolds' /\ RunHolds'
    BY <1>34 DEF Places, Holders, ProcessHolds, IntentHolds, StopHolds,
      RunHolds, HoldGate
  <2> QED BY <1>0, <2>1, <2>2, <2>3
<1>35. CASE ReleaseGate
  <2>1. Places' /\ Holders' /\ ProcessHolds'
    BY <1>35 DEF Places, Holders, ProcessHolds, ReleaseGate
  <2>2. CleanHolds' /\ CleanupHolds' /\ TunHolds'
    BY <1>35 DEF Places, Holders, ProcessHolds, CleanHolds, CleanupHolds,
      TunHolds, ReleaseGate
  <2>3. IntentHolds' /\ StopHolds' /\ RunHolds'
    BY <1>35 DEF Places, Holders, ProcessHolds, IntentHolds, StopHolds,
      RunHolds, ReleaseGate
  <2> QED BY <1>0, <2>1, <2>2, <2>3
<1>36. CASE BeginShutdown
  <2>1. Places' /\ Holders' /\ ProcessHolds'
    BY <1>36 DEF Places, Holders, ProcessHolds, BeginShutdown, CancelResume
  <2>2. CleanHolds' /\ CleanupHolds' /\ TunHolds'
    BY <1>36 DEF Places, Holders, ProcessHolds, CleanHolds, CleanupHolds,
      TunHolds, BeginShutdown, CancelResume
  <2>3. IntentHolds' /\ StopHolds' /\ RunHolds'
    BY <1>36 DEF Places, Holders, ProcessHolds, IntentHolds, StopHolds,
      RunHolds, BeginShutdown, CancelResume
  <2> QED BY <1>0, <2>1, <2>2, <2>3
<1>37. CASE Cleanup
  <2>1. Places' /\ Holders' /\ ProcessHolds'
    BY <1>37 DEF Places, Holders, ProcessHolds, Cleanup, RestoreProxy
  <2>2. CleanHolds' /\ CleanupHolds' /\ TunHolds'
    BY <1>37, RestoreClears DEF Places, Holders, ProcessHolds, CleanHolds,
      CleanupHolds, TunHolds, Cleanup
  <2>3. IntentHolds' /\ StopHolds' /\ RunHolds'
    BY <1>37, RestoreClears DEF Places, Holders, ProcessHolds, IntentHolds,
      StopHolds, RunHolds, Cleanup
  <2> QED BY <1>0, <2>1, <2>2, <2>3
<1>38. CASE ProcessEnds
  <2>1. Places' /\ Holders' /\ ProcessHolds'
    BY <1>38 DEF Places, Holders, ProcessHolds, ProcessEnds, LoseMemory
  <2>2. CleanHolds' /\ CleanupHolds' /\ TunHolds'
    BY <1>38 DEF Places, Holders, ProcessHolds, CleanHolds, CleanupHolds,
      TunHolds, ProcessEnds, LoseMemory
  <2>3. IntentHolds' /\ StopHolds' /\ RunHolds'
    BY <1>38 DEF Places, Holders, ProcessHolds, IntentHolds, StopHolds,
      RunHolds, ProcessEnds, LoseMemory
  <2> QED BY <1>0, <2>1, <2>2, <2>3
<1>39. CASE CoreDies
  <2>1. Places' /\ Holders' /\ ProcessHolds'
    BY <1>39 DEF Places, Holders, ProcessHolds, CoreDies
  <2>2. CleanHolds' /\ CleanupHolds' /\ TunHolds'
    BY <1>39 DEF Places, Holders, ProcessHolds, CleanHolds, CleanupHolds,
      TunHolds, CoreDies
  <2>3. IntentHolds' /\ StopHolds' /\ RunHolds'
    BY <1>39 DEF Places, Holders, ProcessHolds, IntentHolds, StopHolds,
      RunHolds, CoreDies
  <2> QED BY <1>0, <2>1, <2>2, <2>3
<1>40. CASE UNCHANGED vars
  BY <1>40 DEF vars, Places, Holders, ProcessHolds, CleanHolds, CleanupHolds,
    TunHolds, IntentHolds, StopHolds, RunHolds
<1> QED
  BY <1>1, <1>2, <1>3, <1>4, <1>5, <1>6, <1>7, <1>8, <1>9, <1>10, <1>11,
    <1>12, <1>13, <1>14, <1>15, <1>16, <1>17, <1>18, <1>19, <1>20, <1>21,
    <1>22, <1>23, <1>24, <1>25, <1>26, <1>27, <1>28, <1>29, <1>30, <1>31,
    <1>32, <1>33, <1>34, <1>35, <1>36, <1>37, <1>38, <1>39, <1>40 DEF Next,
    StartStep, CommandStep, RestoreStep
(* The first states satisfy the invariant: nothing was started yet.        *)
LEMMA InitIInv == Init => IInv
<1> SUFFICES ASSUME Init PROVE IInv
  OBVIOUS
<1> USE ActorsAssumption DEF Init, AllIdle, Starters
<1>1. TypeOK
  BY InitTypeOK
<1>2. Places /\ Holders /\ ProcessHolds
  BY DEF Places, Holders, ProcessHolds, Working
<1>3. CleanHolds /\ CleanupHolds /\ TunHolds
  BY DEF CleanHolds, CleanupHolds, TunHolds
<1>4. IntentHolds /\ StopHolds /\ RunHolds
  BY DEF IntentHolds, StopHolds, RunHolds, Working, Started
<1> QED BY <1>1, <1>2, <1>3, <1>4 DEF IInv

-----------------------------------------------------------------------------
(* The invariant holds in every behaviour.                                 *)
THEOREM Inductive == Spec => []IInv
BY InitIInv, StepIInv, PTL DEF Spec

(* Every variable of the session keeps its type.                           *)
THEOREM TypeCorrect == Spec => []TypeOK
BY Inductive, PTL DEF IInv

(* However commands, restores, exits and crashes interleave, a clean mark  *)
(* on disk means that nothing of ours is left in the system.               *)
THEOREM CleanIsReleased == Spec => []CleanMeansReleased
<1>1. IInv => CleanMeansReleased
  BY DEF IInv, CleanHolds, CleanMeansReleased
<1> QED BY <1>1, Inductive, PTL

(* A Stop that returned Ok is not undone by anything but a Start.          *)
THEOREM StopStays == Spec => []StopIsFinal
<1>1. IInv => StopIsFinal
  BY DEF IInv, StopHolds, StopIsFinal
<1> QED BY <1>1, Inductive, PTL

(* A core that nobody works on has its intent on disk.                     *)
THEOREM RunsAreIntended == Spec => []RunningIsIntended
<1>1. IInv => RunningIsIntended
  <2> SUFFICES ASSUME IInv, up, permit = NoOne, ~ShuttingDown, core # NoOne
               PROVE  desired
    BY DEF RunningIsIntended
  <2>1. \A c \in Commands : pc[c] \notin Working
    BY ActorsAssumption DEF IInv, Holders, Starters
  <2>2. \A c \in Commands : pc[c] \notin Started \union {"halt"}
    BY <2>1 DEF Working, Started
  <2> QED BY <2>2 DEF IInv, RunHolds
<1> QED BY <1>1, Inductive, PTL

(* No start gets past the exit cleanup.                                    *)
THEOREM CleanupIsLast == Spec => []NothingAfterCleanup
<1>1. IInv => NothingAfterCleanup
  BY DEF IInv, CleanupHolds, NothingAfterCleanup
<1> QED BY <1>1, Inductive, PTL

(* No interleaving of starts and mode changes leaves a proxy beside TUN.   *)
THEOREM TunIsAlone == Spec => []TunHasNoProxy
<1>1. IInv => TunHasNoProxy
  BY DEF IInv, TunHolds, TunHasNoProxy
<1> QED BY <1>1, Inductive, PTL

(* The restore creates a process only under its permit, for a stored       *)
(* intent: no Stop can have come between.                                  *)
THEOREM RestoresAreWanted == Spec => RestoreHonoursIntent
<1> DEFINE Wanted == core' = Restorer /\ core # Restorer =>
                       desired /\ permit = Restorer
<1>1. IInv /\ [Next]_vars => [Wanted]_vars
  <2> SUFFICES ASSUME IInv, Next, core' = Restorer, core # Restorer
               PROVE  desired /\ permit = Restorer
    BY DEF vars
  <2>1. Spawn(Restorer)
    BY ActorsAssumption
    DEF Next, CommandStep, RestoreStep, StartStep, Starters, process, resume,
      actors, disk, Begin, Acquire, AcquireFails, AcquireTimesOut, MarkUnclean,
      StartRefused, Spawn, SpawnFails, FinishReady, FinishFails, ApplyProxy,
      ApplyFails, SettleStart, RecordIntent, IntentRefused, StopIntent,
      StopRefused, StopRuntime, SwitchReady, Switch, SwitchFails, SetMode,
      ModeFails, DelayElapsed, CancelledEarly, HelperReady, RestorePauses,
      Preflight, CheckCurrent, CancelledLate, SettleRestore, Undo, Launch,
      HoldGate, ReleaseGate, BeginShutdown, Cleanup, ProcessEnds, LoseMemory,
      CoreDies
  <2>2. pc[Restorer] \in Working
    BY <2>1 DEF Spawn, Working
  <2> QED BY <2>2 DEF IInv, IntentHolds, Holders, Starters
<1> QED BY <1>1, Inductive, PTL DEF Spec, RestoreHonoursIntent
=============================================================================
