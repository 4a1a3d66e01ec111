---------------------------- MODULE TunLeaseProofs ----------------------------
(***************************************************************************)
(* For any number of runs: neither a late worker nor a late request of an  *)
(* earlier run says or does anything to a later one.                       *)
(***************************************************************************)
EXTENDS TunLease, TLAPS

(* The generation is counted up at most three times in a run: by Fence, by *)
(* BeginHeartbeat and by the Stop that ends it.                            *)
Counted ==
  /\ gen <= 3 * started
  /\ main = "idle" /\ (phase # "Stopped" \/ lease # NoRun) => gen <= 3 * started - 1
  /\ main = "stop" => lease = NoRun
  /\ main = "begin" => gen <= 3 * started - 2
  /\ main \in {"start", "fence"} => gen <= 3 * started - 3

(* Leases are fresh: that of a start has no worker yet, and nobody has a   *)
(* later one.                                                              *)
Fresh ==
  /\ lease <= started
  /\ main = "start" => lease < started
  /\ main \in {"start", "fence", "begin"} =>
       run = started /\ run \in Runs /\ beat[run] = "none"
  /\ main \in {"fence", "begin"} => lease = run
  /\ \A r \in Runs : beat[r] # "none" => r <= started /\ own[r] <= gen

(* A worker of the present generation is that of the lease; there is none  *)
(* between an invalidation and the next worker.                            *)
Fenced ==
  /\ main \in {"idle", "start"} =>
       /\ error \in {NoRun, lease}
       /\ \A r \in Runs : beat[r] # "none" /\ own[r] = gen => r = lease
  /\ main \in {"begin", "unlease", "stop"} =>
       /\ error = NoRun
       /\ \A r \in Runs : beat[r] # "none" => own[r] < gen

(* A worker ends with its third failure.                                   *)
Failing ==
  /\ \A r \in Runs : r > started => fails[r] = 0
  /\ main \in {"start", "fence", "begin"} => fails[run] = 0
  /\ \A r \in Runs : beat[r] \in {"sleep", "call"} => fails[r] <= 2

Requested(r) == \E m \in net : m.op = "stop" /\ m.run = r

(* A run that somebody stops is over, or its failure is published, or its  *)
(* lease is just being given up.                                           *)
StopsAreMeant ==
  \A r \in Runs : beat[r] = "send" \/ Requested(r) =>
    /\ r <= started
    /\ main \in {"start", "fence", "begin"} => r # run
    /\ lease = r => error = r \/ main = "unlease"

IInv ==
  /\ TypeOK
  /\ Counted
  /\ Fresh
  /\ Fenced
  /\ Failing
  /\ StopsAreMeant

---------------------------------------------------------------------------
LEMMA InitTypes == Init => TypeOK
BY MaxRunsAssumption
   DEF Init, TypeOK, ClientType, HeartbeatType, NetType, HelperType, Runs, NoRun,
       Main, Senders, Requests, Generations

LEMMA InitIInv == Init => IInv
BY MaxRunsAssumption, InitTypes
   DEF Init, IInv, Counted, Fresh, Fenced, Failing, StopsAreMeant, Requested, Runs,
       NoRun

(* What a step leaves alone keeps its type.                                *)
LEMMA Unchanged ==
  /\ ClientType /\ UNCHANGED client => ClientType'
  /\ HeartbeatType /\ UNCHANGED <<gen, error, worker>> => HeartbeatType'
  /\ NetType /\ UNCHANGED <<net, reply>> => NetType'
  /\ HelperType /\ UNCHANGED helper => HelperType'
<1>1. ClientType /\ UNCHANGED client => ClientType'
  BY DEF ClientType, client
<1>2. HeartbeatType /\ UNCHANGED <<gen, error, worker>> => HeartbeatType'
  BY DEF HeartbeatType, worker
<1>3. NetType /\ UNCHANGED <<net, reply>> => NetType'
  BY DEF NetType
<1>4. HelperType /\ UNCHANGED helper => HelperType'
  BY DEF HelperType, helper
<1> QED BY <1>1, <1>2, <1>3, <1>4

(* A request is sent to and answered within the types.                     *)
LEMMA SendTypes ==
  ASSUME NetType, NEW op \in {"start", "stop", "beat"}, NEW r \in Runs,
         NEW s \in Senders, Send(op, r, s)
  PROVE  NetType'
<1>1. Request(op, r, s) \in Requests
  BY DEF Request, Requests
<1> QED BY <1>1 DEF Send, NetType

LEMMA AnswerTypes ==
  ASSUME NetType, NEW m, NEW what \in {"ok", "error"}, Answer(m, what),
         net' \in SUBSET net
  PROVE  NetType'
BY DEF Answer, NetType

(* The generation stays below its bound in every state of the invariant.   *)
LEMMA Numbers ==
  ASSUME TypeOK
  PROVE  /\ MaxRuns \in Nat /\ started \in Nat /\ started <= MaxRuns
         /\ gen \in Nat /\ lease \in Nat /\ run \in Nat
         /\ \A r \in Runs : r \in Nat /\ r # NoRun /\ own[r] \in Nat
<1>1. MaxRuns \in Nat /\ 3 * MaxRuns \in Nat
  BY MaxRunsAssumption
<1>2. started \in 0..MaxRuns /\ gen \in 0..(3 * MaxRuns)
  BY DEF TypeOK, ClientType, HeartbeatType, Generations
<1>3. lease \in (1..MaxRuns) \union {0} /\ run \in (1..MaxRuns) \union {0}
  BY DEF TypeOK, ClientType, Runs, NoRun
<1>4. ASSUME NEW r \in Runs PROVE r \in 1..MaxRuns /\ own[r] \in 0..(3 * MaxRuns)
  BY DEF TypeOK, HeartbeatType, Runs, Generations
<1>5. \A r \in Runs : r \in Nat /\ r # NoRun /\ own[r] \in Nat
  BY <1>1, <1>4 DEF NoRun
<1> QED BY <1>1, <1>2, <1>3, <1>5

LEMMA InvalidateType ==
  ASSUME TypeOK, gen <= 3 * started - 1, Invalidate
  PROVE  gen' \in Generations /\ error' \in Runs \union {NoRun}
<1>1. gen' \in 0..(3 * MaxRuns)
  BY Numbers DEF Invalidate
<1> QED BY <1>1 DEF Invalidate, Generations, NoRun

(* Every step keeps the types, if the generation is counted.               *)
LEMMA TypeStep == TypeOK /\ Counted /\ Fresh /\ Failing /\ [Next]_vars => TypeOK'
<1> SUFFICES ASSUME TypeOK, Counted, Fresh, Failing, [Next]_vars PROVE TypeOK'
  OBVIOUS
<1>0. ClientType /\ HeartbeatType /\ NetType /\ HelperType
  BY DEF TypeOK
<1> SUFFICES ClientType' /\ HeartbeatType' /\ NetType' /\ HelperType'
  BY DEF TypeOK
<1>1. CASE Start
  <2>1. started' \in 0..MaxRuns /\ run' \in Runs
    BY <1>1, Numbers DEF Start, Runs
  <2>2. NetType'
    BY <1>0, <1>1, <2>1, SendTypes DEF Start, Senders
  <2>3. ClientType'
    BY <1>0, <1>1, <2>1 DEF Start, ClientType
  <2> QED BY <1>0, <1>1, <2>2, <2>3, Unchanged DEF Start
<1>2. CASE StartFails
  <2>1. ClientType'
    BY <1>0, <1>2 DEF StartFails, ClientType
  <2> QED BY <1>0, <1>2, <2>1, Unchanged DEF StartFails
<1>3. CASE Granted
  <2>1. ClientType'
    BY <1>0, <1>3 DEF Granted, ClientType
  <2> QED BY <1>0, <1>3, <2>1, Unchanged DEF Granted
<1>4. CASE Fence
  <2>1. gen <= 3 * started - 1
    BY <1>4, Numbers DEF Fence, Counted
  <2>2. gen' \in Generations /\ error' \in Runs \union {NoRun}
    BY <1>4, <2>1, InvalidateType DEF Fence
  <2>3. ClientType'
    BY <1>0, <1>4 DEF Fence, ClientType
  <2>4. HeartbeatType'
    BY <1>0, <1>4, <2>2 DEF Fence, HeartbeatType, worker
  <2> QED BY <1>0, <1>4, <2>3, <2>4, Unchanged DEF Fence
<1>5. CASE BeginHeartbeat
  <2>1. gen <= 3 * started - 1
    BY <1>5, Numbers DEF BeginHeartbeat, Counted
  <2>2. gen' \in Generations /\ error' \in Runs \union {NoRun}
    BY <1>5, <2>1, InvalidateType DEF BeginHeartbeat
  <2>3. ClientType'
    BY <1>0, <1>5 DEF BeginHeartbeat, ClientType
  <2>4. run \in Runs
    BY <1>5 DEF BeginHeartbeat, Fresh
  <2>5. HeartbeatType'
    BY <1>0, <1>5, <2>2, <2>4 DEF BeginHeartbeat, EndWorker, HeartbeatType
  <2> QED BY <1>0, <1>5, <2>3, <2>5, Unchanged DEF BeginHeartbeat
<1>6. CASE Stop
  <2>1. gen <= 3 * started - 1
    BY <1>6, Numbers DEF Stop, Counted
  <2>2. gen' \in Generations /\ error' \in Runs \union {NoRun}
    BY <1>6, <2>1, InvalidateType DEF Stop
  <2>3. ClientType'
    BY <1>0, <1>6 DEF Stop, ClientType
  <2>4. HeartbeatType'
    BY <1>0, <1>6, <2>2 DEF Stop, HeartbeatType, worker
  <2> QED BY <1>0, <1>6, <2>3, <2>4, Unchanged DEF Stop
<1>7. CASE TakeLease
  <2>1. lease \in Runs \/ lease = NoRun
    BY <1>0 DEF ClientType
  <2>2. NetType'
    BY <1>0, <1>7, <2>1, SendTypes, Unchanged DEF TakeLease, Senders
  <2>3. ClientType'
    BY <1>0, <1>7 DEF TakeLease, ClientType
  <2>4. HeartbeatType'
    BY <1>0, <1>7 DEF TakeLease, EndWorker, HeartbeatType
  <2> QED BY <1>0, <1>7, <2>2, <2>3, <2>4, Unchanged DEF TakeLease
<1>8. CASE StopEnds
  <2>1. ClientType'
    BY <1>0, <1>8 DEF StopEnds, ClientType
  <2> QED BY <1>0, <1>8, <2>1, Unchanged DEF StopEnds
<1>9. CASE Status
  <2>1. ClientType'
    BY <1>0, <1>9 DEF Status, ClientType
  <2> QED BY <1>0, <1>9, <2>1, Unchanged DEF Status
<1>10. ASSUME NEW r \in Runs, WorkerStep(r)
       PROVE ClientType' /\ HeartbeatType' /\ NetType' /\ HelperType'
  <2>0. r \in Senders
    BY DEF Senders
  <2>1. CASE Wake(r)
    <3>1. NetType'
      BY <1>0, <2>0, <2>1, SendTypes, Unchanged DEF Wake
    <3>2. HeartbeatType'
      BY <1>0, <2>1 DEF Wake, Goto, HeartbeatType
    <3> QED BY <1>0, <2>1, <3>1, <3>2, Unchanged DEF Wake
  <2>2. CASE Answered(r)
    <3>1. fails[r] \in 0..2
      BY <1>0, <2>2 DEF Answered, HeartbeatType, Failing
    <3>2. fails[r] + 1 \in 0..3
      BY <3>1
    <3>3. HeartbeatType'
      BY <1>0, <2>2, <3>2 DEF Answered, Goto, HeartbeatType
    <3> QED BY <1>0, <2>2, <3>3, Unchanged DEF Answered
  <2>3. CASE Report(r)
    <3>1. HeartbeatType'
      BY <1>0, <2>3 DEF Report, Goto, HeartbeatType
    <3> QED BY <1>0, <2>3, <3>1, Unchanged DEF Report
  <2>4. CASE SendStop(r)
    <3>1. NetType'
      BY <1>0, <2>0, <2>4, SendTypes DEF SendStop
    <3>2. HeartbeatType'
      BY <1>0, <2>4 DEF SendStop, Goto, HeartbeatType
    <3> QED BY <1>0, <2>4, <3>1, <3>2, Unchanged DEF SendStop
  <2> QED BY <1>10, <2>1, <2>2, <2>3, <2>4 DEF WorkerStep
<1>11. ASSUME NEW r \in Runs, HandleStarted(r)
       PROVE ClientType' /\ HeartbeatType' /\ NetType' /\ HelperType'
  <2>1. NetType'
    BY <1>0, <1>11, AnswerTypes DEF HandleStarted
  <2>2. HelperType'
    BY <1>0, <1>11 DEF HandleStarted, HelperType
  <2> QED BY <1>0, <1>11, <2>1, <2>2, Unchanged DEF HandleStarted
<1>12. ASSUME NEW m \in net, Handle(m)
       PROVE ClientType' /\ HeartbeatType' /\ NetType' /\ HelperType'
  <2>0. m \in Requests /\ m.run \in Runs
    BY <1>0 DEF NetType, Requests
  <2>1. CASE HandleStart(m)
    <3>1. CASE Spawn(m)
      <4>1. NetType'
        BY <1>0, <2>1, <3>1 DEF HandleStart, Spawn, Takes, NetType
      <4>2. HelperType'
        BY <1>0, <2>0, <3>1 DEF Spawn, HelperType
      <4> QED BY <1>0, <2>1, <4>1, <4>2, Unchanged DEF HandleStart
    <3>2. CASE Answer(m, "error") /\ UNCHANGED helper
      <4>1. NetType'
        BY <1>0, <2>1, <3>2, AnswerTypes DEF HandleStart, Takes
      <4> QED BY <1>0, <2>1, <3>2, <4>1, Unchanged DEF HandleStart
    <3> QED BY <2>1, <3>1, <3>2 DEF HandleStart
  <2>2. CASE HandleBeat(m)
    <3>1. NetType'
      BY <1>0, <2>2, AnswerTypes DEF HandleBeat, Takes
    <3>2. HelperType'
      BY <1>0, <2>2 DEF HandleBeat, HelperType
    <3> QED BY <1>0, <2>2, <3>1, <3>2, Unchanged DEF HandleBeat
  <2>3. CASE HandleStop(m)
    <3>1. NetType'
      BY <1>0, <2>3, AnswerTypes DEF HandleStop, Takes
    <3>2. HelperType'
      BY <1>0, <2>3 DEF HandleStop, StopChild, HelperType
    <3> QED BY <1>0, <2>3, <3>1, <3>2, Unchanged DEF HandleStop
  <2> QED BY <1>12, <2>1, <2>2, <2>3 DEF Handle
<1>13. ASSUME NEW m \in net, Lose(m)
       PROVE ClientType' /\ HeartbeatType' /\ NetType' /\ HelperType'
  <2>1. NetType'
    BY <1>0, <1>13 DEF Lose, Takes, NetType
  <2> QED BY <1>0, <1>13, <2>1, Unchanged DEF Lose
<1>14. CASE Elapse
  <2>1. HelperType'
    BY <1>0, <1>14 DEF Elapse, HelperType
  <2> QED BY <1>0, <1>14, <2>1, Unchanged DEF Elapse
<1>15. CASE Watchdog \/ CoreEnds
  <2>1. HelperType'
    BY <1>0, <1>15 DEF Watchdog, CoreEnds, StopChild, HelperType
  <2> QED BY <1>0, <1>15, <2>1, Unchanged DEF Watchdog, CoreEnds
<1>16. CASE HelperDies
  <2>1. HelperType'
    BY <1>0, <1>16 DEF HelperDies, StopChild, HelperType
  <2> QED BY <1>0, <1>16, <2>1, Unchanged DEF HelperDies
<1>17. CASE Crash
  <2>1. ClientType'
    BY <1>0, <1>17 DEF Crash, ClientType
  <2>2. HeartbeatType'
    BY <1>0, <1>17 DEF Crash, HeartbeatType
  <2> QED BY <1>0, <1>17, <2>1, <2>2, Unchanged DEF Crash
<1>18. CASE Launch
  <2>1. ClientType'
    BY <1>0, <1>18 DEF Launch, ClientType
  <2> QED BY <1>0, <1>18, <2>1, Unchanged DEF Launch
<1>19. CASE UNCHANGED vars
  BY <1>0, <1>19, Unchanged DEF vars
<1> QED
  BY <1>1, <1>2, <1>3, <1>4, <1>5, <1>6, <1>7, <1>8, <1>9, <1>10, <1>11, <1>12,
     <1>13, <1>14, <1>15, <1>16, <1>17, <1>18, <1>19
  DEF Next, MainStep

---------------------------------------------------------------------------
(* What a sent request adds to the stops under way.                        *)
LEMMA SendRequests ==
  ASSUME NEW op, NEW r, NEW s, Send(op, r, s), NEW q, Requested(q)'
  PROVE  Requested(q) \/ (op = "stop" /\ q = r)
BY DEF Send, Request, Requested

(* The steps of the helper and the losses on the way to it disturb nothing *)
(* but types.                                                              *)
LEMMA HelperStep ==
  ASSUME IInv, UNCHANGED <<client, gen, error, worker>>, net' \subseteq net
  PROVE  Counted' /\ Fresh' /\ Fenced' /\ Failing' /\ StopsAreMeant'
<1> USE DEF IInv, client, worker
<1>1. Counted' BY DEF Counted
<1>2. Fresh' BY DEF Fresh
<1>3. Fenced' BY DEF Fenced
<1>4. Failing' BY DEF Failing
<1>5. \A r : Requested(r)' => Requested(r) BY DEF Requested
<1>6. StopsAreMeant' BY <1>5 DEF StopsAreMeant
<1> QED BY <1>1, <1>2, <1>3, <1>4, <1>6

LEMMA StepIInv == IInv /\ [Next]_vars => IInv'
<1> SUFFICES ASSUME IInv, [Next]_vars PROVE IInv'
  OBVIOUS
<1>0. TypeOK /\ Counted /\ Fresh /\ Fenced /\ Failing /\ StopsAreMeant
  BY DEF IInv
<1>t. TypeOK'
  BY <1>0, TypeStep
<1>n. /\ started \in Nat /\ gen \in Nat /\ lease \in Nat /\ run \in Nat
      /\ \A r \in Runs : r \in Nat /\ r # NoRun /\ own[r] \in Nat
      /\ beat \in [Runs -> {"none", "sleep", "call", "report", "send"}]
      /\ own \in [Runs -> Generations] /\ fails \in [Runs -> 0..3]
      /\ started' \in Nat
  BY <1>0, <1>t, Numbers, MaxRunsAssumption DEF TypeOK, HeartbeatType, ClientType
<1> SUFFICES Counted' /\ Fresh' /\ Fenced' /\ Failing' /\ StopsAreMeant'
  BY <1>t DEF IInv
<1>1. CASE Start
  <2>0. run' = started + 1 /\ run' \in Runs /\ started' = started + 1
    BY <1>0, <1>n, <1>1, Numbers DEF Start, Runs
  <2>1. Counted'
    BY <1>0, <1>n, <1>1 DEF Start, client, worker, helper, Held, Counted
  <2>2. Fresh'
    BY <1>0, <1>n, <1>1, <2>0 DEF Start, worker, Fresh
  <2>3. Fenced'
    BY <1>0, <1>n, <1>1 DEF Start, client, worker, helper, Held, Fenced
  <2>4. Failing'
    BY <1>0, <1>n, <1>1, <2>0 DEF Start, worker, Failing
  <2>5. \A q : Requested(q)' => Requested(q)
    BY <1>1, SendRequests DEF Start
  <2>6. StopsAreMeant'
    BY <1>0, <1>n, <1>1, <2>5 DEF Start, client, worker, helper, Held, StopsAreMeant, Fresh
  <2> QED BY <2>1, <2>2, <2>3, <2>4, <2>6
<1>2. CASE StartFails
  <2>1. Counted'
    BY <1>0, <1>n, <1>2 DEF StartFails, worker, helper, Counted
  <2>2. Fresh'
    BY <1>0, <1>n, <1>2 DEF StartFails, worker, helper, Fresh
  <2>3. Fenced'
    BY <1>0, <1>n, <1>2 DEF StartFails, worker, helper, Fenced
  <2>4. Failing'
    BY <1>0, <1>n, <1>2 DEF StartFails, worker, helper, Failing
  <2>6. StopsAreMeant'
    BY <1>0, <1>n, <1>2 DEF StartFails, worker, helper, StopsAreMeant, Requested, Fresh
  <2> QED BY <2>1, <2>2, <2>3, <2>4, <2>6
<1>3. CASE Granted
  <2>1. Counted'
    BY <1>0, <1>n, <1>3 DEF Granted, worker, helper, Counted
  <2>2. Fresh'
    BY <1>0, <1>n, <1>3 DEF Granted, worker, helper, Fresh
  <2>3. Fenced'
    BY <1>0, <1>n, <1>3 DEF Granted, worker, helper, Fenced
  <2>4. Failing'
    BY <1>0, <1>n, <1>3 DEF Granted, worker, helper, Failing
  <2>6. StopsAreMeant'
    BY <1>0, <1>n, <1>3 DEF Granted, worker, helper, StopsAreMeant, Requested, Fresh
  <2> QED BY <2>1, <2>2, <2>3, <2>4, <2>6
<1>4. CASE Fence
  <2>1. Counted'
    BY <1>0, <1>n, <1>4 DEF Fence, Invalidate, worker, helper, Counted
  <2>2. Fresh'
    BY <1>0, <1>n, <1>4 DEF Fence, Invalidate, worker, helper, Fresh
  <2>3. Fenced'
    BY <1>0, <1>n, <1>4 DEF Fence, Invalidate, worker, helper, Fenced, Fresh
  <2>4. Failing'
    BY <1>0, <1>n, <1>4 DEF Fence, Invalidate, worker, helper, Failing
  <2>6. StopsAreMeant'
    BY <1>0, <1>n, <1>4 DEF Fence, Invalidate, worker, helper, StopsAreMeant, Requested, Fresh
  <2> QED BY <2>1, <2>2, <2>3, <2>4, <2>6
<1>5. CASE BeginHeartbeat
  <2>1. Counted'
    BY <1>0, <1>n, <1>5 DEF BeginHeartbeat, Invalidate, EndWorker, helper, Counted
  <2>2. Fresh'
    BY <1>0, <1>n, <1>5 DEF BeginHeartbeat, Invalidate, EndWorker, helper, Fresh
  <2>3. Fenced'
    BY <1>0, <1>n, <1>5 DEF BeginHeartbeat, Invalidate, EndWorker, helper, Fenced, Fresh
  <2>4. Failing'
    BY <1>0, <1>n, <1>5 DEF BeginHeartbeat, Invalidate, EndWorker, helper, Failing
  <2>6. StopsAreMeant'
    BY <1>0, <1>n, <1>5 DEF BeginHeartbeat, Invalidate, EndWorker, helper, StopsAreMeant, Requested, Fresh
  <2> QED BY <2>1, <2>2, <2>3, <2>4, <2>6
<1>6. CASE Stop
  <2>1. Counted'
    BY <1>0, <1>n, <1>6 DEF Stop, Invalidate, worker, helper, Counted
  <2>2. Fresh'
    BY <1>0, <1>n, <1>6 DEF Stop, Invalidate, worker, helper, Fresh
  <2>3. Fenced'
    BY <1>0, <1>n, <1>6 DEF Stop, Invalidate, worker, helper, Fenced, Fresh
  <2>4. Failing'
    BY <1>0, <1>n, <1>6 DEF Stop, Invalidate, worker, helper, Failing
  <2>6. StopsAreMeant'
    BY <1>0, <1>n, <1>6 DEF Stop, Invalidate, worker, helper, StopsAreMeant, Requested, Fresh
  <2> QED BY <2>1, <2>2, <2>3, <2>4, <2>6
<1>7. CASE TakeLease
  <2>1. Counted'
    BY <1>0, <1>n, <1>7 DEF TakeLease, EndWorker, helper, Counted
  <2>2. Fresh'
    BY <1>0, <1>n, <1>7 DEF TakeLease, EndWorker, helper, Fresh, NoRun
  <2>3. Fenced'
    BY <1>0, <1>n, <1>7 DEF TakeLease, EndWorker, helper, Fenced
  <2>4. Failing'
    BY <1>0, <1>n, <1>7 DEF TakeLease, EndWorker, helper, Failing
  <2>5. \A q : Requested(q)' => Requested(q) \/ (lease # NoRun /\ q = lease)
    BY <1>7, SendRequests DEF TakeLease, Requested
  <2>6. StopsAreMeant'
    BY <1>0, <1>n, <1>7, <2>5 DEF TakeLease, EndWorker, helper, StopsAreMeant, Fresh
  <2> QED BY <2>1, <2>2, <2>3, <2>4, <2>6
<1>8. CASE StopEnds
  <2>1. Counted'
    BY <1>0, <1>n, <1>8 DEF StopEnds, worker, helper, Counted
  <2>2. Fresh'
    BY <1>0, <1>n, <1>8 DEF StopEnds, worker, helper, Fresh
  <2>3. Fenced'
    BY <1>0, <1>n, <1>8 DEF StopEnds, worker, helper, Fenced
  <2>4. Failing'
    BY <1>0, <1>n, <1>8 DEF StopEnds, worker, helper, Failing
  <2>6. StopsAreMeant'
    BY <1>0, <1>n, <1>8 DEF StopEnds, worker, helper, StopsAreMeant, Requested, Fresh
  <2> QED BY <2>1, <2>2, <2>3, <2>4, <2>6
<1>9. CASE Status
  <2>1. Counted'
    BY <1>0, <1>n, <1>9 DEF Status, worker, helper, Counted
  <2>2. Fresh'
    BY <1>0, <1>n, <1>9 DEF Status, worker, helper, Fresh
  <2>3. Fenced'
    BY <1>0, <1>n, <1>9 DEF Status, worker, helper, Fenced
  <2>4. Failing'
    BY <1>0, <1>n, <1>9 DEF Status, worker, helper, Failing
  <2>6. StopsAreMeant'
    BY <1>0, <1>n, <1>9 DEF Status, worker, helper, StopsAreMeant, Requested, Fresh
  <2> QED BY <2>1, <2>2, <2>3, <2>4, <2>6
<1>10. ASSUME NEW r \in Runs, WorkerStep(r)
       PROVE  Counted' /\ Fresh' /\ Fenced' /\ Failing' /\ StopsAreMeant'
  <2>0. /\ UNCHANGED <<client, gen, slot, own>>
        /\ \E p \in {"none", "sleep", "call", "report", "send"} :
             beat' = [beat EXCEPT ![r] = p]
        /\ beat[r] # "none"
    BY <1>10 DEF WorkerStep, Wake, Answered, Report, SendStop, Goto
  <2>1. Counted'
    BY <1>0, <2>0 DEF Counted, client
  <2>2. Fresh'
    BY <1>0, <1>n, <2>0 DEF Fresh, client
  <2>3. Fenced'
    <3>1. CASE UNCHANGED error
      BY <1>0, <1>n, <2>0, <3>1 DEF Fenced, client
    <3>2. CASE error' = r /\ gen = own[r]
      BY <1>0, <1>n, <2>0, <3>2 DEF Fenced, client
    <3> QED BY <1>10, <3>1, <3>2 DEF WorkerStep, Wake, Answered, Report, SendStop
  <2>4. Failing'
    <3>1. CASE Answered(r)
      <4>1. fails[r] \in 0..2
        BY <1>0, <1>n, <3>1 DEF Answered, Failing
      <4>2. beat[r] = "call" /\ r <= started
        BY <1>0, <3>1 DEF Answered, Fresh
      <4>3. main \in {"start", "fence", "begin"} => r # run
        BY <1>0, <4>2 DEF Fresh
      <4>4. beat'[r] \in {"sleep", "call"} => fails'[r] <= 2
        BY <1>n, <3>1, <4>1 DEF Answered, Goto, LastFailure
      <4>5. \A q \in Runs : q # r => fails'[q] = fails[q] /\ beat'[q] = beat[q]
        BY <1>n, <3>1 DEF Answered, Goto
      <4> QED BY <1>0, <1>n, <2>0, <4>2, <4>3, <4>4, <4>5 DEF Failing, Fresh, client
    <3>2. CASE Wake(r) \/ Report(r) \/ SendStop(r)
      BY <1>0, <1>n, <2>0, <3>2 DEF Failing, client, Wake, Report, SendStop, Goto
    <3> QED BY <1>10, <3>1, <3>2 DEF WorkerStep
  <2>5. StopsAreMeant'
    <3>0. /\ r <= started
          /\ main \in {"start", "fence", "begin"} => r # run
      BY <1>0, <2>0 DEF Fresh
    <3>1. CASE Wake(r)
      <4>1. \A q : Requested(q)' => Requested(q)
        <5>1. CASE flag[r]
          BY <3>1, <5>1 DEF Wake, Requested
        <5>2. CASE ~flag[r]
          BY <3>1, <5>2, SendRequests DEF Wake
        <5> QED BY <5>1, <5>2
      <4> QED BY <1>0, <1>n, <3>1, <4>1 DEF StopsAreMeant, Wake, Goto, client
    <3>2. CASE Answered(r)
      BY <1>0, <1>n, <3>2 DEF StopsAreMeant, Answered, Goto, client, Requested
    <3>3. CASE Report(r)
      <4>1. CASE gen = own[r]
        <5>1. error' = r /\ beat' = [beat EXCEPT ![r] = "send"]
          BY <3>3, <4>1 DEF Report, Goto
        <5>2. \A q : Requested(q)' <=> Requested(q)
          BY <3>3 DEF Report, Requested
        <5>3. main \in {"idle", "start"} => r = lease
          BY <1>0, <2>0, <4>1 DEF Fenced
        <5>4. main \notin {"begin", "unlease", "stop"}
          BY <1>0, <1>n, <2>0, <4>1 DEF Fenced
        <5>5. main = "fence" => lease = run
          BY <1>0 DEF Fresh
        <5>6. main \in {"idle", "start", "fence"}
          BY <1>0, <5>4 DEF TypeOK, ClientType
        <5> QED BY <1>0, <1>n, <2>0, <3>0, <5>1, <5>2, <5>3, <5>5, <5>6
                DEF StopsAreMeant, client
      <4>2. CASE gen # own[r]
        BY <1>0, <1>n, <3>3, <4>2 DEF StopsAreMeant, Report, Goto, client, Requested
      <4> QED BY <4>1, <4>2
    <3>4. CASE SendStop(r)
      <4>1. \A q : Requested(q)' => Requested(q) \/ q = r
        BY <3>4, SendRequests DEF SendStop
      <4> QED BY <1>0, <1>n, <3>4, <4>1 DEF StopsAreMeant, SendStop, Goto, client
    <3> QED BY <1>10, <3>1, <3>2, <3>3, <3>4 DEF WorkerStep
  <2> QED BY <2>1, <2>2, <2>3, <2>4, <2>5
<1>11. ASSUME NEW r \in Runs, HandleStarted(r)
       PROVE  Counted' /\ Fresh' /\ Fenced' /\ Failing' /\ StopsAreMeant'
  BY <1>11, HelperStep DEF HandleStarted
<1>12. ASSUME NEW m \in net, Handle(m) \/ Lose(m)
       PROVE  Counted' /\ Fresh' /\ Fenced' /\ Failing' /\ StopsAreMeant'
  <2>1. net' \subseteq net
    BY <1>12 DEF Handle, HandleStart, HandleBeat, HandleStop, Lose, Takes
  <2> QED BY <1>12, <2>1, HelperStep DEF Handle, HandleStart, HandleBeat, HandleStop, Lose
<1>13. CASE Elapse \/ Watchdog \/ CoreEnds \/ HelperDies
  BY <1>13, HelperStep DEF Elapse, Watchdog, CoreEnds, HelperDies
<1>14. CASE Crash
  <2>1. Counted'
    BY <1>0, <1>n, <1>14 DEF Crash, Counted
  <2>2. Fresh'
    BY <1>0, <1>n, <1>14 DEF Crash, Fresh, NoRun
  <2>3. Fenced'
    BY <1>0, <1>n, <1>14 DEF Crash, Fenced
  <2>4. Failing'
    BY <1>0, <1>n, <1>14 DEF Crash, Failing
  <2>6. StopsAreMeant'
    BY <1>0, <1>n, <1>14 DEF Crash, StopsAreMeant, Requested, Fresh
  <2> QED BY <2>1, <2>2, <2>3, <2>4, <2>6
<1>15. CASE Launch
  <2>1. Counted'
    BY <1>0, <1>n, <1>15 DEF Launch, worker, Counted
  <2>2. Fresh'
    BY <1>0, <1>n, <1>15 DEF Launch, worker, Fresh
  <2>3. Fenced'
    BY <1>0, <1>n, <1>15 DEF Launch, worker, Fenced
  <2>4. Failing'
    BY <1>0, <1>n, <1>15 DEF Launch, worker, Failing
  <2>6. StopsAreMeant'
    BY <1>0, <1>n, <1>15 DEF Launch, worker, StopsAreMeant, Requested, Fresh
  <2> QED BY <2>1, <2>2, <2>3, <2>4, <2>6
<1>16. CASE UNCHANGED vars
  BY <1>16, HelperStep DEF vars
<1> QED
  BY <1>1, <1>2, <1>3, <1>4, <1>5, <1>6, <1>7, <1>8, <1>9, <1>10, <1>11, <1>12,
     <1>13, <1>14, <1>15, <1>16
  DEF Next, MainStep

THEOREM InductiveInvariant == Spec => []IInv
BY InitIInv, StepIInv, PTL DEF Spec

(* Every reachable state is well typed; above all, generations stay below  *)
(* their bound.                                                            *)
THEOREM TypeCorrect == Spec => []TypeOK
<1>1. IInv => TypeOK
  BY DEF IInv
<1> QED BY <1>1, InductiveInvariant, PTL

(* The failure that a client shows is never that of an earlier run         *)
(* (HeartbeatState, runtime.rs 500-527).                                   *)
THEOREM FailuresStayCurrent == Spec => []FailuresAreCurrent
<1>1. IInv => FailuresAreCurrent
  BY DEF IInv, Fenced, FailuresAreCurrent
<1> QED BY <1>1, InductiveInvariant, PTL

(* No late stop ends the core of a run that is held and well               *)
(* (runtime_stop_lease, tun_service/mod.rs 176-178).                       *)
THEOREM HeldRunsAreSpared == Spec => HeldRunIsSpared
<1> DEFINE Spared == Held /\ main = "idle" /\ core = lease /\ core' # core
                       => \A m \in net : m.op = "stop" => m \in net'
<1>1. IInv /\ [Next]_vars => Spared
  <2> SUFFICES ASSUME IInv, [Next]_vars, Held, main = "idle", core = lease,
                      core' # core, NEW m \in net, m.op = "stop", m \notin net'
               PROVE  FALSE
    OBVIOUS
  <2>1. m \in Requests
    BY DEF IInv, TypeOK, NetType
  <2>2. Handle(m) \/ Lose(m)
    BY DEF Next, vars, helper, MainStep, Start, Stop, Status, StartFails, Granted,
           Fence, BeginHeartbeat, TakeLease, StopEnds, WorkerStep, Wake, Answered,
           Report, SendStop, HandleStarted, Handle, HandleStart, HandleBeat,
           HandleStop, Lose, Takes, Send, Elapse, Watchdog, CoreEnds, HelperDies,
           Crash, Launch
  <2>3. HandleStop(m)
    BY <2>2 DEF Handle, HandleStart, HandleBeat, Lose, helper
  <2>4. lease = m.run
    BY <2>3 DEF HandleStop, Held
  <2>5. m.run \in Runs /\ Requested(m.run)
    BY <2>1 DEF Requests, Requested
  <2>6. error = m.run
    BY <2>4, <2>5 DEF IInv, StopsAreMeant
  <2> QED BY <2>4, <2>5, <2>6, Numbers DEF Held, IInv
<1>2. IInv /\ [Next]_vars => [Spared]_vars
  BY <1>1
<1> QED BY <1>2, InductiveInvariant, PTL DEF Spec, HeldRunIsSpared
=============================================================================
