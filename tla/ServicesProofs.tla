---------------------------- MODULE ServicesProofs ----------------------------
(***************************************************************************)
(* Eight more of the services that MCServices sums, for any number of      *)
(* nodes, versions, callers, commands, failures and crashes: the run of    *)
(* the core and its probe, the helper's staging, the policy, the stability *)
(* rounds, the fetches, the start of TUN and the programs; and the sum of  *)
(* these with the login entry and the local route, whose sections are      *)
(* those of StoreProofs.                                                   *)
(*                                                                         *)
(* One section per component: its variables under names of their own, the  *)
(* inductive invariant in named parts, its lemmas, and what the sum needs  *)
(* of it (first state, step, stutter).  The last section puts them         *)
(* together.                                                               *)
(***************************************************************************)
EXTENDS StoreProofs

-----------------------------------------------------------------------------
(* CoreRun                                                                 *)

corePhase == v1
coreChild == v2
coreSince == v3
coreError == v4
liveCores == v5
coreStart == v6
coreStops == v7
coreCheck == v8
coreGate == v9
taskCancelled == v10
coreRuns == v11
coreChecked == v12
coreReaped == v13
USE DEF corePhase, coreChild, coreSince, coreError, liveCores, coreStart, coreStops, coreCheck,
        coreGate, taskCancelled, coreRuns, coreChecked, coreReaped

CorePhases ==
  {"uninitialized", "validating", "starting", "running", "stopping", "stopped", "crashed"}
StartSteps == {"idle", "write", "check", "spawn", "child", "time", "error", "phase"}
StopSteps == {"idle", "kill", "time", "phase"}
CheckResults == {"none", "ok", "conflict", "cancelled", "runtime", "config", "resources"}
CoreChecks ==
  [process : {"none", "runs", "passed", "failed"}, over : BOOLEAN, result : CheckResults]

CoreTypes ==
  /\ corePhase \in CorePhases /\ coreError \in {"none", "start", "exited"}
  /\ coreRuns \in 0..MaxRuns /\ coreChild \in 0..coreRuns /\ coreSince \in 0..coreRuns
  /\ liveCores \subseteq 1..coreRuns
  /\ coreStart \in [at : StartSteps, core : 0..MaxRuns]
  /\ coreStops \in [CR!Stoppers -> StopSteps]
  /\ coreCheck \in [CR!Checkers -> CoreChecks]
  /\ coreGate \in {"open", "closed"} /\ taskCancelled \in BOOLEAN /\ coreReaped \in BOOLEAN

NoStop == \A s \in CR!Stoppers : coreStops[s] = "idle"

(* A start works alone, from a state without a child; it spawns what has    *)
(* passed, and a core it has recorded is the child unless it was reaped.    *)
StartInv ==
  /\ coreStart.at = "idle" => coreStart = CR!Idle
  /\ coreStart.at # "idle" => NoStop
  /\ coreStart.at \in {"write", "check", "spawn"} => coreRuns < MaxRuns
  /\ coreStart.at \in {"write", "check", "spawn", "child"} => coreChild = 0
  /\ coreStart.at \in {"child", "time", "error", "phase"} => coreStart.core \in 1..coreRuns
  /\ coreStart.at = "spawn" => coreCheck["start"].process = "none" /\ coreCheck["start"].result = "ok"

(* What the phase says at each step.                                        *)
PhaseInv ==
  /\ CR!PhaseIsTrue
  /\ coreStart.at \in {"write", "check"} => corePhase = "validating"
  /\ coreStart.at \in {"spawn", "child"} => corePhase = "starting"
  /\ ~coreReaped /\ coreStart.at \in {"time", "error", "phase"} => coreChild = coreStart.core
  /\ ~NoStop => corePhase \in {"stopping", "stopped", "crashed"}

CoreInv == CoreTypes /\ StartInv /\ PhaseInv /\ CR!NoCoreIsLost

(* The records of a core, field by field.                                   *)
CoreFields ==
  /\ coreStart.at \in StartSteps /\ coreStart.core \in 0..MaxRuns
  /\ \A c \in CR!Checkers : /\ coreCheck[c] \in CoreChecks
                            /\ coreCheck[c].process \in {"none", "runs", "passed", "failed"}
                            /\ coreCheck[c].result \in CheckResults

(* The typed records of the core, field by field.                           *)
LEMMA CoreFieldsTyped == CoreTypes => CoreFields
BY DEF CoreTypes, CoreFields, CoreChecks

(* A validation that begins, and one that is over.                          *)
LEMMA SpawnedCheck ==
  CR!Spawned \in CoreChecks /\ CR!Spawned.result # "ok"
BY DEF CR!Spawned, CR!NoCheck, CoreChecks, CheckResults

(* A validation is over with "ok" only before it was cancelled.             *)
LEMMA EndedCheck ==
  ASSUME NEW c \in CR!Checkers, NEW ended \in CR!Ended(c)
  PROVE  /\ ended \in CoreChecks /\ ended.process = "none"
         /\ ended.result = "ok" => coreGate = "open" /\ ~(c = "task" /\ taskCancelled)
<1>1. PICK r \in CheckResults :
        /\ ended = [CR!NoCheck EXCEPT !.result = r]
        /\ r = "ok" => coreGate = "open" /\ ~(c = "task" /\ taskCancelled)
  <2> DEFINE Result(r) == [CR!NoCheck EXCEPT !.result = r]
  <2>1. CASE coreGate # "open"
    <3>1. ended \in {Result("conflict")}
      BY <2>1 DEF CR!Ended
    <3> QED BY <3>1, <2>1 DEF CheckResults
  <2>2. CASE coreGate = "open" /\ c = "task" /\ taskCancelled
    <3>1. ended \in {Result("cancelled")}
      BY <2>2 DEF CR!Ended
    <3> QED BY <3>1, <2>2 DEF CheckResults
  <2>3. CASE coreGate = "open" /\ ~(c = "task" /\ taskCancelled)
    <3>1. CASE coreCheck[c].process = "passed"
      <4>1. ended \in {Result("ok")}
        BY <2>3, <3>1 DEF CR!Ended
      <4> QED BY <4>1, <2>3 DEF CheckResults
    <3>2. CASE coreCheck[c].process = "failed"
      <4>1. ended \in UNION {{Result(r)} : r \in CR!Refusal(c)}
        BY <2>3, <3>2 DEF CR!Ended
      <4>2. PICK r \in CR!Refusal(c) : ended = Result(r)
        BY <4>1
      <4> QED BY <4>2, <2>3 DEF CheckResults, CR!Refusal
    <3>3. CASE coreCheck[c].process \notin {"passed", "failed"}
      <4>1. ended \in {Result("runtime")}
        BY <2>3, <3>3 DEF CR!Ended
      <4> QED BY <4>1, <2>3 DEF CheckResults
    <3> QED BY <3>1, <3>2, <3>3
  <2> QED BY <2>1, <2>2, <2>3
<1> QED BY <1>1 DEF CR!NoCheck, CoreChecks

(* A start that fails.                                                      *)
StartGivesUp ==
  /\ coreStart' = CR!Idle
  /\ \/ coreError' = "start" /\ corePhase' = "crashed" /\ coreChild = 0
     \/ coreError' = coreError /\ corePhase' = corePhase
  /\ coreChild = 0 /\ corePhase \in {"validating", "starting"} => corePhase' = "crashed"

(* Every failure of a start is such a one.                                  *)
LEMMA FailedStart == CR!Failed => StartGivesUp
BY DEF CR!Failed, StartGivesUp, CR!NoCore

(* Every step keeps the types.                                              *)
LEMMA CoreTypesStep ==
  ASSUME CoreInv, CR!CoreRunNext
  PROVE  CoreTypes'
<1> USE CoreAssumption DEF CR!Fields, CR!Others, CR!NoCore, CorePhases
<1>0. CoreTypes /\ CoreFields /\ StartInv
  BY CoreFieldsTyped DEF CoreInv
<1>i. CR!Idle \in [at : StartSteps, core : 0..MaxRuns]
  BY DEF CR!Idle, StartSteps
<1>g. StartGivesUp => coreStart' \in [at : StartSteps, core : 0..MaxRuns]
                      /\ corePhase' \in CorePhases /\ coreError' \in {"none", "start", "exited"}
  BY <1>0, <1>i DEF StartGivesUp, CoreTypes
<1>c. \A c \in CR!Checkers, k \in CoreChecks :
        [coreCheck EXCEPT ![c] = k] \in [CR!Checkers -> CoreChecks]
  BY <1>0 DEF CoreTypes
<1>s. "start" \in CR!Checkers /\ "task" \in CR!Checkers
  BY DEF CR!Checkers
<1>1. CASE CR!StartBegins
  <2>1. coreStart' \in [at : StartSteps, core : 0..MaxRuns]
    BY <1>1, <1>i DEF CR!StartBegins, StartSteps
  <2>2. corePhase' \in CorePhases
    BY <1>0, <1>1 DEF CR!StartBegins, CoreTypes
  <2> QED BY <1>0, <1>1, <2>1, <2>2 DEF CR!StartBegins, CoreTypes
<1>2. CASE CR!StartChecks
  <2>1. CASE CR!Failed /\ UNCHANGED coreCheck
    BY <1>0, <1>2, <1>g, <2>1, FailedStart DEF CR!StartChecks, CoreTypes
  <2>2. CASE ~(CR!Failed /\ UNCHANGED coreCheck)
    <3>1. coreStart' = [coreStart EXCEPT !.at = "check"]
          /\ coreCheck' = [coreCheck EXCEPT !["start"] = CR!Spawned]
      BY <1>2, <2>2 DEF CR!StartChecks
    <3>2. coreStart' \in [at : StartSteps, core : 0..MaxRuns]
      BY <1>0, <3>1 DEF CoreTypes, StartSteps
    <3>3. coreCheck' \in [CR!Checkers -> CoreChecks]
      BY <1>c, <1>s, <3>1, SpawnedCheck
    <3> QED BY <1>0, <1>2, <2>2, <3>2, <3>3 DEF CR!StartChecks, CoreTypes
  <2> QED BY <2>1, <2>2
<1>3. CASE CR!StartChecked
  <2>1. CASE CR!Failed
    BY <1>0, <1>3, <1>g, <2>1, FailedStart DEF CR!StartChecked, CoreTypes
  <2>2. CASE ~CR!Failed
    <3>1. coreStart' = [coreStart EXCEPT !.at = "spawn"] /\ corePhase' = "starting"
      BY <1>3, <2>2 DEF CR!StartChecked
    <3>2. coreStart' \in [at : StartSteps, core : 0..MaxRuns]
      BY <1>0, <3>1 DEF CoreTypes, StartSteps
    <3> QED BY <1>0, <1>3, <2>2, <3>1, <3>2 DEF CR!StartChecked, CoreTypes
  <2> QED BY <2>1, <2>2
<1>4. CASE CR!Spawn
  <2>1. CASE coreGate # "open"
    BY <1>0, <1>4, <1>g, <2>1, FailedStart DEF CR!Spawn, CoreTypes
  <2>2. CASE coreGate = "open"
    <3>1. coreRuns' = coreRuns + 1 /\ coreRuns' \in 0..MaxRuns /\ coreRuns' \in 1..MaxRuns
      BY <1>0, <1>4, <2>2 DEF CR!Spawn, CoreTypes, StartInv
    <3>2. coreStart' = [at |-> "child", core |-> coreRuns']
      BY <1>4, <2>2 DEF CR!Spawn
    <3>3. coreStart' \in [at : StartSteps, core : 0..MaxRuns]
      BY <3>1, <3>2 DEF StartSteps
    <3>4. liveCores' = liveCores \union {coreRuns'}
      BY <1>4, <2>2 DEF CR!Spawn
    <3>5. liveCores' \subseteq 1..coreRuns'
      BY <1>0, <3>1, <3>4 DEF CoreTypes
    <3> QED BY <1>0, <1>4, <2>2, <3>1, <3>3, <3>5 DEF CR!Spawn, CoreTypes
  <2> QED BY <2>1, <2>2
<1>5. CASE CR!Record
  <2>1. coreStart' \in [at : StartSteps, core : 0..MaxRuns]
    <3>1. \A a \in StartSteps : [coreStart EXCEPT !.at = a] \in [at : StartSteps, core : 0..MaxRuns]
      BY <1>0 DEF CoreTypes
    <3> QED BY <1>i, <1>5, <3>1 DEF CR!Record, StartSteps
  <2>2. coreStart.core \in 1..coreRuns
    BY <1>0, <1>5 DEF CR!Record, StartInv
  <2> QED BY <1>0, <1>5, <2>1, <2>2 DEF CR!Record, CoreTypes
<1>6. CASE CR!TaskChecks
  BY <1>0, <1>6, <1>c, <1>s, SpawnedCheck DEF CR!TaskChecks, CoreTypes
<1>7. ASSUME NEW c \in CR!Checkers, CR!Round(c) PROVE CoreTypes'
  <2>1. PICK ended \in CR!Ended(c) : coreCheck' = [coreCheck EXCEPT ![c] = ended]
    BY <1>7 DEF CR!Round
  <2>2. coreCheck' \in [CR!Checkers -> CoreChecks]
    BY <1>c, <2>1, EndedCheck
  <2> QED BY <1>0, <1>7, <2>2 DEF CR!Round, CoreTypes
<1>8. ASSUME NEW c \in CR!Checkers, CR!ProcessGoesOn(c) PROVE CoreTypes'
  <2>1. PICK k \in {[coreCheck[c] EXCEPT !.process = "passed"],
                    [coreCheck[c] EXCEPT !.process = "failed"],
                    [coreCheck[c] EXCEPT !.over = TRUE]} : coreCheck' = [coreCheck EXCEPT ![c] = k]
    BY <1>8 DEF CR!ProcessGoesOn
  <2>2. k \in CoreChecks
    BY <1>0, <2>1 DEF CoreTypes, CoreChecks
  <2>3. coreCheck' \in [CR!Checkers -> CoreChecks]
    BY <1>c, <2>1, <2>2
  <2> QED BY <1>0, <1>8, <2>3 DEF CR!ProcessGoesOn, CoreTypes
<1>9. ASSUME NEW s \in CR!Stoppers, CR!Stop(s) PROVE CoreTypes'
  <2>1. coreStops' \in [CR!Stoppers -> StopSteps]
    BY <1>0, <1>9 DEF CR!Stop, CR!Goes, CoreTypes, StopSteps
  <2>2. coreChild' \in 0..coreRuns /\ coreSince' \in 0..coreRuns /\ coreRuns' = coreRuns
    BY <1>0, <1>9 DEF CR!Stop, CR!Goes, CoreTypes
  <2>3. liveCores' \subseteq 1..coreRuns
    BY <1>0, <1>9 DEF CR!Stop, CR!Goes, CoreTypes
  <2>4. corePhase' \in CorePhases
    BY <1>0, <1>9 DEF CR!Stop, CR!Goes, CoreTypes
  <2> QED BY <1>0, <1>9, <2>1, <2>2, <2>3, <2>4 DEF CR!Stop, CoreTypes
<1>10. CASE CR!StatusReaps
  BY <1>0, <1>10 DEF CR!StatusReaps, CoreTypes
<1>11. CASE CR!CoreDies
  BY <1>0, <1>11 DEF CR!CoreDies, CoreTypes
<1>12. CASE CR!Outside
  BY <1>0, <1>12 DEF CR!Outside, CoreTypes
<1> QED BY <1>1, <1>2, <1>3, <1>4, <1>5, <1>6, <1>7, <1>8, <1>9, <1>10, <1>11, <1>12
        DEF CR!CoreRunNext

(* Every step keeps what is said of the start.                              *)
LEMMA StartInvStep ==
  ASSUME CoreInv, CR!CoreRunNext
  PROVE  StartInv'
<1> USE CoreAssumption DEF CR!Fields, CR!Others, CR!NoCore
<1>0. CoreTypes /\ CoreFields /\ StartInv
  BY CoreFieldsTyped DEF CoreInv
<1>s. "start" \in CR!Checkers /\ "task" \in CR!Checkers /\ "start" # "task"
  BY DEF CR!Checkers
<1>i. CR!Idle.at = "idle"
  BY DEF CR!Idle
<1>g. ASSUME coreStart' = CR!Idle PROVE StartInv'
  BY <1>g, <1>i DEF StartInv
<1>1. CASE CR!StartBegins
  <2>1. CASE coreStart' = CR!Idle
    BY <1>g, <2>1
  <2>2. CASE coreStart' # CR!Idle
    <3>1. coreStart' = [at |-> "write", core |-> 0] /\ NoStop' /\ coreRuns' < MaxRuns /\ coreChild' = 0
      BY <1>1, <2>2 DEF CR!StartBegins, NoStop
    <3> QED BY <3>1 DEF StartInv
  <2> QED BY <2>1, <2>2
<1>2. CASE CR!StartChecks
  <2>1. CASE CR!Failed
    BY <1>g, <2>1, FailedStart DEF StartGivesUp
  <2>2. CASE ~CR!Failed
    <3>1. coreStart' = [coreStart EXCEPT !.at = "check"] /\ coreStart.at = "write"
          /\ UNCHANGED <<coreChild, coreStops, coreRuns>>
      BY <1>2, <2>2 DEF CR!StartChecks
    <3>2. coreStart'.at = "check"
      BY <1>0, <3>1 DEF CoreTypes
    <3> QED BY <1>0, <3>1, <3>2 DEF StartInv, NoStop
  <2> QED BY <2>1, <2>2
<1>3. CASE CR!StartChecked
  <2>1. CASE CR!Failed
    BY <1>g, <2>1, FailedStart DEF StartGivesUp
  <2>2. CASE ~CR!Failed
    <3>1. /\ coreStart' = [coreStart EXCEPT !.at = "spawn"] /\ coreStart.at = "check"
          /\ coreCheck["start"].process = "none" /\ coreCheck["start"].result = "ok"
          /\ UNCHANGED <<coreChild, coreStops, coreRuns, coreCheck>>
      BY <1>3, <2>2 DEF CR!StartChecked
    <3>2. coreStart'.at = "spawn"
      BY <1>0, <3>1 DEF CoreTypes
    <3> QED BY <1>0, <3>1, <3>2 DEF StartInv, NoStop
  <2> QED BY <2>1, <2>2
<1>4. CASE CR!Spawn
  <2>1. CASE coreGate # "open"
    BY <1>4, <1>g, <2>1, FailedStart DEF CR!Spawn, StartGivesUp
  <2>2. CASE coreGate = "open"
    <3>1. /\ coreStart' = [at |-> "child", core |-> coreRuns'] /\ coreRuns' = coreRuns + 1
          /\ coreStart.at = "spawn" /\ UNCHANGED <<coreChild, coreStops>>
      BY <1>4, <2>2 DEF CR!Spawn
    <3>2. coreRuns' \in 1..coreRuns'
      BY <1>0, <3>1 DEF CoreTypes
    <3> QED BY <1>0, <3>1, <3>2 DEF StartInv, NoStop
  <2> QED BY <2>1, <2>2
<1>5. CASE CR!Record
  <2>1. CASE coreStart' = CR!Idle
    BY <1>g, <2>1
  <2>2. CASE coreStart' # CR!Idle
    <3>1. PICK a \in {"time", "error", "phase"} : coreStart' = [coreStart EXCEPT !.at = a]
      BY <1>5, <2>2 DEF CR!Record
    <3>2. coreStart'.at = a /\ coreStart'.core = coreStart.core
      BY <1>0, <3>1 DEF CoreTypes
    <3>3. coreStart.at \in {"child", "time", "error"} /\ UNCHANGED <<coreRuns, coreStops>>
      BY <1>5, <2>2 DEF CR!Record
    <3> QED BY <1>0, <3>2, <3>3 DEF StartInv, NoStop
  <2> QED BY <2>1, <2>2
<1>u. ASSUME UNCHANGED <<coreStart, coreStops, coreRuns>>, coreChild' \in {coreChild, 0},
             coreStart.at = "spawn" => coreCheck'["start"] = coreCheck["start"]
      PROVE  StartInv'
  BY <1>0, <1>u DEF StartInv, NoStop
<1>6. CASE CR!TaskChecks
  <2>1. coreCheck'["start"] = coreCheck["start"]
    BY <1>0, <1>s, <1>6 DEF CR!TaskChecks, CoreTypes
  <2> QED BY <1>u, <1>6, <2>1 DEF CR!TaskChecks
<1>7. ASSUME NEW c \in CR!Checkers, CR!Round(c) PROVE StartInv'
  <2>1. PICK ended \in CR!Ended(c) : coreCheck' = [coreCheck EXCEPT ![c] = ended]
    BY <1>7 DEF CR!Round
  <2>2. coreStart.at = "spawn" => c # "start"
    BY <1>0, <1>7 DEF CR!Round, StartInv
  <2>3. coreStart.at = "spawn" => coreCheck'["start"] = coreCheck["start"]
    BY <1>0, <1>s, <2>1, <2>2 DEF CoreTypes
  <2> QED BY <1>u, <1>7, <2>3 DEF CR!Round
<1>8. ASSUME NEW c \in CR!Checkers, CR!ProcessGoesOn(c) PROVE StartInv'
  <2>1. PICK k : coreCheck' = [coreCheck EXCEPT ![c] = k]
    BY <1>8 DEF CR!ProcessGoesOn
  <2>2. coreStart.at = "spawn" => c # "start"
    BY <1>0, <1>8 DEF CR!ProcessGoesOn, StartInv
  <2>3. coreStart.at = "spawn" => coreCheck'["start"] = coreCheck["start"]
    BY <1>0, <1>s, <2>1, <2>2 DEF CoreTypes
  <2> QED BY <1>u, <1>8, <2>3 DEF CR!ProcessGoesOn
<1>9. ASSUME NEW s \in CR!Stoppers, CR!Stop(s) PROVE StartInv'
  <2>1. coreStart = CR!Idle
    <3>1. CASE coreStops[s] = "idle"
      BY <1>9, <3>1 DEF CR!Stop, CR!Goes
    <3>2. CASE coreStops[s] # "idle"
      BY <1>0, <3>2 DEF StartInv, NoStop
    <3> QED BY <3>1, <3>2
  <2>2. coreStart' = coreStart
    BY <1>9 DEF CR!Stop
  <2> QED BY <1>g, <2>1, <2>2
<1>10. CASE CR!StatusReaps
  BY <1>u, <1>10 DEF CR!StatusReaps
<1>11. CASE CR!CoreDies
  BY <1>u, <1>11 DEF CR!CoreDies
<1>12. CASE CR!Outside
  BY <1>u, <1>12 DEF CR!Outside
<1> QED BY <1>1, <1>2, <1>3, <1>4, <1>5, <1>6, <1>7, <1>8, <1>9, <1>10, <1>11, <1>12
        DEF CR!CoreRunNext

(* Every step keeps what the phase says, and loses no core.                 *)
LEMMA PhaseInvStep ==
  ASSUME CoreInv, CR!CoreRunNext
  PROVE  PhaseInv' /\ CR!NoCoreIsLost'
<1> USE CoreAssumption DEF CR!Fields, CR!Others, CR!NoCore, CR!InFlight
<1>0. CoreTypes /\ CoreFields /\ StartInv /\ PhaseInv /\ CR!NoCoreIsLost
  BY CoreFieldsTyped DEF CoreInv
<1>i. CR!Idle.at = "idle"
  BY DEF CR!Idle
<1>l. ASSUME coreStart.at # "child" PROVE liveCores \subseteq {coreChild}
  BY <1>0, <1>l DEF CR!NoCoreIsLost
<1>g. ASSUME StartGivesUp, coreStart.at \in {"write", "check", "spawn"},
             UNCHANGED <<coreChild, coreStops, coreReaped, liveCores>>
      PROVE  PhaseInv' /\ CR!NoCoreIsLost'
  <2>1. coreChild = 0 /\ corePhase' = "crashed" /\ NoStop /\ NoStop'
    BY <1>0, <1>g DEF StartGivesUp, StartInv, PhaseInv, NoStop
  <2>2. PhaseInv'
    BY <1>g, <1>i, <2>1 DEF PhaseInv, CR!PhaseIsTrue, StartGivesUp
  <2>3. CR!NoCoreIsLost'
    BY <1>g, <1>i, <1>l DEF CR!NoCoreIsLost, StartGivesUp
  <2> QED BY <2>2, <2>3
<1>1. CASE CR!StartBegins
  <2>1. coreChild' = 0 /\ liveCores' = liveCores /\ coreStops' = coreStops /\ NoStop /\ NoStop'
        /\ coreReaped' = coreReaped /\ coreStart = CR!Idle
    BY <1>1 DEF CR!StartBegins, NoStop
  <2>2. liveCores' = {}
    <3>1. liveCores \subseteq {coreChild} /\ 0 \notin liveCores
      BY <1>0, <1>i, <1>l, <2>1 DEF CoreTypes
    <3>2. coreChild = 0 \/ coreChild \notin liveCores
      BY <1>1 DEF CR!StartBegins, CR!Alive
    <3> QED BY <2>1, <3>1, <3>2
  <2>3. CASE corePhase' = "validating" /\ coreStart' = [at |-> "write", core |-> 0]
    BY <2>1, <2>2, <2>3 DEF PhaseInv, CR!PhaseIsTrue, CR!NoCoreIsLost, CR!Idle
  <2>4. CASE coreStart' = CR!Idle /\ corePhase' = corePhase /\ coreChild = 0
    BY <1>0, <1>i, <2>1, <2>2, <2>4 DEF PhaseInv, CR!PhaseIsTrue, CR!NoCoreIsLost, NoStop
  <2> QED BY <1>1, <2>3, <2>4 DEF CR!StartBegins
<1>2. CASE CR!StartChecks
  <2>1. CASE CR!Failed
    BY <1>g, <1>2, <2>1, FailedStart DEF CR!StartChecks
  <2>2. CASE ~CR!Failed
    <3>1. coreStart' = [coreStart EXCEPT !.at = "check"] /\ coreStart.at = "write"
          /\ UNCHANGED <<corePhase, coreChild, coreStops, liveCores, coreReaped>>
      BY <1>2, <2>2 DEF CR!StartChecks
    <3>2. coreStart'.at = "check" /\ coreStart' # CR!Idle
      BY <1>0, <1>i, <3>1 DEF CoreTypes
    <3> QED BY <1>0, <3>1, <3>2, <1>l DEF PhaseInv, CR!PhaseIsTrue, CR!NoCoreIsLost, NoStop
  <2> QED BY <2>1, <2>2
<1>3. CASE CR!StartChecked
  <2>1. CASE CR!Failed
    BY <1>g, <1>3, <2>1, FailedStart DEF CR!StartChecked
  <2>2. CASE ~CR!Failed
    <3>1. coreStart' = [coreStart EXCEPT !.at = "spawn"] /\ coreStart.at = "check"
          /\ corePhase' = "starting" /\ UNCHANGED <<coreChild, coreStops, liveCores, coreReaped>>
      BY <1>3, <2>2 DEF CR!StartChecked
    <3>2. coreStart'.at = "spawn" /\ coreStart' # CR!Idle
      BY <1>0, <1>i, <3>1 DEF CoreTypes
    <3>3. NoStop'
      BY <1>0, <3>1 DEF StartInv, NoStop
    <3> QED BY <1>0, <3>1, <3>2, <3>3, <1>l DEF PhaseInv, CR!PhaseIsTrue, CR!NoCoreIsLost
  <2> QED BY <2>1, <2>2
<1>4. CASE CR!Spawn
  <2>1. CASE coreGate # "open"
    BY <1>g, <1>4, <2>1, FailedStart DEF CR!Spawn
  <2>2. CASE coreGate = "open"
    <3>1. /\ coreStart' = [at |-> "child", core |-> coreRuns'] /\ coreStart.at = "spawn"
          /\ liveCores' = liveCores \union {coreRuns'}
          /\ UNCHANGED <<corePhase, coreChild, coreStops, coreReaped>>
      BY <1>4, <2>2 DEF CR!Spawn
    <3>2. NoStop' /\ corePhase = "starting"
      BY <1>0, <3>1 DEF StartInv, PhaseInv, NoStop
    <3>3. coreStart'.at = "child" /\ coreStart'.core = coreRuns' /\ coreStart' # CR!Idle
      BY <3>1, <1>i
    <3>4. liveCores' \subseteq {coreChild'} \union {coreStart'.core}
      BY <1>l, <3>1, <3>3
    <3> QED BY <3>1, <3>2, <3>3, <3>4 DEF PhaseInv, CR!PhaseIsTrue, CR!NoCoreIsLost
  <2> QED BY <2>1, <2>2
<1>5. CASE CR!Record
  <2>0. NoStop /\ NoStop' /\ liveCores' = liveCores /\ coreReaped' = coreReaped
    BY <1>0, <1>5 DEF CR!Record, StartInv, NoStop
  <2>1. CASE coreStart.at = "child"
    <3>1. coreChild' = coreStart.core /\ coreStart' = [coreStart EXCEPT !.at = "time"]
          /\ corePhase' = corePhase /\ corePhase = "starting" /\ coreChild = 0
      BY <1>0, <1>5, <2>1 DEF CR!Record, PhaseInv, StartInv
    <3>2. coreStart'.at = "time" /\ coreStart'.core = coreStart.core /\ coreStart' # CR!Idle
      BY <1>0, <1>i, <3>1 DEF CoreTypes
    <3>3. liveCores \subseteq {0} \union {coreStart.core} /\ 0 \notin liveCores
      BY <1>0, <2>1, <3>1 DEF CR!NoCoreIsLost, CoreTypes
    <3> QED BY <2>0, <3>1, <3>2, <3>3 DEF PhaseInv, CR!PhaseIsTrue, CR!NoCoreIsLost
  <2>2. CASE coreStart.at \in {"time", "error"}
    <3>1. PICK a \in {"error", "phase"} : coreStart' = [coreStart EXCEPT !.at = a]
      BY <1>5, <2>2 DEF CR!Record
    <3>2. coreStart'.at = a /\ coreStart'.core = coreStart.core /\ coreStart' # CR!Idle
      BY <1>0, <1>i, <3>1 DEF CoreTypes
    <3>3. UNCHANGED <<coreChild, corePhase>>
      BY <1>5, <2>2 DEF CR!Record
    <3> QED BY <1>0, <1>l, <2>0, <2>2, <3>2, <3>3
            DEF PhaseInv, CR!PhaseIsTrue, CR!NoCoreIsLost
  <2>3. CASE coreStart.at = "phase"
    <3>1. corePhase' = "running" /\ coreStart' = CR!Idle /\ coreChild' = coreChild
      BY <1>5, <2>3 DEF CR!Record
    <3>2. ~coreReaped => coreChild \in 1..coreRuns
      BY <1>0, <2>3 DEF PhaseInv, StartInv
    <3>3. ~coreReaped => coreChild # 0
      BY <1>0, <3>2 DEF CoreTypes
    <3> QED BY <1>i, <1>l, <2>0, <2>3, <3>1, <3>3 DEF PhaseInv, CR!PhaseIsTrue, CR!NoCoreIsLost
  <2> QED BY <1>5, <2>1, <2>2, <2>3 DEF CR!Record
<1>9. ASSUME NEW s \in CR!Stoppers, CR!Stop(s) PROVE PhaseInv' /\ CR!NoCoreIsLost'
  <2>1. coreStart = CR!Idle /\ coreStart' = CR!Idle
    <3>1. CASE coreStops[s] = "idle"
      BY <1>9, <3>1 DEF CR!Stop, CR!Goes
    <3>2. CASE coreStops[s] # "idle"
      BY <1>0, <1>9, <3>2 DEF StartInv, NoStop, CR!Stop
    <3> QED BY <3>1, <3>2
  <2>2. CR!NoCoreIsLost'
    <3>1. liveCores \subseteq {coreChild}
      BY <1>i, <1>l, <2>1
    <3>2. liveCores' \subseteq {coreChild'}
      BY <1>9, <3>1 DEF CR!Stop
    <3> QED BY <1>i, <2>1, <3>2 DEF CR!NoCoreIsLost
  <2>3. coreReaped' = coreReaped
    BY <1>9 DEF CR!Stop
  <2>4. CASE coreStops[s] = "idle"
    <3>1. corePhase' = "stopping" /\ coreStops'[s] = "kill"
      BY <1>0, <1>9, <2>4 DEF CR!Stop, CR!Goes, CoreTypes
    <3>2. ~NoStop'
      BY <3>1 DEF NoStop
    <3> QED BY <1>i, <2>1, <2>2, <3>1, <3>2 DEF PhaseInv, CR!PhaseIsTrue, NoStop
  <2>5. CASE coreStops[s] \in {"kill", "time"}
    <3>1. corePhase' = corePhase /\ coreStops'[s] # "idle"
      BY <1>0, <1>9, <2>5 DEF CR!Stop, CR!Goes, CoreTypes
    <3>2. ~NoStop' /\ ~NoStop
      BY <2>5, <3>1 DEF NoStop
    <3>3. corePhase \in {"stopping", "stopped", "crashed"}
      BY <1>0, <3>2 DEF PhaseInv
    <3> QED BY <1>i, <2>1, <2>2, <3>1, <3>2, <3>3 DEF PhaseInv, CR!PhaseIsTrue, NoStop
  <2>6. CASE coreStops[s] = "phase"
    <3>1. corePhase' = "stopped"
      BY <1>9, <2>6 DEF CR!Stop, CR!Goes
    <3> QED BY <1>i, <2>1, <2>2, <3>1 DEF PhaseInv, CR!PhaseIsTrue
  <2> QED BY <1>9, <2>4, <2>5, <2>6 DEF CR!Stop, CR!Goes
<1>10. CASE CR!StatusReaps
  <2>1. /\ coreChild # 0 /\ coreChild \notin liveCores /\ coreChild' = 0 /\ corePhase' = "crashed"
        /\ UNCHANGED <<coreStart, coreStops, liveCores>>
        /\ coreReaped' = (coreReaped \/ coreStart.at \in {"time", "error", "phase"})
    BY <1>10 DEF CR!StatusReaps, CR!Alive
  <2>2. coreStart.at \notin {"write", "check", "spawn", "child"}
    BY <1>0, <2>1 DEF StartInv
  <2>3. liveCores' = {}
    BY <1>l, <2>1, <2>2
  <2>4. coreStart'.at \in {"time", "error", "phase"} => coreReaped'
    BY <2>1
  <2> QED BY <2>1, <2>2, <2>3, <2>4 DEF PhaseInv, CR!PhaseIsTrue, CR!NoCoreIsLost
<1>11. CASE CR!CoreDies
  <2>1. liveCores' \subseteq liveCores
        /\ UNCHANGED <<corePhase, coreChild, coreStart, coreStops, coreReaped>>
    BY <1>11 DEF CR!CoreDies
  <2> QED BY <1>0, <2>1 DEF PhaseInv, CR!PhaseIsTrue, CR!NoCoreIsLost, NoStop
<1>12. ASSUME UNCHANGED <<corePhase, coreChild, coreStart, coreStops, coreReaped, liveCores>>
       PROVE  PhaseInv' /\ CR!NoCoreIsLost'
  BY <1>0, <1>12 DEF PhaseInv, CR!PhaseIsTrue, CR!NoCoreIsLost, NoStop
<1> QED BY <1>1, <1>2, <1>3, <1>4, <1>5, <1>9, <1>10, <1>11, <1>12
        DEF CR!CoreRunNext, CR!TaskChecks, CR!Round, CR!ProcessGoesOn, CR!Outside

(* The first state.                                                         *)
LEMMA CoreStarts == CR!CoreRunInit => CoreInv
<1> SUFFICES ASSUME CR!CoreRunInit PROVE CoreInv
  OBVIOUS
<1> USE CoreAssumption DEF CR!CoreRunInit
<1>1. coreStart \in [at : StartSteps, core : 0..MaxRuns]
  BY DEF CR!Idle, CR!NoCore, StartSteps
<1>2. coreCheck \in [CR!Checkers -> CoreChecks]
  BY DEF CR!NoCheck, CoreChecks, CheckResults
<1>3. coreStops \in [CR!Stoppers -> StopSteps] /\ NoStop
  BY DEF StopSteps, NoStop
<1>4. CoreTypes
  <2>1. coreRuns \in 0..MaxRuns /\ coreChild \in 0..coreRuns /\ coreSince \in 0..coreRuns
        /\ liveCores \subseteq 1..coreRuns
    BY DEF CR!NoCore
  <2>2. /\ corePhase \in CorePhases /\ coreError \in {"none", "start", "exited"}
        /\ coreGate \in {"open", "closed"} /\ taskCancelled \in BOOLEAN /\ coreReaped \in BOOLEAN
    BY DEF CorePhases
  <2> HIDE DEF CR!CoreRunInit
  <2> QED BY <1>1, <1>2, <1>3, <2>1, <2>2 DEF CoreTypes
<1>5. StartInv /\ PhaseInv /\ CR!NoCoreIsLost
  BY <1>3 DEF StartInv, PhaseInv, CR!PhaseIsTrue, CR!NoCoreIsLost, CR!Idle, CR!NoCore, CR!InFlight
<1> QED BY <1>4, <1>5 DEF CoreInv

(* One more step.                                                           *)
LEMMA CoreSteps ==
  ASSUME CoreInv, CR!CoreRunNext
  PROVE  CoreInv'
BY CoreTypesStep, StartInvStep, PhaseInvStep DEF CoreInv

(* A stutter.                                                               *)
LEMMA CoreStutters ==
  ASSUME CoreInv, UNCHANGED <<v1, v2, v3, v4, v5, v6, v7, v8, v9, v10, v11, v12, v13>>
  PROVE  CoreInv'
BY DEF CoreInv, CoreTypes, StartInv, PhaseInv, NoStop, CR!PhaseIsTrue, CR!NoCoreIsLost

(* What the invariant says of the core.                                     *)
LEMMA CoreHolds ==
  ASSUME CoreInv
  PROVE  CR!CoreRunTypeOK /\ CR!NoCoreIsLost /\ CR!PhaseIsTrue
<1>1. CoreTypes /\ CoreFields
  BY CoreFieldsTyped DEF CoreInv
<1>2. CR!CoreRunTypeOK
  <2>1. \A s \in CR!Stoppers : coreStops[s] \in StopSteps
    BY <1>1 DEF CoreTypes
  <2>2. coreChild \in 0..MaxRuns /\ coreSince \in 0..MaxRuns /\ liveCores \subseteq 1..MaxRuns
    BY <1>1, CoreAssumption DEF CoreTypes
  <2> QED BY <1>1, <2>1, <2>2
          DEF CoreTypes, CoreFields, CR!CoreRunTypeOK, CorePhases, StartSteps, StopSteps,
              CheckResults
<1> QED BY <1>2 DEF CoreInv, PhaseInv

(* Only a checked configuration is run.                                     *)
LEMMA CoreIsCareful ==
  ASSUME CoreInv, CR!CoreRunNext
  PROVE  CR!OnlyCheckedCoresRun
<1> USE DEF CR!Fields, CR!Others
<1>0. CoreTypes /\ CoreFields /\ StartInv
  BY CoreFieldsTyped DEF CoreInv
<1>s. "start" \in CR!Checkers /\ "task" \in CR!Checkers
  BY DEF CR!Checkers
<1>1. coreRuns' # coreRuns => coreCheck["start"].result = "ok" /\ coreGate = "open"
  BY <1>0 DEF CR!CoreRunNext, CR!StartBegins, CR!StartChecks, CR!StartChecked, CR!Spawn, CR!Record,
              CR!TaskChecks, CR!Round, CR!ProcessGoesOn, CR!Stop, CR!StatusReaps, CR!CoreDies,
              CR!Outside, StartInv
<1>2. ASSUME NEW c \in CR!Checkers, coreCheck'[c].result = "ok", coreCheck[c].result # "ok"
      PROVE  coreGate = "open" /\ ~(c = "task" /\ taskCancelled)
  <2>1. ASSUME NEW d \in CR!Checkers, coreCheck' = [coreCheck EXCEPT ![d] = CR!Spawned] PROVE FALSE
    BY <1>0, <1>2, <2>1, SpawnedCheck DEF CoreTypes
  <2>2. ASSUME NEW d \in CR!Checkers, CR!Round(d)
        PROVE  coreGate = "open" /\ ~(c = "task" /\ taskCancelled)
    <3>1. PICK ended \in CR!Ended(d) : coreCheck' = [coreCheck EXCEPT ![d] = ended]
      BY <2>2 DEF CR!Round
    <3>2. c = d /\ coreCheck'[c] = ended
      BY <1>0, <1>2, <3>1 DEF CoreTypes
    <3> QED BY <1>2, <3>2, EndedCheck
  <2>3. ASSUME NEW d \in CR!Checkers, CR!ProcessGoesOn(d) PROVE FALSE
    <3>1. PICK k \in {[coreCheck[d] EXCEPT !.process = "passed"],
                      [coreCheck[d] EXCEPT !.process = "failed"],
                      [coreCheck[d] EXCEPT !.over = TRUE]} : coreCheck' = [coreCheck EXCEPT ![d] = k]
      BY <2>3 DEF CR!ProcessGoesOn
    <3>2. k.result = coreCheck[d].result
      BY <1>0, <3>1 DEF CoreFields, CoreChecks
    <3> QED BY <1>0, <1>2, <3>1, <3>2 DEF CoreTypes
  <2>4. ASSUME coreCheck' = coreCheck PROVE FALSE
    BY <1>2, <2>4
  <2> QED BY <1>s, <2>1, <2>2, <2>3, <2>4
          DEF CR!CoreRunNext, CR!StartBegins, CR!StartChecks, CR!StartChecked, CR!Spawn, CR!Record,
              CR!TaskChecks, CR!Stop, CR!StatusReaps, CR!CoreDies, CR!Outside
<1> QED BY <1>1, <1>2 DEF CR!OnlyCheckedCoresRun

HIDE DEF corePhase, coreChild, coreSince, coreError, liveCores, coreStart, coreStops, coreCheck,
        coreGate, taskCancelled, coreRuns, coreChecked, coreReaped

-----------------------------------------------------------------------------
(* CoreProbe                                                               *)

coreFile == v1
fileCount == v2
coreBackup == v3
keptVersion == v4
probing == v5
callers == v6
probeClock == v7
probeGate == v8
callSaw == v9
USE DEF coreFile, fileCount, coreBackup, keptVersion, probing, callers, probeClock, probeGate,
        callSaw

FileIds == {0} \union CP!Files
CallSteps == {"idle", "queue", "look", "run", "compare"}
Calls == [at : CallSteps, ticket : Nat, since : 0..MaxNow, id : FileIds, result : CP!Results]

ProbeTypes ==
  /\ coreFile \in FileIds /\ fileCount \in CP!Files /\ coreBackup \in FileIds
  /\ keptVersion \in [id : FileIds, result : CP!Results, at : 0..MaxNow]
  /\ probing \in Callers \union {CP!NoOne}
  /\ callers \in [Callers -> Calls]
  /\ probeClock \in 0..MaxNow
  /\ probeGate \in [generation : Nat, open : BOOLEAN]
  /\ callSaw \in [Callers -> SUBSET FileIds]

(* Tickets are of the past; between two generations they are all of it.     *)
TicketInv ==
  \A c \in Callers : callers[c].at # "idle" =>
    /\ callers[c].ticket <= probeGate.generation
    /\ ~probeGate.open => callers[c].ticket < probeGate.generation

(* The flight is held by the one that probes; who is under way sees what is *)
(* at the path.                                                             *)
FlightInv ==
  \A c \in Callers :
    /\ callers[c].at \in {"look", "run", "compare"} => probing = c
    /\ callers[c].at # "idle" => coreFile \in callSaw[c]

(* While a ticket is good, a file that has gone does not come back: the one *)
(* at the path is that of the look, or a later one, or none.                *)
IdentityInv ==
  \A c \in Callers : callers[c].at \in {"run", "compare"} =>
    /\ callers[c].id \in 1..fileCount
    /\ CP!Admitted(c) =>
         /\ coreFile = 0 \/ coreFile >= callers[c].id
         /\ callers[c].at = "compare" /\ callers[c].result \in CP!Versions
              /\ coreFile = callers[c].id => CoreFiles[coreFile] = callers[c].result

ProbeInv ==
  /\ ProbeTypes /\ TicketInv /\ FlightInv /\ IdentityInv /\ CP!KeptIsTrue
  /\ coreFile <= fileCount /\ coreBackup <= fileCount

(* The three files, and what they answer.                                   *)
LEMMA ProbeFiles ==
  /\ CP!Files = 1..3 /\ CP!Versions = {"v1", "v2"}
  /\ CP!Results = {"v1", "v2", "none", "error"}
  /\ FileIds = 0..3
<1>1. CP!Files = 1..3
  BY DEF CP!Files, CoreFiles
<1>2. CoreFiles[1] = "v1" /\ CoreFiles[2] = "broken" /\ CoreFiles[3] = "v2"
  BY DEF CoreFiles
<1>3. CP!Versions = {"v1", "v2"}
  BY <1>1, <1>2 DEF CP!Versions, CP!Broken
<1>4. FileIds = 0..3
  BY <1>1 DEF FileIds
<1> QED BY <1>1, <1>3, <1>4 DEF CP!Results

(* The records of the probe, field by field.                                *)
ProbeFields ==
  /\ keptVersion.id \in FileIds /\ keptVersion.result \in CP!Results /\ keptVersion.at \in 0..MaxNow
  /\ probeGate.generation \in Nat /\ probeGate.open \in BOOLEAN
  /\ \A c \in Callers :
       /\ callers[c] \in Calls /\ callers[c].at \in CallSteps /\ callers[c].ticket \in Nat
       /\ callers[c].id \in FileIds /\ callers[c].result \in CP!Results

(* A call's record, field by field.                                         *)
LEMMA ProbeFieldsTyped == ProbeTypes => ProbeFields
BY DEF ProbeTypes, ProbeFields, Calls

(* What becomes of a call: c alone, with the steps it goes by.              *)
OthersWait(c) ==
  \A d \in Callers \ {c} : callers'[d] = callers[d] /\ callSaw'[d] = callSaw[d]
CallEnds(c) ==
  /\ callers'[c].at = "idle" /\ callers'[c].result \in CP!Results
  /\ probing' = IF probing = c THEN CP!NoOne ELSE probing

(* The call that is answered ends, with the answer it was given.            *)
LEMMA CallAnswered ==
  ASSUME ProbeTypes, NEW c \in Callers, NEW r, CP!Answers(c, r)
  PROVE  /\ OthersWait(c) /\ CallEnds(c)
         /\ callers' \in [Callers -> Calls] /\ callSaw' \in [Callers -> SUBSET FileIds]
         /\ probing' \in Callers \union {CP!NoOne}
         /\ callers'[c].result \in CP!Versions => callers'[c].result = r
<1> DEFINE x == [CP!Asleep EXCEPT !.result = IF r \in CP!Versions THEN r ELSE "none"]
<1>1. x \in Calls /\ x.at = "idle" /\ x.result = (IF r \in CP!Versions THEN r ELSE "none")
      /\ x.result \in CP!Results
  BY ProbeFiles, ProbeAssumption DEF CP!Asleep, CP!NoFile, Calls, CallSteps
<1>2. "none" \notin CP!Versions
  BY ProbeFiles
<1>3. callers' = [callers EXCEPT ![c] = x] /\ callSaw' = [callSaw EXCEPT ![c] = {}]
      /\ probing' = IF probing = c THEN CP!NoOne ELSE probing
  BY DEF CP!Answers
<1> HIDE DEF x
<1> QED BY <1>1, <1>2, <1>3 DEF ProbeTypes, OthersWait, CallEnds

(* Where a call goes on.                                                    *)
LEMMA CallGoesOn ==
  ASSUME ProbeTypes, NEW c \in Callers, NEW x \in Calls, callers' = [callers EXCEPT ![c] = x]
  PROVE  /\ callers' \in [Callers -> Calls] /\ callers'[c] = x
         /\ \A d \in Callers \ {c} : callers'[d] = callers[d]
BY DEF ProbeTypes

(* A file that is put at the path: who is under way sees it.                *)
LEMMA FilePut ==
  ASSUME ProbeTypes, NEW file \in FileIds, CP!Put(file)
  PROVE  /\ coreFile' = file /\ callSaw' \in [Callers -> SUBSET FileIds]
         /\ \A c \in Callers : callers[c].at # "idle" => file \in callSaw'[c]
         /\ UNCHANGED <<keptVersion, probing, callers, probeClock>>
BY DEF ProbeTypes, CP!Put

(* What is done to a call: a lemma for each of its steps.                   *)
LEMMA AskStep ==
  ASSUME ProbeInv, NEW c \in Callers, CP!Ask(c)
  PROVE  ProbeInv'
<1>0. ProbeTypes /\ ProbeFields /\ TicketInv /\ FlightInv /\ IdentityInv
  BY ProbeFieldsTyped DEF ProbeInv
<1> DEFINE x == [CP!Asleep EXCEPT !.at = "queue", !.ticket = probeGate.generation,
                                  !.since = probeClock]
<1>1. x \in Calls /\ x.at = "queue" /\ x.ticket = probeGate.generation
  <2>1. CP!Asleep \in Calls
    BY ProbeFiles, ProbeAssumption DEF CP!Asleep, CP!NoFile, Calls, CallSteps
  <2>2. probeGate.generation \in Nat /\ probeClock \in 0..MaxNow
    BY <1>0 DEF ProbeFields, ProbeTypes
  <2>3. PICK r \in Calls : r = CP!Asleep
    BY <2>1
  <2>4. x = [r EXCEPT !.at = "queue", !.ticket = probeGate.generation, !.since = probeClock]
    BY <2>3
  <2> QED BY <2>2, <2>4 DEF Calls, CallSteps
<1>2. /\ callers' = [callers EXCEPT ![c] = x] /\ callSaw' = [callSaw EXCEPT ![c] = {coreFile}]
      /\ UNCHANGED <<coreFile, fileCount, coreBackup, keptVersion, probing, probeClock, probeGate>>
      /\ probeGate.open
  BY DEF CP!Ask, CP!World
<1> HIDE DEF x
<1>3. /\ callers' \in [Callers -> Calls] /\ callers'[c] = x
      /\ \A d \in Callers \ {c} : callers'[d] = callers[d]
  BY <1>0, <1>1, <1>2, CallGoesOn
<1>4. /\ callSaw' \in [Callers -> SUBSET FileIds] /\ callSaw'[c] = {coreFile}
      /\ \A d \in Callers \ {c} : callSaw'[d] = callSaw[d]
  BY <1>0, <1>2 DEF ProbeTypes
<1>5. ProbeTypes'
  BY <1>0, <1>2, <1>3, <1>4 DEF ProbeTypes
<1>6. TicketInv'
  BY <1>0, <1>1, <1>2, <1>3 DEF TicketInv, ProbeFields
<1>7. FlightInv'
  BY <1>0, <1>1, <1>2, <1>3, <1>4 DEF FlightInv
<1>8. IdentityInv'
  BY <1>0, <1>1, <1>2, <1>3 DEF IdentityInv, CP!Admitted
<1> QED BY <1>2, <1>5, <1>6, <1>7, <1>8 DEF ProbeInv, CP!KeptIsTrue

(* A call that ends leaves the others as they are.                          *)
LEMMA EndStep ==
  ASSUME ProbeInv, NEW c \in Callers, NEW r, CP!Answers(c, r), CP!World, keptVersion' = keptVersion
  PROVE  ProbeInv'
<1>0. ProbeTypes /\ ProbeFields /\ TicketInv /\ FlightInv /\ IdentityInv
  BY ProbeFieldsTyped DEF ProbeInv
<1>1. /\ OthersWait(c) /\ CallEnds(c)
      /\ callers' \in [Callers -> Calls] /\ callSaw' \in [Callers -> SUBSET FileIds]
      /\ probing' \in Callers \union {CP!NoOne}
  BY <1>0, CallAnswered
<1>2. UNCHANGED <<coreFile, fileCount, coreBackup, keptVersion, probeClock, probeGate>>
  BY DEF CP!World
<1>3. ProbeTypes'
  BY <1>0, <1>1, <1>2 DEF ProbeTypes
<1>4. TicketInv'
  BY <1>0, <1>1, <1>2 DEF TicketInv, OthersWait, CallEnds
<1>5. FlightInv'
  BY <1>0, <1>1, <1>2 DEF FlightInv, OthersWait, CallEnds
<1>6. IdentityInv'
  BY <1>0, <1>1, <1>2 DEF IdentityInv, CP!Admitted, OthersWait, CallEnds
<1> QED BY <1>2, <1>3, <1>4, <1>5, <1>6 DEF ProbeInv, CP!KeptIsTrue

(* A call that goes on, with the flight if it has one.                      *)
GoesOnCall(c, x) ==
  /\ x \in Calls /\ callers' = [callers EXCEPT ![c] = x] /\ callSaw' = callSaw
  /\ CP!World /\ keptVersion' = keptVersion
  /\ callers[c].at # "idle" /\ x.ticket = callers[c].ticket

(* A call that goes on, and holds the only probe, keeps the invariant.       *)
LEMMA GoStep ==
  ASSUME ProbeInv, NEW c \in Callers, NEW x, GoesOnCall(c, x), x.at \in {"look", "run", "compare"},
         probing' = c, probing \in {c, CP!NoOne},
         x.at \in {"run", "compare"} =>
           /\ x.id \in 1..fileCount
           /\ CP!Admitted(c) =>
                /\ coreFile = 0 \/ coreFile >= x.id
                /\ x.at = "compare" /\ x.result \in CP!Versions /\ coreFile = x.id =>
                     CoreFiles[coreFile] = x.result
  PROVE  ProbeInv'
<1>0. ProbeTypes /\ ProbeFields /\ TicketInv /\ FlightInv /\ IdentityInv
  BY ProbeFieldsTyped DEF ProbeInv
<1>1. /\ callers' \in [Callers -> Calls] /\ callers'[c] = x
      /\ \A d \in Callers \ {c} : callers'[d] = callers[d]
  BY <1>0, CallGoesOn DEF GoesOnCall
<1>2. UNCHANGED <<coreFile, fileCount, coreBackup, keptVersion, probeClock, probeGate, callSaw>>
  BY DEF CP!World, GoesOnCall
<1>3. ProbeTypes'
  BY <1>0, <1>1, <1>2 DEF ProbeTypes
<1>4. TicketInv'
  BY <1>0, <1>1, <1>2 DEF TicketInv, GoesOnCall
<1>5. FlightInv'
  <2>1. CP!NoOne \notin Callers
    BY ProbeAssumption DEF CP!NoOne
  <2> QED BY <1>0, <1>1, <1>2, <2>1 DEF FlightInv, GoesOnCall
<1>6. IdentityInv'
  <2>1. ASSUME NEW d \in Callers \ {c}, callers'[d].at \in {"run", "compare"} PROVE FALSE
    <3>1. probing = d
      BY <1>0, <1>1, <2>1 DEF FlightInv
    <3> QED BY <3>1, ProbeAssumption DEF CP!NoOne
  <2>2. CP!Admitted(c)' = CP!Admitted(c)
    BY <1>1, <1>2 DEF CP!Admitted, GoesOnCall
  <2> QED BY <1>0, <1>1, <1>2, <2>1, <2>2 DEF IdentityInv
<1> QED BY <1>2, <1>3, <1>4, <1>5, <1>6 DEF ProbeInv, CP!KeptIsTrue

(* A step of a call that goes on.                                           *)
LEMMA CallStep ==
  ASSUME ProbeInv, NEW c \in Callers, CP!Queue(c) \/ CP!Look(c) \/ CP!Run(c)
  PROVE  ProbeInv'
<1>0. ProbeTypes /\ ProbeFields /\ TicketInv /\ FlightInv /\ IdentityInv /\ coreFile <= fileCount
  BY ProbeFieldsTyped DEF ProbeInv
<1>e. ASSUME NEW r, CP!Answers(c, r), CP!World, keptVersion' = keptVersion PROVE ProbeInv'
  BY <1>e, EndStep
<1>1. CASE CP!Queue(c)
  <2>1. CASE /\ CP!Admitted(c) /\ probing = CP!NoOne
             /\ probing' = c /\ callers' = [callers EXCEPT ![c].at = "look"] /\ callSaw' = callSaw
    <3> DEFINE x == [callers[c] EXCEPT !.at = "look"]
    <3>1. x \in Calls /\ x.at = "look" /\ x.ticket = callers[c].ticket
      BY <1>0 DEF ProbeFields, Calls, CallSteps
    <3>2. callers' = [callers EXCEPT ![c] = x]
      BY <1>0, <2>1 DEF ProbeTypes
    <3>3. CP!World /\ keptVersion' = keptVersion /\ callers[c].at # "idle"
      BY <1>1 DEF CP!Queue, CP!At
    <3> HIDE DEF x
    <3> QED BY <2>1, <3>1, <3>2, <3>3, GoStep DEF GoesOnCall
  <2> QED BY <1>1, <1>e, <2>1 DEF CP!Queue
<1>2. CASE CP!Look(c)
  <2>0. callers[c].at = "look" /\ CP!World /\ keptVersion' = keptVersion /\ probing = c
    BY <1>0, <1>2 DEF CP!Look, CP!At, FlightInv
  <2>1. CASE /\ CP!Admitted(c) /\ coreFile # 0 /\ UNCHANGED <<probing, callSaw>>
             /\ callers' = [callers EXCEPT ![c].at = "run", ![c].id = coreFile]
    <3> DEFINE x == [callers[c] EXCEPT !.at = "run", !.id = coreFile]
    <3>1. x \in Calls /\ x.at = "run" /\ x.ticket = callers[c].ticket /\ x.id = coreFile
      BY <1>0 DEF ProbeFields, Calls, CallSteps, ProbeTypes
    <3>2. callers' = [callers EXCEPT ![c] = x]
      BY <1>0, <2>1 DEF ProbeTypes
    <3>3. coreFile \in 1..fileCount /\ coreFile >= coreFile
      BY <1>0, <2>1, ProbeFiles DEF ProbeTypes
    <3> HIDE DEF x
    <3> QED BY <2>0, <2>1, <3>1, <3>2, <3>3, GoStep DEF GoesOnCall
  <2> QED BY <1>2, <1>e, <2>0, <2>1 DEF CP!Look, CP!NoFile
<1>3. CASE CP!Run(c)
  <2>0. callers[c].at = "run" /\ CP!World /\ UNCHANGED <<keptVersion, probing, callSaw>> /\ probing = c
    BY <1>0, <1>3 DEF CP!Run, CP!At, FlightInv
  <2>1. PICK r \in {"error"} \union (IF coreFile = 0 THEN {}
                                     ELSE {CoreFiles[coreFile]} \intersect CP!Versions) :
          callers' = [callers EXCEPT ![c].at = "compare", ![c].result = r]
    BY <1>3 DEF CP!Run, CP!NoFile
  <2> DEFINE x == [callers[c] EXCEPT !.at = "compare", !.result = r]
  <2>2. r \in CP!Results
    BY <2>1, ProbeFiles
  <2>3. x \in Calls /\ x.at = "compare" /\ x.ticket = callers[c].ticket /\ x.id = callers[c].id
        /\ x.result = r
    BY <1>0, <2>2 DEF ProbeFields, Calls, CallSteps
  <2>4. callers' = [callers EXCEPT ![c] = x]
    BY <1>0, <2>1 DEF ProbeTypes
  <2>5. r \in CP!Versions => CoreFiles[coreFile] = r
    BY <2>1, ProbeFiles
  <2>6. /\ callers[c].id \in 1..fileCount
        /\ CP!Admitted(c) => coreFile = 0 \/ coreFile >= callers[c].id
    BY <1>0, <2>0 DEF IdentityInv
  <2> HIDE DEF x
  <2> QED BY <2>0, <2>3, <2>4, <2>5, <2>6, GoStep DEF GoesOnCall
<1> QED BY <1>1, <1>2, <1>3

(* What is kept after a comparison is true.                                 *)
LEMMA CompareStep ==
  ASSUME ProbeInv, NEW c \in Callers, CP!Compare(c)
  PROVE  ProbeInv'
<1>0. ProbeTypes /\ ProbeFields /\ TicketInv /\ FlightInv /\ IdentityInv
  BY ProbeFieldsTyped DEF ProbeInv
<1>1. CASE keptVersion' = keptVersion
  BY <1>1, EndStep DEF CP!Compare
<1>2. CASE keptVersion' # keptVersion
  <2>1. /\ CP!Admitted(c) /\ coreFile = callers[c].id /\ CP!Answers(c, callers[c].result)
        /\ keptVersion' = [id |-> callers[c].id, result |-> callers[c].result, at |-> probeClock]
        /\ UNCHANGED <<coreFile, fileCount, coreBackup, probeClock, probeGate>>
        /\ callers[c].at = "compare"
    BY <1>2 DEF CP!Compare, CP!World, CP!At
  <2>2. /\ OthersWait(c) /\ CallEnds(c)
        /\ callers' \in [Callers -> Calls] /\ callSaw' \in [Callers -> SUBSET FileIds]
        /\ probing' \in Callers \union {CP!NoOne}
    BY <1>0, <2>1, CallAnswered
  <2>3. ProbeTypes'
    BY <1>0, <2>1, <2>2 DEF ProbeTypes, ProbeFields
  <2>4. TicketInv'
    BY <1>0, <2>1, <2>2 DEF TicketInv, OthersWait, CallEnds
  <2>5. FlightInv'
    BY <1>0, <2>1, <2>2 DEF FlightInv, OthersWait, CallEnds
  <2>6. IdentityInv'
    BY <1>0, <2>1, <2>2 DEF IdentityInv, CP!Admitted, OthersWait, CallEnds
  <2>7. CP!KeptIsTrue'
    BY <1>0, <2>1 DEF IdentityInv, CP!KeptIsTrue
  <2> QED BY <2>1, <2>3, <2>4, <2>5, <2>6, <2>7 DEF ProbeInv
<1> QED BY <1>1, <1>2

(* A replacement, an update, time: no ticket is good across an update.      *)
LEMMA FilesStep ==
  ASSUME ProbeInv, CP!Replace \/ CP!Update \/ CP!Tick
  PROVE  ProbeInv'
<1> USE DEF CP!NoFile
<1>0. /\ ProbeTypes /\ ProbeFields /\ TicketInv /\ FlightInv /\ IdentityInv
      /\ coreFile <= fileCount /\ CP!KeptIsTrue
  BY ProbeFieldsTyped DEF ProbeInv
<1>k. ASSUME keptVersion' = keptVersion PROVE CP!KeptIsTrue'
  BY <1>0, <1>k DEF CP!KeptIsTrue
\* another file is put there: one of its own identity, none, or one set aside
<1>p. ASSUME NEW file \in FileIds, CP!Put(file), fileCount' \in CP!Files, coreBackup' \in FileIds,
             probeGate' = probeGate, fileCount' >= fileCount, file <= fileCount',
             coreBackup' <= fileCount',
             probeGate.open => file = 0 \/ file > fileCount
      PROVE  ProbeInv'
  <2>1. /\ coreFile' = file /\ callSaw' \in [Callers -> SUBSET FileIds]
        /\ \A c \in Callers : callers[c].at # "idle" => file \in callSaw'[c]
        /\ UNCHANGED <<keptVersion, probing, callers, probeClock>>
    BY <1>0, <1>p, FilePut
  <2>2. ProbeTypes'
    BY <1>0, <1>p, <2>1 DEF ProbeTypes
  <2>3. TicketInv'
    BY <1>0, <1>p, <2>1 DEF TicketInv
  <2>4. FlightInv'
    BY <1>0, <2>1 DEF FlightInv
  <2>5. IdentityInv'
    <3>0. ASSUME NEW c \in Callers, callers[c].at \in {"run", "compare"}
          PROVE  /\ callers[c].id \in 1..fileCount'
                 /\ CP!Admitted(c) => file # callers[c].id
                 /\ CP!Admitted(c) => file = 0 \/ file >= callers[c].id
      <4>1. callers[c].id \in 1..fileCount /\ fileCount \in Nat /\ fileCount' \in Nat /\ file \in Nat
        BY <1>0, <1>p, <3>0, ProbeFiles DEF IdentityInv, ProbeTypes
      <4> QED BY <1>p, <4>1 DEF CP!Admitted
    <3>1. \A c \in Callers : CP!Admitted(c)' = CP!Admitted(c)
      BY <1>p, <2>1 DEF CP!Admitted
    <3> QED BY <2>1, <3>0, <3>1 DEF IdentityInv
  <2> QED BY <1>p, <1>k, <2>1, <2>2, <2>3, <2>4, <2>5 DEF ProbeInv
\* the gate: a pause is of a new generation
<1>g. ASSUME UNCHANGED <<coreFile, fileCount, callSaw, keptVersion, probing, callers, probeClock>>,
             coreBackup' \in {coreBackup, 0}, probeGate' \in [generation : Nat, open : BOOLEAN],
             \/ probeGate'.generation = probeGate.generation + 1 /\ ~probeGate'.open
             \/ probeGate'.generation = probeGate.generation /\ ~probeGate.open
      PROVE  ProbeInv'
  <2>0. coreBackup' \in FileIds /\ coreBackup' <= fileCount'
    BY <1>0, <1>g, ProbeFiles DEF ProbeInv, ProbeTypes
  <2>1. ProbeTypes'
    BY <1>0, <1>g, <2>0 DEF ProbeTypes
  <2>2. TicketInv'
    BY <1>0, <1>g DEF TicketInv, ProbeFields
  <2>3. FlightInv'
    BY <1>0, <1>g DEF FlightInv
  <2>4. IdentityInv'
    <3> SUFFICES ASSUME NEW c \in Callers, callers[c].at \in {"run", "compare"}
                 PROVE  callers[c].id \in 1..fileCount /\ ~CP!Admitted(c)'
      BY <1>0, <1>g DEF IdentityInv
    <3>1. callers[c].ticket <= probeGate.generation
          /\ (~probeGate.open => callers[c].ticket < probeGate.generation)
      BY <1>0 DEF TicketInv
    <3>2. ~CP!Admitted(c)'
      BY <1>0, <1>g, <3>1 DEF CP!Admitted, ProbeFields
    <3> QED BY <1>0, <3>2 DEF IdentityInv
  <2> QED BY <1>0, <1>g, <1>k, <2>0, <2>1, <2>2, <2>3, <2>4 DEF ProbeInv
<1>b. /\ coreFile \in Nat /\ fileCount \in Nat /\ coreBackup \in Nat /\ coreBackup \in FileIds
      /\ coreBackup <= fileCount /\ 0 \in FileIds /\ fileCount \in CP!Files
      /\ \A f \in CP!Files : f \in FileIds /\ f \in Nat
  BY <1>0, ProbeFiles DEF ProbeInv, ProbeTypes
<1>1. CASE CP!Replace
  <2>0. coreBackup' = coreBackup /\ probeGate' = probeGate
    BY <1>1 DEF CP!Replace
  <2>1. CASE fileCount + 1 \in CP!Files /\ fileCount' = fileCount + 1 /\ CP!Put(fileCount')
    <3>1. fileCount' \in FileIds /\ fileCount' > fileCount /\ fileCount' \in CP!Files
          /\ fileCount' >= fileCount /\ coreBackup' <= fileCount' /\ fileCount' <= fileCount'
      BY <1>b, <2>0, <2>1
    <3> QED BY <1>b, <1>p, <2>0, <2>1, <3>1
  <2>2. CASE CP!Put(0) /\ fileCount' = fileCount
    <3>1. 0 <= fileCount' /\ fileCount' >= fileCount
      BY <1>b, <2>2
    <3> QED BY <1>b, <1>p, <2>0, <2>2, <3>1
  <2> QED BY <1>1, <2>1, <2>2 DEF CP!Replace
<1>2. CASE CP!Update
  <2>1. CASE /\ probeGate' = [generation |-> probeGate.generation + 1, open |-> FALSE]
             /\ UNCHANGED <<coreFile, fileCount, coreBackup, callSaw>>
    BY <1>0, <1>2, <1>g, <2>1 DEF CP!Update, ProbeTypes, ProbeFields
  <2>2. CASE /\ ~probeGate.open /\ fileCount + 1 \in CP!Files /\ coreBackup' = coreFile
             /\ fileCount' = fileCount + 1 /\ CP!Put(fileCount') /\ probeGate' = probeGate
    BY <1>0, <1>p, <2>2, ProbeFiles DEF ProbeTypes
  <2>3. CASE /\ ~probeGate.open /\ CP!Put(coreBackup) /\ coreBackup' = 0
             /\ UNCHANGED <<fileCount, probeGate>>
    <3>1. coreBackup <= fileCount
      BY <1>0 DEF ProbeInv
    <3> QED BY <1>0, <1>p, <2>3, <3>1, ProbeFiles DEF ProbeTypes
  <2>4. CASE /\ ~probeGate.open /\ probeGate' = [probeGate EXCEPT !.open = TRUE]
             /\ coreBackup' = 0 /\ UNCHANGED <<coreFile, fileCount, callSaw>>
    <3>1. probeGate' \in [generation : Nat, open : BOOLEAN]
          /\ probeGate'.generation = probeGate.generation
      BY <1>0, <2>4 DEF ProbeTypes
    <3> QED BY <1>0, <1>2, <1>g, <2>4, <3>1, ProbeFiles DEF CP!Update
  <2> QED BY <1>2, <2>1, <2>2, <2>3, <2>4 DEF CP!Update
<1>3. CASE CP!Tick
  <2>1. probeClock' \in 0..MaxNow
        /\ UNCHANGED <<coreFile, fileCount, coreBackup, keptVersion, probing, callers, probeGate, callSaw>>
    BY <1>0, <1>3, ProbeAssumption DEF CP!Tick, ProbeTypes
  <2> QED BY <1>0, <2>1 DEF ProbeInv, ProbeTypes, TicketInv, FlightInv, IdentityInv, CP!KeptIsTrue,
                            CP!Admitted
<1> QED BY <1>1, <1>2, <1>3

(* Every step keeps the invariant.                                          *)
LEMMA ProbeSteps ==
  ASSUME ProbeInv, CP!ProbeNext
  PROVE  ProbeInv'
BY AskStep, CallStep, CompareStep, FilesStep DEF CP!ProbeNext

(* The first state.                                                         *)
LEMMA ProbeStarts == CP!ProbeInit => ProbeInv
<1> SUFFICES ASSUME CP!ProbeInit PROVE ProbeInv
  OBVIOUS
<1> USE ProbeAssumption DEF CP!ProbeInit
<1>1. CP!Asleep \in Calls /\ CP!Asleep.at = "idle"
  BY ProbeFiles DEF CP!Asleep, CP!NoFile, Calls, CallSteps
<1>2. keptVersion \in [id : FileIds, result : CP!Results, at : 0..MaxNow]
  BY ProbeFiles DEF CP!Empty, CP!NoFile
<1>3. CP!KeptIsTrue
  BY ProbeFiles DEF CP!KeptIsTrue, CP!Empty
<1>4. coreFile \in FileIds /\ fileCount \in CP!Files /\ coreBackup \in FileIds
      /\ coreFile <= fileCount /\ coreBackup <= fileCount
  BY ProbeFiles DEF CP!NoFile
<1>5. ProbeTypes
  BY <1>1, <1>2, <1>4 DEF ProbeTypes
<1>6. TicketInv /\ FlightInv /\ IdentityInv
  BY <1>1 DEF TicketInv, FlightInv, IdentityInv
<1> QED BY <1>3, <1>4, <1>5, <1>6 DEF ProbeInv

(* A stutter.                                                               *)
LEMMA ProbeStutters ==
  ASSUME ProbeInv, UNCHANGED <<v1, v2, v3, v4, v5, v6, v7, v8, v9>>
  PROVE  ProbeInv'
BY DEF ProbeInv, ProbeTypes, TicketInv, FlightInv, IdentityInv, CP!KeptIsTrue, CP!Admitted

(* What the invariant says of the probe.                                    *)
LEMMA ProbeHolds ==
  ASSUME ProbeInv
  PROVE  CP!ProbeTypeOK /\ CP!KeptIsTrue
<1>1. ProbeTypes /\ ProbeFields
  BY ProbeFieldsTyped DEF ProbeInv
<1>2. CP!ProbeTypeOK
  <2>1. FileIds = {CP!NoFile} \union CP!Files
    BY DEF FileIds, CP!NoFile
  <2>2. \A c \in Callers : callSaw[c] \subseteq FileIds
    BY <1>1 DEF ProbeTypes
  <2> QED BY <1>1, <2>1, <2>2 DEF ProbeTypes, ProbeFields, CP!ProbeTypeOK, CallSteps
<1> QED BY <1>2 DEF ProbeInv

(* One probe at a time; an answer is that of a file that was there.         *)
LEMMA ProbeIsCareful ==
  ASSUME ProbeInv, CP!ProbeNext
  PROVE  CP!AnswersAreOfTheCall
<1>0. ProbeTypes /\ ProbeFields /\ FlightInv /\ IdentityInv
  BY ProbeFieldsTyped DEF ProbeInv
<1>1. ASSUME NEW c \in Callers, NEW d \in Callers,
             {callers[c].at, callers[d].at} \subseteq {"look", "run", "compare"}
      PROVE  c = d
  BY <1>0, <1>1 DEF FlightInv
<1>2. ASSUME NEW c \in Callers, callers[c].at # "idle", callers'[c].at = "idle",
             callers'[c].result \in CP!Versions
      PROVE  \E file \in callSaw[c] \ {CP!NoFile} : CoreFiles[file] = callers'[c].result
  <2> DEFINE Goal == \E file \in callSaw[c] \ {CP!NoFile} : CoreFiles[file] = callers'[c].result
  <2>s. coreFile \in callSaw[c]
    BY <1>0, <1>2 DEF FlightInv
  <2>0. "refused" \notin CP!Versions /\ "busy" \notin CP!Versions /\ "missing" \notin CP!Versions
        /\ "changed" \notin CP!Versions
    BY ProbeFiles
  <2>a. ASSUME NEW d \in Callers, NEW r, CP!Answers(d, r) PROVE d = c /\ r = callers'[c].result
    <3>1. OthersWait(d) /\ (callers'[d].result \in CP!Versions => callers'[d].result = r)
      BY <1>0, <2>a, CallAnswered
    <3> QED BY <1>2, <3>1 DEF OthersWait
  <2>g. ASSUME NEW d \in Callers, NEW x, callers' = [callers EXCEPT ![d] = x], x.at # "idle" PROVE FALSE
    BY <1>0, <1>2, <2>g DEF ProbeTypes
  <2>u. ASSUME callers' = callers PROVE FALSE
    BY <1>2, <2>u
  <2>1. ASSUME NEW d \in Callers, CP!Ask(d) PROVE FALSE
    <3> DEFINE x == [CP!Asleep EXCEPT !.at = "queue", !.ticket = probeGate.generation,
                                      !.since = probeClock]
    <3>1. callers' = [callers EXCEPT ![d] = x]
      BY <2>1 DEF CP!Ask
    <3>2. x.at = "queue"
      BY DEF CP!Asleep
    <3> HIDE DEF x
    <3> QED BY <2>g, <3>1, <3>2
  <2>2. ASSUME NEW d \in Callers, CP!Queue(d) PROVE FALSE
    <3>1. CASE callers' = [callers EXCEPT ![d].at = "look"]
      <4>1. callers' = [callers EXCEPT ![d] = [callers[d] EXCEPT !.at = "look"]]
        BY <1>0, <3>1 DEF ProbeTypes
      <4>2. [callers[d] EXCEPT !.at = "look"].at = "look"
        BY <1>0 DEF ProbeFields, Calls
      <4> QED BY <2>g, <4>1, <4>2
    <3> QED BY <1>2, <2>0, <2>2, <2>a, <3>1 DEF CP!Queue
  <2>3. ASSUME NEW d \in Callers, CP!Look(d) PROVE Goal
    <3>1. CASE callers' = [callers EXCEPT ![d].at = "run", ![d].id = coreFile]
      <4>1. callers' = [callers EXCEPT ![d] = [callers[d] EXCEPT !.at = "run", !.id = coreFile]]
        BY <1>0, <3>1 DEF ProbeTypes
      <4>2. [callers[d] EXCEPT !.at = "run", !.id = coreFile].at = "run"
        BY <1>0 DEF ProbeFields, Calls
      <4> QED BY <2>g, <4>1, <4>2
    <3>2. CASE coreFile # CP!NoFile /\ CP!Fresh(coreFile) /\ CP!Answers(d, keptVersion.result)
      <4>1. keptVersion.result = callers'[c].result /\ keptVersion.id = coreFile
        BY <2>a, <3>2 DEF CP!Fresh
      <4>2. CoreFiles[coreFile] = callers'[c].result
        BY <1>2, <4>1 DEF ProbeInv, CP!KeptIsTrue
      <4> QED BY <2>s, <3>2, <4>2
    <3> QED BY <1>2, <2>0, <2>3, <2>a, <3>1, <3>2 DEF CP!Look
  <2>4. ASSUME NEW d \in Callers, CP!Run(d) PROVE FALSE
    <3>1. PICK r : callers' = [callers EXCEPT ![d].at = "compare", ![d].result = r]
      BY <2>4 DEF CP!Run
    <3>2. callers' = [callers EXCEPT ![d] = [callers[d] EXCEPT !.at = "compare", !.result = r]]
      BY <1>0, <3>1 DEF ProbeTypes
    <3>3. [callers[d] EXCEPT !.at = "compare", !.result = r].at = "compare"
      BY <1>0 DEF ProbeFields, Calls
    <3> QED BY <2>g, <3>2, <3>3
  <2>5. ASSUME NEW d \in Callers, CP!Compare(d) PROVE Goal
    <3>1. CASE CP!Admitted(d) /\ coreFile = callers[d].id /\ CP!Answers(d, callers[d].result)
      <4>1. d = c /\ callers[c].result = callers'[c].result /\ callers[c].at = "compare"
        BY <2>5, <2>a, <3>1 DEF CP!Compare, CP!At
      <4>2. CoreFiles[coreFile] = callers'[c].result /\ coreFile \in 1..fileCount
        BY <1>0, <1>2, <3>1, <4>1 DEF IdentityInv
      <4>3. coreFile # CP!NoFile
        BY <1>0, <4>2, ProbeFiles DEF ProbeTypes, CP!NoFile
      <4> QED BY <2>s, <4>2, <4>3
    <3> QED BY <1>2, <2>0, <2>5, <2>a, <3>1 DEF CP!Compare
  <2>6. CASE CP!Replace \/ CP!Update \/ CP!Tick
    BY <2>6, <2>u DEF CP!Replace, CP!Update, CP!Tick, CP!Put
  <2> QED BY <2>1, <2>2, <2>3, <2>4, <2>5, <2>6 DEF CP!ProbeNext
<1> QED BY <1>1, <1>2 DEF CP!AnswersAreOfTheCall, CP!At

HIDE DEF coreFile, fileCount, coreBackup, keptVersion, probing, callers, probeClock, probeGate,
        callSaw

-----------------------------------------------------------------------------
(* HelperStaging                                                           *)

handling == v1
rootCore == v2
directories == v3
USE DEF handling, rootCore, directories

StagingSteps ==
  {"idle", "core", "checked", "drop", "move", "config", "unlink", "rename", "native", "spawn"}
CoreFilesOf == {HS!NoFile, "unchecked", "signed"}
UserFiles ==
  [core : CoreFilesOf, coreNext : CoreFilesOf, config : HS!Configs, configNext : HS!Configs]

StagingTypes ==
  /\ handling \in [at : StagingSteps, op : {"none", "prepare", "start"},
                   uid : Users \union {HS!NoUser}, config : HS!Configs]
  /\ directories \in [Users -> UserFiles]

(* A request is of a user, its configuration was accepted, no core runs     *)
(* while it is handled; and what it has put into the directory so far.      *)
HandledInv ==
  /\ handling.at = "idle" => handling = HS!Idle
  /\ handling.at # "idle" =>
       handling.uid \in Users /\ HS!Accepted(handling.config) /\ rootCore.id = 0
  /\ handling.at \in {"drop", "move"} => directories[handling.uid].coreNext = "signed"
  /\ handling.at \in {"config", "unlink", "rename", "native", "spawn"} =>
       directories[handling.uid].core = "signed"
  /\ handling.at \in {"unlink", "rename"} =>
       directories[handling.uid].configNext = handling.config
  /\ handling.at \in {"native", "spawn"} => directories[handling.uid].config = handling.config

StagingInv ==
  /\ StagingTypes /\ HandledInv /\ HS!RunsWhatWasChecked
  /\ rootCore.id # 0 => rootCore.uid \in Users

(* The directory of one user, its files as the fields of a record.          *)
UserWrites(u, d) ==
  /\ d \in UserFiles /\ directories' \in [Users -> UserFiles] /\ directories'[u] = d
  /\ \A w \in Users \ {u} : directories'[w] = directories[w]

(* A write into one user's directory leaves those of the others.            *)
LEMMA DirectoryWritten ==
  ASSUME StagingTypes, NEW u \in Users, NEW d \in UserFiles,
         directories' = [directories EXCEPT ![u] = d]
  PROVE  UserWrites(u, d)
BY DEF StagingTypes, UserWrites

(* What a write to one of the four files does to the record of them.        *)
LEMMA FilesWritten ==
  ASSUME NEW d \in UserFiles, NEW c \in CoreFilesOf
  PROVE  /\ [d EXCEPT !["coreNext"] = c] \in UserFiles
         /\ [d EXCEPT !["coreNext"] = c].coreNext = c
         /\ [d EXCEPT !["coreNext"] = c].core = d.core
         /\ [d EXCEPT !["core"] = c] \in UserFiles
         /\ [d EXCEPT !["core"] = c].core = c
         /\ [d EXCEPT !["core"] = c].coreNext = d.coreNext
BY DEF UserFiles

(* And what one of a configuration does.                                    *)
LEMMA ConfigWritten ==
  ASSUME NEW d \in UserFiles, NEW g \in HS!Configs
  PROVE  /\ [d EXCEPT !["configNext"] = g] \in UserFiles
         /\ [d EXCEPT !["configNext"] = g].configNext = g
         /\ [d EXCEPT !["configNext"] = g].core = d.core
         /\ [d EXCEPT !["config"] = g] \in UserFiles
         /\ [d EXCEPT !["config"] = g].configNext = d.configNext
         /\ [d EXCEPT !["config"] = g].core = d.core
BY DEF UserFiles

(* A renamed file is at its place, and no longer beside it.                 *)
LEMMA FilesMoved ==
  ASSUME NEW d \in UserFiles, NEW c \in CoreFilesOf, NEW g \in HS!Configs
  PROVE  /\ [d EXCEPT !.core = c, !.coreNext = HS!NoFile] \in UserFiles
         /\ [d EXCEPT !.core = c, !.coreNext = HS!NoFile].core = c
         /\ [d EXCEPT !.config = g, !.configNext = HS!NoConfig] \in UserFiles
         /\ [d EXCEPT !.config = g, !.configNext = HS!NoConfig].config = g
         /\ [d EXCEPT !.config = g, !.configNext = HS!NoConfig].core = d.core
<1>1. HS!NoFile \in CoreFilesOf /\ HS!NoConfig \in HS!Configs
  BY DEF CoreFilesOf, HS!Configs
<1> QED BY <1>1 DEF UserFiles

(* The request goes on to p, with the files of its user as d.               *)
HandledStep(p, d) ==
  /\ handling.at # "idle" /\ rootCore' = rootCore
  /\ handling' = [handling EXCEPT !.at = p]
  /\ directories' = [directories EXCEPT ![handling.uid] = d]

(* A request that goes on keeps the invariant if the files its step relies  *)
(* on are those that were checked.                                         *)
LEMMA HandledGoesOn ==
  ASSUME StagingInv, NEW p \in StagingSteps \ {"idle"}, NEW d \in UserFiles, HandledStep(p, d),
         d.core \in {HS!NoFile, "signed"},
         p \in {"drop", "move"} => d.coreNext = "signed",
         p \in {"config", "unlink", "rename", "native", "spawn"} => d.core = "signed",
         p \in {"unlink", "rename"} => d.configNext = handling.config,
         p \in {"native", "spawn"} => d.config = handling.config
  PROVE  StagingInv' /\ HS!StagingStepOK
<1>1. StagingTypes /\ HandledInv /\ HS!RunsWhatWasChecked
  BY DEF StagingInv
<1>2. /\ handling.at # "idle" /\ handling.uid \in Users /\ HS!Accepted(handling.config)
      /\ rootCore.id = 0 /\ rootCore' = rootCore
  BY <1>1 DEF HandledInv, HandledStep
<1>3. UserWrites(handling.uid, d)
  BY <1>1, <1>2, DirectoryWritten DEF HandledStep
<1>4. /\ handling' \in [at : StagingSteps, op : {"none", "prepare", "start"},
                        uid : Users \union {HS!NoUser}, config : HS!Configs]
      /\ handling'.at = p /\ handling'.uid = handling.uid /\ handling'.config = handling.config
  BY <1>1 DEF HandledStep, StagingTypes
<1>5. StagingTypes'
  BY <1>3, <1>4 DEF StagingTypes, UserWrites
<1>6. HandledInv'
  BY <1>2, <1>3, <1>4 DEF HandledInv, UserWrites
<1>7. HS!RunsWhatWasChecked'
  <2>1. \A u \in Users : directories'[u].core \in {HS!NoFile, "signed"}
    BY <1>1, <1>3 DEF HS!RunsWhatWasChecked, UserWrites
  <2>2. p = "spawn" => directories'[handling'.uid].config = handling'.config
    BY <1>3, <1>4 DEF UserWrites
  <2> QED BY <1>2, <1>4, <2>1, <2>2 DEF HS!RunsWhatWasChecked, HS!At, HS!Mine
<1>8. HS!StagingStepOK
  BY <1>2, <1>3 DEF HS!StagingStepOK, UserWrites
<1> QED BY <1>2, <1>5, <1>6, <1>7, <1>8 DEF StagingInv

(* The request ends, or another begins; the core is left, stopped or begun. *)
LEMMA HandledEnds ==
  ASSUME StagingInv, directories' = directories, rootCore' \in {rootCore, HS!NoChild},
         \/ handling' = HS!Idle
         \/ handling' = handling /\ handling.at = "idle"
  PROVE  StagingInv' /\ HS!StagingStepOK
<1>1. StagingTypes /\ HandledInv /\ HS!RunsWhatWasChecked
  BY DEF StagingInv
<1>2. handling' = HS!Idle /\ HS!Idle.at = "idle"
  BY <1>1 DEF HandledInv, HS!Idle
<1>3. HS!NoChild.id = 0
  BY DEF HS!NoChild
<1>4. HS!Idle \in [at : StagingSteps, op : {"none", "prepare", "start"},
                   uid : Users \union {HS!NoUser}, config : HS!Configs]
  BY DEF HS!Idle, StagingSteps, HS!Configs
<1>5. StagingTypes' /\ HandledInv'
  BY <1>1, <1>2, <1>4 DEF StagingTypes, HandledInv
<1>6. HS!RunsWhatWasChecked'
  BY <1>1, <1>2, <1>3 DEF HS!RunsWhatWasChecked, HS!At
<1>7. HS!StagingStepOK
  BY DEF HS!StagingStepOK
<1> QED BY <1>3, <1>5, <1>6, <1>7 DEF StagingInv

(* Every step keeps the invariant, and is careful.                          *)
LEMMA StagingStepsHold ==
  ASSUME StagingInv, HS!StagingNext
  PROVE  StagingInv' /\ HS!StagingStepOK
<1>0. StagingTypes /\ HandledInv /\ HS!RunsWhatWasChecked
  BY DEF StagingInv
<1>u. handling.at # "idle" => handling.uid \in Users /\ directories[handling.uid] \in UserFiles
      /\ handling.config \in HS!Configs /\ directories[handling.uid].core \in {HS!NoFile, "signed"}
  BY <1>0 DEF HandledInv, StagingTypes, HS!RunsWhatWasChecked
<1>f. /\ {"unchecked", "signed", HS!NoFile} \subseteq CoreFilesOf /\ HS!NoConfig \in HS!Configs
      /\ \A d \in UserFiles : d.config \in HS!Configs /\ d.configNext \in HS!Configs
                             /\ d.core \in CoreFilesOf /\ d.coreNext \in CoreFilesOf
  BY DEF CoreFilesOf, UserFiles, HS!Configs
<1>m. HS!Refreshed \in {rootCore, HS!NoChild}
  BY DEF HS!Refreshed
<1>1. CASE HS!Receive
  <2>1. PICK uid \in Users, op \in {"prepare", "start"} : \E conf \in UserConfigs[uid] :
          /\ HS!Accepted(conf) /\ HS!Refreshed.id = 0
          /\ handling' = [at |-> "core", op |-> op, uid |-> uid, config |-> conf]
    BY <1>1 DEF HS!Receive
  <2>2. PICK conf \in UserConfigs[uid] :
          /\ HS!Accepted(conf) /\ HS!Refreshed.id = 0
          /\ handling' = [at |-> "core", op |-> op, uid |-> uid, config |-> conf]
    BY <2>1
  <2>3. conf \in HS!Configs
    BY DEF HS!Configs
  <2>4. rootCore' = HS!Refreshed /\ directories' = directories
    BY <1>1 DEF HS!Receive
  <2>5. /\ handling' \in [at : StagingSteps, op : {"none", "prepare", "start"},
                          uid : Users \union {HS!NoUser}, config : HS!Configs]
        /\ handling'.at = "core" /\ handling'.uid = uid /\ handling'.config = conf
    BY <2>2, <2>3 DEF StagingSteps
  <2>6. StagingTypes' /\ HandledInv'
    BY <1>0, <2>2, <2>4, <2>5 DEF StagingTypes, HandledInv
  <2>7. HS!RunsWhatWasChecked'
    BY <1>0, <2>2, <2>4, <2>5 DEF HS!RunsWhatWasChecked, HS!At
  <2>8. HS!StagingStepOK
    BY <1>m, <2>4 DEF HS!StagingStepOK
  <2> QED BY <2>2, <2>4, <2>6, <2>7, <2>8 DEF StagingInv
<1>2. CASE HS!StageCore
  <2>w. ASSUME NEW c \in CoreFilesOf, NEW f \in {"core", "coreNext"}, handling.at # "idle",
               HS!Write(f, c)
        PROVE  directories' = [directories EXCEPT ![handling.uid] = [@ EXCEPT ![f] = c]]
    BY <1>0, <1>u, <2>w DEF HS!Write, StagingTypes
  <2>1. CASE HS!Step("core", "coreNext", "unchecked", "checked")
    <3>1. HandledStep("checked", [directories[handling.uid] EXCEPT !["coreNext"] = "unchecked"])
      BY <1>0, <1>f, <1>u, <2>w, <2>1 DEF HS!Step, HS!Goto, HS!At, HandledStep, StagingTypes
    <3>2. PICK d : d = [directories[handling.uid] EXCEPT !["coreNext"] = "unchecked"]
      OBVIOUS
    <3>3. handling.at = "core"
      BY <2>1 DEF HS!Step, HS!At
    <3>4. directories[handling.uid] \in UserFiles /\ handling.config \in HS!Configs
      BY <1>0, <1>u, <3>3 DEF HandledInv
    <3>5. d \in UserFiles /\ d.core = directories[handling.uid].core
      BY <1>f, <3>2, <3>4, FilesWritten
    <3>6. HandledStep("checked", d)
      BY <3>1, <3>2
    <3> QED BY <1>u, <3>3, <3>4, <3>5, <3>6, HandledGoesOn DEF StagingSteps
  <2>2. CASE HS!Step("checked", "coreNext", "signed", "drop")
    <3>1. HandledStep("drop", [directories[handling.uid] EXCEPT !["coreNext"] = "signed"])
      BY <1>0, <1>f, <1>u, <2>w, <2>2 DEF HS!Step, HS!Goto, HS!At, HandledStep, StagingTypes
    <3>2. PICK d : d = [directories[handling.uid] EXCEPT !["coreNext"] = "signed"]
      OBVIOUS
    <3>3. handling.at = "checked"
      BY <2>2 DEF HS!Step, HS!At
    <3>4. directories[handling.uid] \in UserFiles /\ handling.config \in HS!Configs
      BY <1>0, <1>u, <3>3 DEF HandledInv
    <3>5. d \in UserFiles /\ d.core = directories[handling.uid].core /\ d.coreNext = "signed"
      BY <1>f, <3>2, <3>4, FilesWritten
    <3>6. HandledStep("drop", d)
      BY <3>1, <3>2
    <3> QED BY <1>u, <3>3, <3>4, <3>5, <3>6, HandledGoesOn DEF StagingSteps
  <2>3. CASE HS!Step("drop", "core", HS!NoFile, "move")
    <3>1. HandledStep("move", [directories[handling.uid] EXCEPT !["core"] = HS!NoFile])
      BY <1>0, <1>f, <1>u, <2>w, <2>3 DEF HS!Step, HS!Goto, HS!At, HandledStep, StagingTypes
    <3>2. PICK d : d = [directories[handling.uid] EXCEPT !["core"] = HS!NoFile]
      OBVIOUS
    <3>3. handling.at = "drop"
      BY <2>3 DEF HS!Step, HS!At
    <3>4. directories[handling.uid] \in UserFiles /\ handling.config \in HS!Configs /\ directories[handling.uid].coreNext = "signed"
      BY <1>0, <1>u, <3>3 DEF HandledInv
    <3>5. d \in UserFiles /\ d.core = HS!NoFile /\ d.coreNext = "signed"
      BY <1>f, <3>2, <3>4, FilesWritten
    <3>6. HandledStep("move", d)
      BY <3>1, <3>2
    <3> QED BY <1>u, <3>3, <3>4, <3>5, <3>6, HandledGoesOn DEF StagingSteps
  <2> QED BY <1>2, <2>1, <2>2, <2>3 DEF HS!StageCore
<1>3. CASE HS!MoveCore
  <2>1. HandledStep("config", [directories[handling.uid] EXCEPT
                                 !.core = directories[handling.uid].coreNext,
                                 !.coreNext = HS!NoFile])
    BY <1>0, <1>3, <1>u
       DEF HS!MoveCore, HS!Goto, HS!At, HS!Mine, HandledStep, StagingTypes
  <2>2. PICK d : d = [directories[handling.uid] EXCEPT !.core = directories[handling.uid].coreNext,
                                 !.coreNext = HS!NoFile]
    OBVIOUS
  <2>3. handling.at = "move"
    BY <1>3 DEF HS!MoveCore, HS!At
  <2>4. directories[handling.uid] \in UserFiles /\ handling.config \in HS!Configs /\ directories[handling.uid].coreNext = "signed"
    BY <1>0, <1>u, <2>3 DEF HandledInv
  <2>5. d \in UserFiles /\ d.core = "signed"
    BY Zenon, <1>f, <2>2, <2>4, FilesMoved
  <2>6. HandledStep("config", d)
    BY <2>1, <2>2
  <2> QED BY <1>u, <2>3, <2>4, <2>5, <2>6, HandledGoesOn DEF StagingSteps
<1>4. CASE HS!WriteConfig
  <2>1. CASE HS!Step("config", "configNext", handling.config, "unlink")
    <3>1. HandledStep("unlink", [directories[handling.uid] EXCEPT !["configNext"] = handling.config])
      BY <1>0, <1>u, <2>1 DEF HS!Step, HS!Write, HS!Goto, HS!At, HandledStep, StagingTypes
    <3>2. PICK d : d = [directories[handling.uid] EXCEPT !["configNext"] = handling.config]
      OBVIOUS
    <3>3. handling.at = "config"
      BY <2>1 DEF HS!Step, HS!At
    <3>4. directories[handling.uid] \in UserFiles /\ handling.config \in HS!Configs /\ directories[handling.uid].core = "signed"
      BY <1>0, <1>u, <3>3 DEF HandledInv
    <3>5. d \in UserFiles /\ d.core = "signed" /\ d.configNext = handling.config
      BY Zenon, <1>f, <3>2, <3>4, ConfigWritten
    <3>6. HandledStep("unlink", d)
      BY <3>1, <3>2
    <3> QED BY <1>u, <3>3, <3>4, <3>5, <3>6, HandledGoesOn DEF StagingSteps
  <2>2. CASE HS!Step("unlink", "config", HS!NoConfig, "rename")
    <3>1. HandledStep("rename", [directories[handling.uid] EXCEPT !["config"] = HS!NoConfig])
      BY <1>0, <1>u, <2>2 DEF HS!Step, HS!Write, HS!Goto, HS!At, HandledStep, StagingTypes
    <3>2. PICK d : d = [directories[handling.uid] EXCEPT !["config"] = HS!NoConfig]
      OBVIOUS
    <3>3. handling.at = "unlink"
      BY <2>2 DEF HS!Step, HS!At
    <3>4. directories[handling.uid] \in UserFiles /\ handling.config \in HS!Configs /\ directories[handling.uid].core = "signed"
           /\ directories[handling.uid].configNext = handling.config
      BY <1>0, <1>u, <3>3 DEF HandledInv
    <3>5. d \in UserFiles /\ d.core = "signed" /\ d.configNext = handling.config
      BY <1>f, <3>2, <3>4, ConfigWritten
    <3>6. HandledStep("rename", d)
      BY <3>1, <3>2
    <3> QED BY <1>u, <3>3, <3>4, <3>5, <3>6, HandledGoesOn DEF StagingSteps
  <2> QED BY <1>4, <2>1, <2>2 DEF HS!WriteConfig
<1>5. CASE HS!MoveConfig
  <2>1. HandledStep("native", [directories[handling.uid] EXCEPT
                                 !.config = directories[handling.uid].configNext,
                                 !.configNext = HS!NoConfig])
    BY <1>0, <1>5, <1>u
       DEF HS!MoveConfig, HS!Goto, HS!At, HS!Mine, HandledStep, StagingTypes
  <2>2. PICK d : d = [directories[handling.uid] EXCEPT !.config = directories[handling.uid].configNext,
                                 !.configNext = HS!NoConfig]
    OBVIOUS
  <2>3. handling.at = "rename"
    BY <1>5 DEF HS!MoveConfig, HS!At
  <2>4. directories[handling.uid] \in UserFiles /\ handling.config \in HS!Configs /\ directories[handling.uid].core = "signed"
         /\ directories[handling.uid].configNext = handling.config
    BY <1>0, <1>u, <2>3 DEF HandledInv
  <2>5. d \in UserFiles /\ d.core = "signed" /\ d.config = handling.config
    BY Zenon, <1>f, <2>2, <2>4, FilesMoved
  <2>6. HandledStep("native", d)
    BY <2>1, <2>2
  <2> QED BY <1>u, <2>3, <2>4, <2>5, <2>6, HandledGoesOn DEF StagingSteps
<1>6. CASE HS!Refused
  BY <1>6, HandledEnds DEF HS!Refused, HS!Ends
<1>7. CASE HS!Validated
  <2>1. CASE handling.op = "start"
    <3>1. HandledStep("spawn", directories[handling.uid])
      BY <1>0, <1>7, <1>u, <2>1 DEF HS!Validated, HS!Goto, HS!At, HandledStep, StagingTypes
    <3> QED BY <1>0, <1>7, <1>u, <3>1, HandledGoesOn DEF HS!Validated, HS!At, StagingSteps, HandledInv
  <2>2. CASE handling.op # "start"
    BY <1>7, <2>2, HandledEnds DEF HS!Validated, HS!Ends
  <2> QED BY <2>1, <2>2
<1>8. CASE HS!Spawn
  <2>1. /\ handling.at = "spawn" /\ handling' = HS!Idle /\ directories' = directories
        /\ rootCore' = [id |-> HS!NextCore, uid |-> handling.uid,
                        config |-> directories[handling.uid].config]
    BY <1>8 DEF HS!Spawn, HS!At, HS!Ends, HS!Mine
  <2>2. /\ handling.uid \in Users /\ HS!Accepted(handling.config) /\ rootCore.id = 0
        /\ directories[handling.uid].core = "signed"
        /\ directories[handling.uid].config = handling.config
    BY <1>0, <2>1 DEF HandledInv
  <2>3. /\ HS!Idle \in [at : StagingSteps, op : {"none", "prepare", "start"},
                        uid : Users \union {HS!NoUser}, config : HS!Configs]
        /\ HS!Idle.at = "idle"
    BY DEF HS!Idle, StagingSteps, HS!Configs
  <2>4. StagingTypes' /\ HandledInv'
    BY <1>0, <2>1, <2>3 DEF StagingTypes, HandledInv
  <2>5. HS!RunsWhatWasChecked'
    BY <1>0, <2>1, <2>2, <2>3 DEF HS!RunsWhatWasChecked, HS!At
  <2>6. HS!StagingStepOK
    BY <2>1, <2>2 DEF HS!StagingStepOK
  <2> QED BY <2>1, <2>2, <2>4, <2>5, <2>6 DEF StagingInv
<1>9. CASE HS!Settle \/ HS!Watch \/ HS!Stop \/ HS!HelperDies
  BY <1>9, <1>m, HandledEnds
     DEF HS!Settle, HS!Watch, HS!Stop, HS!HelperDies, HS!At, HS!Stopped
<1>10. ASSUME UNCHANGED <<handling, rootCore, directories>> PROVE StagingInv' /\ HS!StagingStepOK
  BY <1>10 DEF StagingInv, StagingTypes, HandledInv, HS!RunsWhatWasChecked, HS!At, HS!Mine,
               HS!StagingStepOK
<1> QED BY <1>1, <1>2, <1>3, <1>4, <1>5, <1>6, <1>7, <1>8, <1>9, <1>10
        DEF HS!StagingNext, HS!CoreErrs, HS!ReadLine

(* The first state.                                                         *)
LEMMA StagingStarts == HS!StagingInit => StagingInv
<1> SUFFICES ASSUME HS!StagingInit PROVE StagingInv
  OBVIOUS
<1>1. HS!Idle.at = "idle" /\ HS!NoChild.id = 0
  BY DEF HS!Idle, HS!NoChild
<1>2. StagingTypes
  BY DEF HS!StagingInit, StagingTypes, HS!Idle, HS!NoFiles, UserFiles, CoreFilesOf, HS!Configs,
         StagingSteps
<1>3. HS!RunsWhatWasChecked
  BY <1>1 DEF HS!StagingInit, HS!RunsWhatWasChecked, HS!NoFiles, HS!At
<1> QED BY <1>1, <1>2, <1>3 DEF HS!StagingInit, StagingInv, HandledInv

(* A stutter.                                                               *)
LEMMA StagingStutters ==
  ASSUME StagingInv, UNCHANGED <<v1, v2, v3, v4, v5, v6>>
  PROVE  StagingInv'
BY DEF StagingInv, StagingTypes, HandledInv, HS!RunsWhatWasChecked, HS!At, HS!Mine

HIDE DEF handling, rootCore, directories

-----------------------------------------------------------------------------
(* PolicyTask                                                              *)

policyWorker == v2
policyCanceller == v3
policyDisabler == v4
policyConf == v5
policyPermit == v6
USE DEF policyWorker, policyCanceller, policyDisabler, policyConf, policyPermit

(* What is compared stays so while the permit is kept; a command within      *)
(* disable_policy never enables one.                                        *)
PolicyInv ==
  /\ policyWorker \in [at : PT!Working \union PT!Ending \union {"idle", "begun"},
                       read : PT!Rankings, ended : PT!Ends]
  /\ policyConf \in [rev : PT!Marks, costs : PT!Marks, modeRev : PT!Marks, ai : BOOLEAN,
                     last : PT!Marks, policy : PT!Policies]
  /\ policyDisabler \in [at : {"idle", "read"}, policy : PT!Policies]
  /\ ~policyDisabler.policy.enabled
  /\ policyCanceller = "mode" => policyPermit = "mode"
  /\ policyWorker.at \in {"compare", "loading"} => policyPermit = "worker"
  /\ policyWorker.at = "begun" => policyPermit = "start"
  /\ policyWorker.at = "loading" => PT!Unchanged

(* A task that goes on, and what it may have read.                          *)
LEMMA WorkerGoesOn ==
  ASSUME PolicyInv, NEW p \in PT!Working \union PT!Ending \union {"idle", "begun"},
         NEW e \in PT!Ends
  PROVE  /\ [policyWorker EXCEPT !.at = p].at = p
         /\ [policyWorker EXCEPT !.at = p].read = policyWorker.read
         /\ [policyWorker EXCEPT !.at = p] \in
              [at : PT!Working \union PT!Ending \union {"idle", "begun"}, read : PT!Rankings,
               ended : PT!Ends]
         /\ [policyWorker EXCEPT !.at = p, !.ended = e].at = p
         /\ [policyWorker EXCEPT !.at = p, !.ended = e] \in
              [at : PT!Working \union PT!Ending \union {"idle", "begun"}, read : PT!Rankings,
               ended : PT!Ends]
BY DEF PolicyInv

(* Of the worker, by the steps it may take.                                 *)
WorkerIs(w) ==
  w \in [at : PT!Working \union PT!Ending \union {"idle", "begun"}, read : PT!Rankings,
        ended : PT!Ends]
Calmly ==
  /\ WorkerIs(policyWorker') /\ policyWorker'.at \notin {"begun", "compare", "loading"}
  /\ UNCHANGED <<policyCanceller, policyDisabler, policyConf>>
  /\ \/ policyPermit' = policyPermit
     \/ policyPermit' = "free" /\ policyPermit \in {"worker", "start"}

(* A step that neither ranks nor replaces a policy.                         *)
LEMMA CalmStep ==
  ASSUME PolicyInv, Calmly PROVE PolicyInv' /\ PT!RankingIsCurrent
BY DEF PolicyInv, Calmly, WorkerIs, PT!RankingIsCurrent

(* Another revision of the configuration.                                   *)
LEMMA RevisionNew ==
  ASSUME PolicyInv, NEW policy \in PT!Policies, PT!NewRevision(policy), policyConf.last < MaxConf
  PROVE  /\ policyConf' \in [rev : PT!Marks, costs : PT!Marks, modeRev : PT!Marks, ai : BOOLEAN,
                             last : PT!Marks, policy : PT!Policies]
         /\ policyConf'.policy = policy
<1>1. policyConf.last + 1 \in PT!Marks
  BY PolicyAssumption DEF PolicyInv, PT!Marks
<1> QED BY <1>1 DEF PolicyInv, PT!NewRevision

(* Every step keeps the invariant; a ranking is applied to what it is of.   *)
LEMMA PolicySteps ==
  ASSUME PolicyInv, PT!PolicyNext
  PROVE  PolicyInv' /\ PT!RankingIsCurrent
<1> USE DEF PT!At, PT!Goto
<1>0. /\ PT!Ends = {"Completed", "Failed", "Cancelled"} /\ PT!Ending = {"show", "free"}
      /\ PT!Working = {"load", "costs", "directory", "spawn", "ready", "checking", "bandwidth",
                       "ranked", "apply", "compare", "loading"}
  BY DEF PT!Ends, PT!Ending, PT!Working
<1>g. ASSUME NEW p \in {"load", "costs", "directory", "spawn", "ready", "checking", "bandwidth",
                        "ranked", "apply", "show", "free"},
             policyWorker' = [policyWorker EXCEPT !.at = p]
      PROVE  WorkerIs(policyWorker') /\ policyWorker'.at \notin {"begun", "compare", "loading"}
  BY <1>0, <1>g, WorkerGoesOn DEF WorkerIs
<1>l. ASSUME NEW how \in {"Failed", "Completed"}, PT!Leaves(how)
      PROVE  WorkerIs(policyWorker') /\ policyWorker'.at \notin {"begun", "compare", "loading"}
  <2>1. PICK e \in PT!Ends : policyWorker' = [policyWorker EXCEPT !.at = "show", !.ended = e]
    BY <1>0, <1>l DEF PT!Leaves
  <2>2. "show" \in PT!Working \union PT!Ending \union {"idle", "begun"}
    BY <1>0
  <2>3. WorkerIs([policyWorker EXCEPT !.at = "show", !.ended = e])
        /\ [policyWorker EXCEPT !.at = "show", !.ended = e].at = "show"
    BY <2>2, WorkerGoesOn DEF WorkerIs
  <2> QED BY <2>1, <2>3
<1>f. ASSUME PT!Fails PROVE PolicyInv' /\ PT!RankingIsCurrent
  BY <1>f, <1>l, CalmStep DEF PT!Fails, Calmly
<1>u. ASSUME UNCHANGED <<policyCanceller, policyDisabler, policyConf, policyPermit>>,
             NEW p \in {"load", "costs", "directory", "spawn", "ready", "checking", "bandwidth",
                        "ranked", "apply", "show", "free"},
             policyWorker' = [policyWorker EXCEPT !.at = p]
      PROVE  PolicyInv' /\ PT!RankingIsCurrent
  BY <1>g, <1>u, CalmStep DEF Calmly
<1>c. ASSUME policyConf' = policyConf PROVE PT!RankingIsCurrent
  BY <1>c DEF PT!RankingIsCurrent
<1>1. CASE PT!Start
  <2>1. policyPermit = "free" /\ policyPermit' = "start" /\ policyConf' = policyConf
        /\ policyWorker' = [PT!Resting EXCEPT !.at = "begun", !.read.modeRev = policyConf.modeRev]
        /\ UNCHANGED <<policyCanceller, policyDisabler>>
    BY <1>1 DEF PT!Start
  <2>2. policyWorker' \in [at : PT!Working \union PT!Ending \union {"idle", "begun"},
                           read : PT!Rankings, ended : PT!Ends] /\ policyWorker'.at = "begun"
    <3>1. PT!Resting \in [at : PT!Working \union PT!Ending \union {"idle", "begun"},
                         read : PT!Rankings, ended : PT!Ends]
      BY <1>0, PolicyAssumption DEF PT!Resting, PT!NoRanking, PT!Rankings, PT!Marks
    <3>2. PICK r \in [at : PT!Working \union PT!Ending \union {"idle", "begun"},
                     read : PT!Rankings, ended : PT!Ends] : r = PT!Resting
      BY <3>1
    <3>3. policyWorker' = [r EXCEPT !.at = "begun", !.read.modeRev = policyConf.modeRev]
      BY <2>1, <3>2
    <3> QED BY <3>3 DEF PolicyInv, PT!Rankings
  <2> QED BY <1>c, <2>1, <2>2 DEF PolicyInv
<1>2. CASE PT!Begun
  <2>1. policyPermit = "start"
    BY <1>2 DEF PT!Begun, PolicyInv
  <2> QED BY <1>2, <1>g, <2>1, CalmStep DEF PT!Begun, Calmly
<1>3. CASE PT!CancelBegins
  BY <1>c, <1>3 DEF PT!CancelBegins, PolicyInv, PT!Unchanged
<1>4. CASE PT!CancelStores
  BY <1>c, <1>4 DEF PT!CancelStores, PolicyInv, PT!Unchanged
<1>5. CASE PT!Load
  <2>1. policyWorker' = [policyWorker EXCEPT !.at = "costs", !.read.rev = policyConf.rev]
        /\ UNCHANGED <<policyCanceller, policyDisabler, policyConf, policyPermit>>
    BY <1>5 DEF PT!Load
  <2>2. WorkerIs(policyWorker') /\ policyWorker'.at = "costs"
    BY <1>0, <2>1 DEF PolicyInv, WorkerIs, PT!Rankings
  <2> QED BY <2>1, <2>2, CalmStep DEF Calmly
<1>6. CASE PT!Candidates
  <2>1. policyWorker' = [policyWorker EXCEPT !.at = "directory", !.read.costs = policyConf.costs]
        /\ UNCHANGED <<policyCanceller, policyDisabler, policyConf, policyPermit>>
    BY <1>6 DEF PT!Candidates
  <2>2. WorkerIs(policyWorker') /\ policyWorker'.at = "directory"
    BY <1>0, <2>1 DEF PolicyInv, WorkerIs, PT!Rankings
  <2> QED BY <2>1, <2>2, CalmStep DEF Calmly
<1>7. CASE PT!NoCandidates
  BY <1>7, <1>f DEF PT!NoCandidates
<1>8. CASE PT!MakeDirectory \/ PT!Spawn \/ PT!Ready \/ PT!Probed \/ PT!Ranked
  BY <1>8, <1>f, <1>u DEF PT!MakeDirectory, PT!Spawn, PT!Ready, PT!Probed, PT!Ranked
<1>9. CASE PT!ApplyBegins
  <2>1. CASE policyPermit = "free" /\ policyPermit' = "worker" /\ PT!Goto("compare")
             /\ UNCHANGED <<policyCanceller, policyDisabler, policyConf>>
    <3>1. policyWorker'.at = "compare" /\ WorkerIs(policyWorker')
      BY <1>0, <2>1, WorkerGoesOn DEF WorkerIs
    <3> QED BY <1>c, <2>1, <3>1 DEF PolicyInv, WorkerIs
  <2> QED BY <1>9, <1>f, <2>1 DEF PT!ApplyBegins
<1>10. CASE PT!Compare
  <2>0. policyPermit = "worker" /\ UNCHANGED <<policyCanceller, policyDisabler, policyConf>>
    BY <1>10 DEF PT!Compare, PolicyInv
  <2>1. CASE PT!Goto("loading") /\ policyPermit' = policyPermit /\ PT!Unchanged
    <3>1. policyWorker'.at = "loading" /\ policyWorker'.read = policyWorker.read
          /\ WorkerIs(policyWorker')
      BY <1>0, <2>1, WorkerGoesOn DEF WorkerIs
    <3> QED BY <1>c, <2>0, <2>1, <3>1 DEF PolicyInv, WorkerIs, PT!Unchanged
  <2>2. CASE PT!Leaves("Failed") /\ PT!Release
    BY <1>l, <2>0, <2>2, CalmStep DEF PT!Release, Calmly
  <2> QED BY <1>10, <2>1, <2>2 DEF PT!Compare
<1>11. CASE PT!Applied
  <2>0. /\ policyWorker.at = "loading" /\ PT!Unchanged /\ PT!Leaves("Completed")
        /\ UNCHANGED <<policyCanceller, policyDisabler>> /\ policyConf.last < MaxConf
        /\ policyPermit' = "free" /\ policyPermit = "worker"
    BY <1>11 DEF PT!Applied, PolicyInv, PT!Release
  <2> DEFINE policy == [enabled |-> TRUE, of |-> policyWorker.read]
  <2>1. policy \in PT!Policies /\ PT!NewRevision(policy)
    BY <1>11 DEF PT!Applied, PT!Policies, PolicyInv
  <2>2. policyConf'.policy = policy
    BY <2>0, <2>1, RevisionNew
  <2>3. PT!RankingIsCurrent
    BY <2>0, <2>2 DEF PT!RankingIsCurrent, PT!Unchanged
  <2>4. WorkerIs(policyWorker') /\ policyWorker'.at \notin {"begun", "compare", "loading"}
    BY <1>l, <2>0
  <2>5. policyConf' \in [rev : PT!Marks, costs : PT!Marks, modeRev : PT!Marks, ai : BOOLEAN,
                         last : PT!Marks, policy : PT!Policies]
    BY <2>0, <2>1, RevisionNew
  <2>6. policyCanceller # "mode"
    BY <2>0 DEF PolicyInv
  <2> QED BY <2>0, <2>3, <2>4, <2>5, <2>6 DEF PolicyInv, WorkerIs
<1>12. CASE PT!TakenBack
  <2>1. policyPermit = "worker"
    BY <1>12 DEF PT!TakenBack, PolicyInv
  <2> QED BY <1>12, <1>l, <2>1, CalmStep DEF PT!TakenBack, PT!Release, Calmly
<1>13. CASE PT!FinishShows
  BY <1>13, <1>u DEF PT!FinishShows
<1>14. CASE PT!FinishFrees
  <2>1. WorkerIs(policyWorker') /\ policyWorker'.at = "idle"
    BY <1>0, <1>14, PolicyAssumption
       DEF PT!FinishFrees, PT!Resting, PT!NoRanking, PT!Rankings, PT!Marks, WorkerIs
  <2> QED BY <1>14, <2>1, CalmStep DEF PT!FinishFrees, Calmly
<1>15. CASE PT!FinishResets
  BY <1>c, <1>15 DEF PT!FinishResets, PolicyInv, PT!Unchanged
<1>16. CASE PT!DisableReads
  <2>1. policyDisabler' \in [at : {"idle", "read"}, policy : PT!Policies]
        /\ ~policyDisabler'.policy.enabled
    BY <1>16 DEF PT!DisableReads, PolicyInv, PT!Policies
  <2> QED BY <1>c, <1>16, <2>1 DEF PT!DisableReads, PolicyInv, PT!Unchanged
<1>17. CASE PT!DisableApplies
  <2>1. policyDisabler' \in [at : {"idle", "read"}, policy : PT!Policies]
        /\ ~policyDisabler'.policy.enabled
    BY <1>17 DEF PT!DisableApplies, PolicyInv
  <2>2. UNCHANGED <<policyWorker, policyCanceller, policyPermit>>
    BY <1>17 DEF PT!DisableApplies
  <2>3. CASE policyConf' = policyConf
    BY <1>c, <2>1, <2>2, <2>3 DEF PolicyInv, PT!Unchanged
  <2>4. CASE policyPermit = "free" /\ policyConf.last < MaxConf
             /\ PT!NewRevision(policyDisabler.policy)
    <3>1. policyDisabler.policy \in PT!Policies
      BY DEF PolicyInv
    <3>2. policyConf' \in [rev : PT!Marks, costs : PT!Marks, modeRev : PT!Marks, ai : BOOLEAN,
                           last : PT!Marks, policy : PT!Policies]
          /\ policyConf'.policy = policyDisabler.policy
      BY <2>4, <3>1, RevisionNew
    <3>3. PT!RankingIsCurrent
      BY <3>2 DEF PT!RankingIsCurrent, PolicyInv
    <3> QED BY <2>1, <2>2, <2>4, <3>2, <3>3 DEF PolicyInv
  <2> QED BY <1>17, <2>3, <2>4 DEF PT!DisableApplies
<1>18. CASE PT!ChangeConf
  <2>0. policyPermit = "free" /\ policyConf.last < MaxConf
        /\ UNCHANGED <<policyWorker, policyCanceller, policyDisabler, policyPermit>>
    BY <1>18 DEF PT!ChangeConf
  <2>1. policyConf' \in [rev : PT!Marks, costs : PT!Marks, modeRev : PT!Marks, ai : BOOLEAN,
                         last : PT!Marks, policy : PT!Policies]
        /\ policyConf'.policy = policyConf.policy
    <3>1. policyConf.policy \in PT!Policies /\ policyConf.last + 1 \in PT!Marks
      BY <2>0, PolicyAssumption DEF PolicyInv, PT!Marks
    <3>2. CASE PT!NewRevision(policyConf.policy)
      BY <2>0, <3>1, <3>2, RevisionNew
    <3>3. CASE ~PT!NewRevision(policyConf.policy)
      BY <1>18, <3>1, <3>3 DEF PT!ChangeConf, PolicyInv
    <3> QED BY <3>2, <3>3
  <2> QED BY <2>0, <2>1 DEF PolicyInv, PT!RankingIsCurrent
<1>19. CASE PT!ChangeMode
  <2>0. policyPermit = "free" /\ policyConf.last < MaxConf
        /\ UNCHANGED <<policyWorker, policyDisabler>>
    BY <1>19 DEF PT!ChangeMode
  <2>1. policyConf' \in [rev : PT!Marks, costs : PT!Marks, modeRev : PT!Marks, ai : BOOLEAN,
                         last : PT!Marks, policy : PT!Policies]
        /\ policyConf'.policy = policyConf.policy
    <3>1. policyConf.last + 1 \in PT!Marks
      BY <2>0, PolicyAssumption DEF PolicyInv, PT!Marks
    <3> QED BY <1>19, <3>1 DEF PT!ChangeMode, PolicyInv
  <2>2. policyCanceller' = "mode" => policyPermit' = "mode"
    BY <1>19 DEF PT!ChangeMode, PolicyInv
  <2>3. policyWorker.at \notin {"begun", "compare", "loading"}
    BY <2>0 DEF PolicyInv
  <2> QED BY <2>0, <2>1, <2>2, <2>3 DEF PolicyInv, PT!RankingIsCurrent
<1> QED BY <1>1, <1>2, <1>3, <1>4, <1>5, <1>6, <1>7, <1>8, <1>9, <1>10, <1>11, <1>12, <1>13,
           <1>14, <1>15, <1>16, <1>17, <1>18, <1>19
        DEF PT!PolicyNext, PT!WorkerSteps

(* The first state.                                                         *)
LEMMA PolicyStarts == PT!PolicyInit => PolicyInv
<1>1. 0 \in PT!Marks
  BY PolicyAssumption DEF PT!Marks
<1> QED BY <1>1 DEF PT!PolicyInit, PolicyInv, PT!Resting, PT!NoRanking, PT!Rankings, PT!Policies,
                    PT!Ends

(* A stutter.                                                               *)
LEMMA PolicyStutters ==
  ASSUME PolicyInv, UNCHANGED <<v1, v2, v3, v4, v5, v6, v7>>
  PROVE  PolicyInv'
BY DEF PolicyInv, PT!Unchanged

policyManager == v1
policyBench == v7
USE DEF policyManager, policyBench

(* The fields of the task and of its core.                                  *)
ManagerFields == [running : BOOLEAN, cancelled : BOOLEAN, late : BOOLEAN,
                  shown : PT!Ends \union {"Idle", "running"}]
BenchFields == [core : BOOLEAN, dir : BOOLEAN, left : BOOLEAN]
GenPermits == {"free", "start", "worker", "mode"}

(* A task that has not ended holds the running flag.                        *)
BenchInv ==
  /\ policyManager \in ManagerFields /\ policyBench \in BenchFields
  /\ policyCanceller \in {"idle", "user", "mode"} /\ policyPermit \in GenPermits
  /\ policyWorker.at # "idle" => policyManager.running
  /\ PT!BenchmarkHasTask

(* A task at work goes on or ends, with a core only while it probes.         *)
LEMMA BenchGoes ==
  ASSUME BenchInv, UNCHANGED <<policyManager, policyCanceller>>, policyPermit' \in GenPermits,
         policyBench' \in BenchFields, policyWorker.at \in PT!Working,
         policyWorker'.at \in PT!Working \union {"show"},
         policyBench'.core => policyWorker'.at \in {"ready", "checking", "bandwidth"}
  PROVE  BenchInv'
BY DEF BenchInv, PT!BenchmarkHasTask, PT!Working

(* A step that is none of the task.                                         *)
LEMMA BenchElsewhere ==
  ASSUME BenchInv, policyWorker' = policyWorker, policyBench' = policyBench,
         policyManager' \in ManagerFields, policyManager'.running = policyManager.running,
         policyManager'.shown = policyManager.shown,
         policyCanceller' \in {"idle", "user", "mode"}, policyPermit' \in GenPermits
  PROVE  BenchInv'
BY DEF BenchInv, PT!BenchmarkHasTask

(* The core that is dropped, with its directory.                            *)
LEMMA BenchDropped ==
  ASSUME BenchInv
  PROVE  /\ PT!Dropped \in BenchFields /\ ~PT!Dropped.core
         /\ [PT!Dropped EXCEPT !.left = TRUE] \in BenchFields
         /\ ~[PT!Dropped EXCEPT !.left = TRUE].core
BY DEF BenchInv, BenchFields, PT!Dropped

(* Every step: a benchmark core has its task, a task at work is shown.       *)
LEMMA BenchSteps ==
  ASSUME PolicyInv, BenchInv, PT!PolicyNext
  PROVE  BenchInv'
<1> USE DEF PT!At, PT!Goto
<1>0. /\ PT!Ends = {"Completed", "Failed", "Cancelled"} /\ PT!Ending = {"show", "free"}
      /\ PT!Working = {"load", "costs", "directory", "spawn", "ready", "checking", "bandwidth",
                       "ranked", "apply", "compare", "loading"}
  BY DEF PT!Ends, PT!Ending, PT!Working
<1>p. /\ policyPermit \in GenPermits /\ {"free", "worker", "start"} \subseteq GenPermits
      /\ policyBench \in BenchFields
      /\ policyWorker.at \in PT!Working =>
           (policyBench.core => policyWorker.at \in {"ready", "checking", "bandwidth"})
  BY DEF BenchInv, GenPermits, PT!BenchmarkHasTask
<1>g. ASSUME NEW p \in PT!Working \union PT!Ending,
             policyWorker' = [policyWorker EXCEPT !.at = p]
      PROVE  policyWorker'.at = p
  BY <1>0, <1>g, WorkerGoesOn
<1>l. ASSUME NEW how \in {"Failed", "Completed"}, PT!Leaves(how)
      PROVE  policyWorker'.at = "show"
  <2>1. PICK e \in PT!Ends : policyWorker' = [policyWorker EXCEPT !.at = "show", !.ended = e]
    BY <1>0, <1>l DEF PT!Leaves
  <2>2. "show" \in PT!Working \union PT!Ending \union {"idle", "begun"}
    BY <1>0
  <2> QED BY <2>1, <2>2, WorkerGoesOn
<1>f. ASSUME PT!Fails, policyWorker.at \in PT!Working, policyBench' \in BenchFields,
             ~policyBench'.core
      PROVE  BenchInv'
  <2>1. policyWorker'.at = "show" /\ UNCHANGED <<policyManager, policyCanceller, policyPermit>>
    BY <1>f, <1>l DEF PT!Fails
  <2> QED BY <1>f, <1>p, <2>1, BenchGoes
<1>u. ASSUME UNCHANGED <<policyManager, policyCanceller, policyPermit>>,
             policyWorker.at \in PT!Working, NEW p \in PT!Working,
             policyWorker' = [policyWorker EXCEPT !.at = p],
             policyBench' \in BenchFields,
             policyBench'.core => p \in {"ready", "checking", "bandwidth"}
      PROVE  BenchInv'
  <2>1. policyWorker'.at = p
    BY <1>g, <1>u
  <2> QED BY <1>p, <1>u, <2>1, BenchGoes
<1>1. CASE PT!Start
  <2>1. policyWorker' = [PT!Resting EXCEPT !.at = "begun", !.read.modeRev = policyConf.modeRev]
        /\ policyManager' = [policyManager EXCEPT !.running = TRUE] /\ policyPermit' = "start"
        /\ policyBench' = policyBench /\ policyCanceller' = policyCanceller
        /\ policyWorker.at = "idle"
    BY <1>1 DEF PT!Start
  <2>2. policyWorker'.at = "begun"
    BY <2>1 DEF PT!Resting
  <2>3. policyManager' \in ManagerFields /\ policyManager'.running
    BY <2>1 DEF BenchInv, ManagerFields
  <2>4. ~policyBench.core
    BY <2>1 DEF BenchInv, PT!BenchmarkHasTask
  <2> QED BY <1>0, <1>p, <2>1, <2>2, <2>3, <2>4 DEF BenchInv, PT!BenchmarkHasTask
<1>2. CASE PT!Begun
  <2>1. policyWorker.at = "begun" /\ policyWorker'.at = "load" /\ policyPermit' = "free"
        /\ policyManager' = [policyManager EXCEPT !.cancelled = FALSE, !.shown = "running"]
        /\ policyBench' = policyBench /\ policyCanceller' = policyCanceller
    BY <1>0, <1>2, <1>g DEF PT!Begun
  <2>2. policyManager' \in ManagerFields /\ policyManager'.running /\ policyManager'.shown = "running"
    BY <2>1 DEF BenchInv, ManagerFields
  <2>3. ~policyBench.core
    BY <2>1 DEF BenchInv, PT!BenchmarkHasTask
  <2> QED BY <1>p, <2>1, <2>2, <2>3 DEF BenchInv, PT!BenchmarkHasTask
<1>3. CASE PT!CancelBegins
  BY <1>3, <1>p, BenchElsewhere DEF PT!CancelBegins, BenchInv
<1>4. CASE PT!CancelStores
  <2>1. policyManager' \in ManagerFields /\ policyManager'.running = policyManager.running
        /\ policyManager'.shown = policyManager.shown
    BY <1>4 DEF PT!CancelStores, BenchInv, ManagerFields
  <2> QED BY <1>4, <1>p, <2>1, BenchElsewhere DEF PT!CancelStores
<1>5. CASE PT!Load \/ PT!Candidates
  <2>1. /\ policyWorker.at \in {"load", "costs"} /\ policyBench' = policyBench
        /\ UNCHANGED <<policyManager, policyCanceller, policyPermit>>
        /\ \/ policyWorker' = [policyWorker EXCEPT !.at = "costs", !.read.rev = policyConf.rev]
           \/ policyWorker' = [policyWorker EXCEPT !.at = "directory", !.read.costs = policyConf.costs]
    BY <1>5 DEF PT!Load, PT!Candidates
  <2>2. policyWorker'.at \in {"costs", "directory"}
    BY <2>1 DEF PolicyInv
  <2>3. ~policyBench.core
    BY <2>1 DEF BenchInv, PT!BenchmarkHasTask
  <2> QED BY <1>0, <1>p, <2>1, <2>2, <2>3, BenchGoes
<1>6. CASE PT!NoCandidates
  <2>1. ~policyBench.core
    BY <1>6 DEF BenchInv, PT!BenchmarkHasTask, PT!NoCandidates
  <2> QED BY <1>0, <1>6, <1>f, <1>p, <2>1 DEF PT!NoCandidates
<1>7. CASE PT!MakeDirectory
  <2>1. ~policyBench.core /\ policyWorker.at \in PT!Working
    BY <1>0, <1>7 DEF BenchInv, PT!BenchmarkHasTask, PT!MakeDirectory
  <2>2. /\ [policyBench EXCEPT !.dir = TRUE] \in BenchFields
        /\ ~[policyBench EXCEPT !.dir = TRUE].core
        /\ [policyBench EXCEPT !.left = TRUE] \in BenchFields
        /\ ~[policyBench EXCEPT !.left = TRUE].core
    BY <1>p, <2>1 DEF BenchFields
  <2>3. CASE PT!Goto("spawn") /\ policyBench' = [policyBench EXCEPT !.dir = TRUE]
             /\ UNCHANGED <<policyManager, policyCanceller, policyPermit>>
    BY <1>0, <1>u, <2>1, <2>2, <2>3
  <2>4. CASE policyBench' = [policyBench EXCEPT !.left = TRUE] /\ PT!Fails
    BY <1>f, <2>1, <2>2, <2>4
  <2> QED BY <1>7, <2>3, <2>4 DEF PT!MakeDirectory
<1>8. CASE PT!Spawn
  <2>1. policyWorker.at \in PT!Working
    BY <1>0, <1>8 DEF PT!Spawn
  <2>2. [policyBench EXCEPT !.core = TRUE] \in BenchFields
    BY <1>p DEF BenchFields
  <2>3. CASE PT!Goto("ready") /\ policyBench' = [policyBench EXCEPT !.core = TRUE]
             /\ UNCHANGED <<policyManager, policyCanceller, policyPermit>>
    BY <1>0, <1>u, <2>1, <2>2, <2>3
  <2>4. CASE policyBench' = [PT!Dropped EXCEPT !.left = TRUE] /\ PT!Fails
    BY <1>f, <2>1, <2>4, BenchDropped
  <2> QED BY <1>8, <2>3, <2>4 DEF PT!Spawn
<1>9. CASE PT!Ready \/ PT!Probed
  <2>1. policyWorker.at \in PT!Working
    BY <1>0, <1>9 DEF PT!Ready, PT!Probed
  <2>2. CASE policyBench' = PT!Dropped /\ PT!Fails
    BY <1>f, <2>1, <2>2, BenchDropped
  <2>3. CASE /\ PT!Goto("checking") \/ PT!Goto("bandwidth")
             /\ policyBench' = policyBench
             /\ UNCHANGED <<policyManager, policyCanceller, policyPermit>>
    BY <1>0, <1>p, <1>u, <2>1, <2>3
  <2>4. CASE /\ PT!Goto("ranked") /\ policyBench' = PT!Dropped
             /\ UNCHANGED <<policyManager, policyCanceller, policyPermit>>
    BY <1>0, <1>u, <2>1, <2>4, BenchDropped
  <2>5. CASE PT!Ready
    BY <2>2, <2>3, <2>5 DEF PT!Ready
  <2>6. CASE PT!Probed
    BY <2>2, <2>3, <2>4, <2>6 DEF PT!Probed
  <2> QED BY <1>9, <2>5, <2>6
<1>10. CASE PT!Ranked \/ PT!ApplyBegins \/ PT!Compare
  <2>1. policyWorker.at \in {"ranked", "apply", "compare"} /\ policyBench' = policyBench
        /\ UNCHANGED <<policyManager, policyCanceller>>
    BY <1>10 DEF PT!Ranked, PT!ApplyBegins, PT!Compare, PT!Fails
  <2>2. policyWorker.at \in PT!Working /\ ~policyBench.core
    BY <1>0, <2>1 DEF BenchInv, PT!BenchmarkHasTask
  <2>3. policyWorker'.at \in {"apply", "compare", "loading", "show"}
    BY <1>0, <1>10, <1>g, <1>l DEF PT!Ranked, PT!ApplyBegins, PT!Compare, PT!Fails
  <2>4. policyPermit' \in GenPermits
    BY <1>10, <1>p DEF PT!Ranked, PT!ApplyBegins, PT!Compare, PT!Fails, PT!Release
  <2> QED BY <1>0, <1>p, <2>1, <2>2, <2>3, <2>4, BenchGoes
<1>11. CASE PT!Applied \/ PT!TakenBack
  <2>1. /\ policyWorker.at = "loading" /\ policyBench' = policyBench
        /\ UNCHANGED <<policyManager, policyCanceller>> /\ policyPermit' = "free"
        /\ policyWorker'.at = "show"
    BY <1>11, <1>l DEF PT!Applied, PT!TakenBack, PT!Release
  <2>2. policyWorker.at \in PT!Working /\ ~policyBench.core
    BY <1>0, <2>1 DEF BenchInv, PT!BenchmarkHasTask
  <2> QED BY <1>p, <2>1, <2>2, BenchGoes
<1>12. CASE PT!FinishShows
  <2>1. policyWorker.at = "show" /\ policyWorker'.at = "free" /\ policyPermit' = policyPermit
        /\ policyManager' = [policyManager EXCEPT !.shown = policyWorker.ended]
        /\ policyBench' = policyBench /\ policyCanceller' = policyCanceller
    BY <1>0, <1>12, <1>g DEF PT!FinishShows
  <2>2. policyManager' \in ManagerFields /\ policyManager'.running
    BY <2>1 DEF BenchInv, PolicyInv, ManagerFields
  <2>3. ~policyBench.core
    BY <2>1 DEF BenchInv, PT!BenchmarkHasTask
  <2> QED BY <1>0, <1>p, <2>1, <2>2, <2>3 DEF BenchInv, PT!BenchmarkHasTask
<1>13. CASE PT!FinishFrees
  <2>1. policyWorker.at = "free" /\ policyWorker'.at = "idle" /\ policyPermit' = policyPermit
        /\ policyManager' = [policyManager EXCEPT !.running = FALSE, !.late = TRUE]
        /\ policyBench' = policyBench /\ policyCanceller' = policyCanceller
    BY <1>13 DEF PT!FinishFrees, PT!Resting
  <2>2. policyManager' \in ManagerFields
    BY <2>1 DEF BenchInv, ManagerFields
  <2>3. ~policyBench.core
    BY <2>1 DEF BenchInv, PT!BenchmarkHasTask
  <2> QED BY <1>0, <1>p, <2>1, <2>2, <2>3 DEF BenchInv, PT!BenchmarkHasTask
<1>14. CASE PT!FinishResets
  <2>1. policyManager' \in ManagerFields /\ policyManager'.running = policyManager.running
        /\ policyManager'.shown = policyManager.shown
    BY <1>14 DEF PT!FinishResets, BenchInv, ManagerFields
  <2> QED BY <1>14, <1>p, <2>1, BenchElsewhere DEF PT!FinishResets, BenchInv
<1>15. CASE PT!DisableReads \/ PT!DisableApplies \/ PT!ChangeConf
  <2>1. UNCHANGED <<policyManager, policyWorker, policyCanceller, policyPermit, policyBench>>
    BY <1>15 DEF PT!DisableReads, PT!DisableApplies, PT!ChangeConf
  <2> QED BY <1>p, <2>1, BenchElsewhere DEF BenchInv
<1>16. CASE PT!ChangeMode
  <2>1. /\ UNCHANGED <<policyManager, policyWorker, policyBench>>
        /\ policyPermit' \in {"mode", policyPermit}
        /\ policyCanceller' \in {"mode", policyCanceller}
    BY <1>16 DEF PT!ChangeMode
  <2> QED BY <2>1, BenchElsewhere DEF BenchInv, GenPermits
<1> QED BY <1>1, <1>2, <1>3, <1>4, <1>5, <1>6, <1>7, <1>8, <1>9, <1>10, <1>11, <1>12, <1>13,
           <1>14, <1>15, <1>16
        DEF PT!PolicyNext, PT!WorkerSteps

(* Before the first task there is no core.                                  *)
LEMMA BenchStarts == PT!PolicyInit => BenchInv
BY DEF PT!PolicyInit, BenchInv, PT!BenchmarkHasTask, PT!Resting, PT!Working, ManagerFields,
       BenchFields, GenPermits

(* A stutter of the task.                                                   *)
LEMMA BenchStutters ==
  ASSUME BenchInv, UNCHANGED <<v1, v2, v3, v4, v5, v6, v7>>
  PROVE  BenchInv'
BY DEF BenchInv, PT!BenchmarkHasTask

(* The types of a policy task follow from both.                             *)
LEMMA BenchHolds ==
  ASSUME PolicyInv, BenchInv
  PROVE  PT!PolicyTypeOK /\ PT!BenchmarkHasTask
BY DEF PolicyInv, BenchInv, ManagerFields, BenchFields, GenPermits, PT!PolicyTypeOK

HIDE DEF policyWorker, policyCanceller, policyDisabler, policyConf, policyPermit,
        policyManager, policyBench

-----------------------------------------------------------------------------
(* StabilityRound                                                          *)

userIntent == v1
aiGroupNow == v2
nodeHealth == v3
roundNow == v4
nodeChooser == v7
roundPermit == v8
USE DEF userIntent, aiGroupNow, nodeHealth, roundNow, nodeChooser, roundPermit

Wishes ==
  [rev : Nat, costRev : Nat, modeRev : Nat, ai : BOOLEAN, on : BOOLEAN,
   members : SUBSET Nodes, cheap : SUBSET Nodes, value : BOOLEAN,
   manual : Nodes \union {SR!None}, target : {"chatgpt", "api"}, server : [Nodes -> {0, 1}],
   last : Nat]
RoundSteps == {"idle", "asks", "probing", "live", "switch", "manual", "hold"}
Rounds ==
  [at : RoundSteps, rev : Nat, costRev : Nat, modeRev : Nat, members : SUBSET Nodes,
   allowed : SUBSET Nodes, value : BOOLEAN, target : {"chatgpt", "api"}, current : SR!Exits,
   same : BOOLEAN, manual : Nodes \union {SR!None}, choice : SR!Exits]

RoundTypes ==
  /\ userIntent \in Wishes
  /\ aiGroupNow \in [up : BOOLEAN, now : SR!Exits, selector : BOOLEAN]
  /\ roundNow \in Rounds
  /\ nodeChooser \in [at : {"idle", "send"}, node : Nodes \union {SR!None},
                      was : Nodes \union {SR!None}]

(* One of round and user has the permit.                                    *)
PermitInv ==
  /\ roundNow.at \in {"live", "switch", "hold"} => roundPermit = "tick"
  /\ nodeChooser.at = "send" => roundPermit = "user"

(* A revision names a ranking, and one of the costs a budget.               *)
RevisionInv ==
  /\ userIntent.rev <= userIntent.last /\ userIntent.costRev <= userIntent.last
  /\ roundNow.at # "idle" =>
       /\ roundNow.rev <= userIntent.last
       /\ roundNow.rev = userIntent.rev => roundNow.members = userIntent.members
  /\ roundNow.at \in {"probing", "live", "switch"} =>
       /\ roundNow.costRev <= userIntent.last
       /\ roundNow.allowed \subseteq roundNow.members
       /\ roundNow.costRev = userIntent.costRev => roundNow.allowed \subseteq userIntent.cheap

(* What a round has compared still holds when it selects.                   *)
ComparedInv ==
  /\ roundNow.at \in {"live", "switch"} =>
       /\ userIntent.ai /\ userIntent.on /\ roundNow.same /\ userIntent.manual = SR!None
       /\ roundNow.rev = userIntent.rev /\ roundNow.costRev = userIntent.costRev
  /\ roundNow.at = "hold" =>
       /\ userIntent.ai /\ userIntent.on /\ userIntent.manual = roundNow.manual
       /\ roundNow.rev = userIntent.rev
  /\ roundNow.at = "switch" => roundNow.choice \in roundNow.allowed \union {"REJECT"}

RoundInv == RoundTypes /\ PermitInv /\ RevisionInv /\ ComparedInv

(* The records of a round, field by field.                                  *)
RoundFields ==
  /\ userIntent.rev \in Nat /\ userIntent.costRev \in Nat /\ userIntent.modeRev \in Nat
  /\ userIntent.last \in Nat /\ userIntent.ai \in BOOLEAN /\ userIntent.on \in BOOLEAN
  /\ userIntent.members \in SUBSET Nodes /\ userIntent.cheap \in SUBSET Nodes
  /\ userIntent.manual \in Nodes \union {SR!None}
  /\ roundNow.at \in RoundSteps /\ roundNow.rev \in Nat /\ roundNow.costRev \in Nat
  /\ roundNow.members \in SUBSET Nodes /\ roundNow.allowed \in SUBSET Nodes
  /\ roundNow.manual \in Nodes \union {SR!None} /\ roundNow.same \in BOOLEAN

(* The typed records of the round, field by field.                          *)
LEMMA RoundFieldsTyped == RoundTypes => RoundFields
BY DEF RoundTypes, RoundFields, Wishes, Rounds

(* No round.                                                                *)
LEMMA NoRoundTyped == SR!NoRound \in Rounds /\ SR!NoRound.at = "idle"
BY DEF SR!NoRound, Rounds, RoundSteps, SR!Exits, SR!None

(* A round that ends, and one that begins or is at the same step as before. *)
RoundEnds ==
  /\ roundNow' = SR!NoRound /\ userIntent' = userIntent /\ nodeChooser' = nodeChooser
  /\ aiGroupNow' \in [up : BOOLEAN, now : SR!Exits, selector : BOOLEAN]
  /\ \/ roundPermit' = roundPermit
     \/ /\ roundPermit' = "free"
        /\ roundNow.at \in {"live", "switch", "hold"} \/ nodeChooser.at # "send"

(* The end of a round.                                                      *)
LEMMA RoundEndStep == ASSUME RoundInv, RoundEnds PROVE RoundInv'
<1>1. RoundTypes'
  BY NoRoundTyped DEF RoundInv, RoundTypes, RoundEnds
<1>2. PermitInv'
  BY NoRoundTyped DEF RoundInv, PermitInv, RoundEnds
<1>3. RevisionInv' /\ ComparedInv'
  BY NoRoundTyped DEF RoundInv, RevisionInv, ComparedInv, RoundEnds
<1> QED BY <1>1, <1>2, <1>3 DEF RoundInv

(* A change of the configuration, under no permit: what it makes new has a   *)
(* revision of its own.                                                     *)
NewWishes ==
  /\ userIntent' \in Wishes
  /\ userIntent'.last = userIntent.last + 1
  /\ \/ userIntent'.rev = userIntent'.last
     \/ userIntent'.rev = userIntent.rev /\ userIntent'.members = userIntent.members
  /\ \/ userIntent'.costRev = userIntent'.last
     \/ userIntent'.costRev = userIntent.costRev /\ userIntent'.cheap = userIntent.cheap
ConfigChanges ==
  /\ roundPermit = "free" /\ roundPermit' = "free" /\ UNCHANGED <<roundNow, nodeChooser>>
  /\ aiGroupNow' \in [up : BOOLEAN, now : SR!Exits, selector : BOOLEAN]
  /\ NewWishes

(* Such a change keeps the invariant of the round.                          *)
LEMMA ConfigStep == ASSUME RoundInv, ConfigChanges PROVE RoundInv'
<1> USE DEF NewWishes
<1>0. RoundFields
  BY RoundFieldsTyped DEF RoundInv
<1>1. RoundTypes'
  BY DEF RoundInv, RoundTypes, ConfigChanges
<1>2. roundNow.at \notin {"live", "switch", "hold"} /\ nodeChooser.at # "send"
  BY DEF RoundInv, PermitInv, ConfigChanges
<1>3. PermitInv' /\ ComparedInv'
  BY <1>2 DEF RoundInv, PermitInv, ComparedInv, ConfigChanges
<1>4. RevisionInv'
  BY <1>0, <1>2 DEF RoundInv, RevisionInv, ConfigChanges, RoundFields
<1> QED BY <1>1, <1>3, <1>4 DEF RoundInv

(* What a step leaves alone.                                                *)
RoundRests ==
  /\ UNCHANGED <<userIntent, roundNow, nodeChooser, roundPermit>>
  /\ aiGroupNow' \in [up : BOOLEAN, now : SR!Exits, selector : BOOLEAN]

(* A step that leaves the round and the permit as they are.                 *)
LEMMA RestStep == ASSUME RoundInv, RoundRests PROVE RoundInv'
BY DEF RoundInv, RoundTypes, PermitInv, RevisionInv, ComparedInv, RoundRests

(* Where the core's group goes when it is loaded anew.                      *)
LEMMA GroupReloaded ==
  ASSUME RoundTypes, userIntent' \in Wishes, SR!Reload(userIntent')
  PROVE  aiGroupNow' \in [up : BOOLEAN, now : SR!Exits, selector : BOOLEAN]
<1>1. PICK e \in (IF aiGroupNow.now \in {"REJECT"} \union userIntent'.members THEN {aiGroupNow.now}
                 ELSE {"REJECT"} \union userIntent'.members) :
         aiGroupNow' = [aiGroupNow EXCEPT !.now = e, !.selector = userIntent'.on /\ userIntent'.ai]
  BY DEF SR!Reload
<1>2. userIntent'.members \subseteq Nodes /\ userIntent'.on \in BOOLEAN /\ userIntent'.ai \in BOOLEAN
  BY DEF Wishes
<1>3. e \in SR!Exits
  BY <1>1, <1>2 DEF RoundTypes, SR!Exits
<1>4. (userIntent'.on /\ userIntent'.ai) \in BOOLEAN
  BY <1>2
<1> DEFINE on == userIntent'.on /\ userIntent'.ai
<1>5. aiGroupNow' = [aiGroupNow EXCEPT !.now = e, !.selector = on] /\ on \in BOOLEAN
  BY <1>1, <1>4
<1> HIDE DEF on
<1> QED BY <1>3, <1>5 DEF RoundTypes

(* The writers of the configuration.                                        *)
LEMMA WritersChange ==
  ASSUME RoundInv,
         \/ \E n \in Nodes : SR!Renew(n)
         \/ SR!Rank \/ SR!SaveCosts \/ SR!SetMode
  PROVE  ConfigChanges
<1> USE DEF SR!Changed
<1>0. RoundTypes /\ RoundFields /\ userIntent \in Wishes
  BY RoundFieldsTyped DEF RoundInv, RoundTypes
<1>p. /\ roundPermit = "free" /\ roundPermit' = "free" /\ UNCHANGED <<roundNow, nodeChooser>>
      /\ SR!Reload(userIntent')
  BY DEF SR!Renew, SR!Rank, SR!SaveCosts, SR!SetMode, SR!MayChange
<1>n. userIntent.last + 1 \in Nat
  BY <1>0 DEF RoundFields
<1>f. \A m \in SR!Fewer : m \in SUBSET Nodes
  BY DEF SR!Fewer
<1>w. NewWishes
  <2> USE DEF NewWishes
  <2>1. ASSUME NEW n \in Nodes, SR!Renew(n) PROVE NewWishes
    <3>1. userIntent' = [userIntent EXCEPT !.rev = userIntent.last + 1, !.last = userIntent.last + 1,
                                           !.server[n] = 1 - @]
      BY <2>1 DEF SR!Renew
    <3>2. [userIntent.server EXCEPT ![n] = 1 - @] \in [Nodes -> {0, 1}]
      BY <1>0 DEF Wishes
    <3> QED BY <1>0, <1>n, <3>1, <3>2 DEF Wishes
  <2>2. CASE SR!Rank
    <3>1. CASE \E m \in SR!Fewer :
                 userIntent' = [userIntent EXCEPT !.rev = userIntent.last + 1,
                                  !.last = userIntent.last + 1, !.members = m]
      <4>1. PICK m \in SUBSET Nodes :
              userIntent' = [userIntent EXCEPT !.rev = userIntent.last + 1,
                               !.last = userIntent.last + 1, !.members = m]
        BY <1>f, <3>1
      <4> QED BY <1>0, <1>n, <4>1 DEF Wishes
    <3>2. CASE userIntent' = [userIntent EXCEPT !.rev = userIntent.last + 1,
                                !.last = userIntent.last + 1, !.on = ~@]
      BY <1>0, <1>n, <3>2 DEF Wishes
    <3> QED BY <2>2, <3>1, <3>2 DEF SR!Rank
  <2>3. CASE SR!SaveCosts
    <3>1. CASE \E c \in SR!Fewer :
                 userIntent' = [userIntent EXCEPT !.costRev = userIntent.last + 1,
                                  !.last = userIntent.last + 1, !.value = TRUE, !.cheap = c]
      <4>1. PICK c \in SUBSET Nodes :
              userIntent' = [userIntent EXCEPT !.costRev = userIntent.last + 1,
                               !.last = userIntent.last + 1, !.value = TRUE, !.cheap = c]
        BY <1>f, <3>1
      <4> QED BY <1>0, <1>n, <4>1 DEF Wishes
    <3>2. CASE userIntent' = [userIntent EXCEPT !.costRev = userIntent.last + 1,
                                !.last = userIntent.last + 1, !.value = FALSE, !.cheap = Nodes]
      BY <1>0, <1>n, <3>2 DEF Wishes
    <3> QED BY <2>3, <3>1, <3>2 DEF SR!SaveCosts
  <2>4. CASE SR!SetMode
    <3>1. userIntent' = [userIntent EXCEPT !.ai = ~@, !.modeRev = userIntent.last + 1,
                                           !.last = userIntent.last + 1]
      BY <2>4 DEF SR!SetMode
    <3> QED BY <1>0, <1>n, <3>1 DEF Wishes
  <2> QED BY <2>1, <2>2, <2>3, <2>4
<1> QED BY <1>0, <1>p, <1>w, GroupReloaded DEF ConfigChanges, NewWishes

(* The steps of a round.                                                    *)
LEMMA RoundTicks ==
  ASSUME RoundInv,
         \/ SR!TickReads \/ SR!TickAsks \/ SR!TickUnanswered \/ SR!TickCompares
         \/ SR!TickChooses \/ SR!TickMoved \/ SR!Switch \/ SR!SwitchFails
         \/ SR!ManualCompares \/ SR!ManualHolds \/ SR!ManualFails
  PROVE  RoundInv'
<1> USE DEF SR!At, SR!Goto, SR!EndTick, SR!Free
<1>0. RoundTypes /\ RoundFields /\ PermitInv /\ RevisionInv /\ ComparedInv
  BY RoundFieldsTyped DEF RoundInv
<1>g. aiGroupNow \in [up : BOOLEAN, now : SR!Exits, selector : BOOLEAN]
  BY <1>0 DEF RoundTypes
<1>e. ASSUME roundNow' = SR!NoRound, UNCHANGED <<userIntent, nodeChooser, aiGroupNow>>,
             \/ roundPermit' = roundPermit
             \/ /\ roundPermit' = "free"
                /\ (roundNow.at \in {"live", "switch", "hold"} \/ roundPermit = "free")
      PROVE  RoundInv'
  <2>1. roundPermit = "free" => nodeChooser.at # "send"
    BY <1>0 DEF PermitInv
  <2> QED BY <1>e, <1>g, <2>1, RoundEndStep DEF RoundEnds
<1>f. ASSUME SR!TickFails \/ SR!TickIsStale,
             roundNow.at \in {"live", "switch", "hold"} \/ roundPermit = "free"
      PROVE  RoundInv'
  BY <1>e, <1>f DEF SR!TickFails, SR!TickIsStale
<1>a. ASSUME SR!Unasked PROVE RoundInv'
  BY <1>a, <1>e DEF SR!Unasked
<1>1. CASE SR!TickReads
  <2>0. UNCHANGED <<userIntent, aiGroupNow, nodeChooser, roundPermit>> /\ roundNow.at = "idle"
    BY <1>1 DEF SR!TickReads
  <2>1. CASE roundNow' = SR!NoRound
    BY <1>e, <2>0, <2>1
  <2>2. CASE roundNow' = roundNow
    BY <1>g, <2>0, <2>2, RestStep DEF RoundRests
  <2>3. CASE roundNow' = [SR!NoRound EXCEPT !.at = "asks", !.rev = userIntent.rev,
                            !.modeRev = userIntent.modeRev, !.members = userIntent.members,
                            !.target = userIntent.target]
    <3>1. PICK r \in Rounds : r = SR!NoRound
      BY NoRoundTyped
    <3>2. roundNow' = [r EXCEPT !.at = "asks", !.rev = userIntent.rev,
                         !.modeRev = userIntent.modeRev, !.members = userIntent.members,
                         !.target = userIntent.target]
      BY <2>3, <3>1
    <3>3. userIntent.target \in {"chatgpt", "api"}
      BY <1>0 DEF RoundTypes, Wishes
    <3>4. /\ roundNow' \in Rounds /\ roundNow'.at = "asks" /\ roundNow'.rev = userIntent.rev
          /\ roundNow'.members = userIntent.members
      BY <1>0, <3>2, <3>3 DEF Rounds, RoundFields, RoundSteps
    <3> QED BY <1>0, <2>0, <3>4 DEF RoundInv, RoundTypes, PermitInv, RevisionInv, ComparedInv
  <2> QED BY <1>1, <2>1, <2>2, <2>3 DEF SR!TickReads
<1>2. CASE SR!TickAsks
  <2> DEFINE step == IF userIntent.manual = SR!None THEN "probing" ELSE "manual"
             fit == IF Cardinality(roundNow.members) < 2 THEN {}
                    ELSE roundNow.members \intersect userIntent.cheap
  <2>0. UNCHANGED <<userIntent, aiGroupNow, nodeChooser, roundPermit>> /\ roundNow.at = "asks"
    BY <1>2 DEF SR!TickAsks
  <2>1. /\ fit \subseteq roundNow.members /\ fit \subseteq userIntent.cheap
        /\ fit \in SUBSET Nodes /\ step \in {"probing", "manual"}
    BY <1>0 DEF RoundFields
  <2>2. fit = IF SR!Cardinality(roundNow.members) < 2 THEN {}
              ELSE roundNow.members \intersect userIntent.cheap
    BY DEF SR!Cardinality, Cardinality
  <2>3. roundNow' = [roundNow EXCEPT !.at = step, !.current = aiGroupNow.now, !.same = TRUE,
                       !.manual = userIntent.manual, !.costRev = userIntent.costRev,
                       !.value = userIntent.value, !.allowed = fit]
    BY <1>2, <2>2 DEF SR!TickAsks
  <2>4. userIntent.value \in BOOLEAN /\ aiGroupNow.now \in SR!Exits
    BY <1>0 DEF RoundTypes, Wishes
  <2> HIDE DEF step, fit
  <2>5. /\ roundNow' \in Rounds /\ roundNow'.at = step /\ roundNow'.rev = roundNow.rev
        /\ roundNow'.members = roundNow.members /\ roundNow'.costRev = userIntent.costRev
        /\ roundNow'.allowed = fit
    BY <1>0, <2>1, <2>3, <2>4 DEF RoundTypes, Rounds, RoundFields, RoundSteps
  <2> QED BY <1>0, <2>0, <2>1, <2>5 DEF RoundInv, RoundTypes, PermitInv, RevisionInv, ComparedInv
<1>3. CASE SR!TickUnanswered
  BY <1>3, <1>a DEF SR!TickUnanswered
<1>4. CASE SR!TickCompares
  <2>1. CASE SR!StillCurrent /\ roundPermit' = "tick" /\ SR!Goto("live") /\ roundPermit = "free"
             /\ UNCHANGED <<userIntent, aiGroupNow, nodeChooser>>
    <3>0. roundNow.at = "probing"
      BY <1>4 DEF SR!TickCompares
    <3>1. /\ roundNow' \in Rounds /\ roundNow'.at = "live" /\ roundNow'.rev = roundNow.rev
          /\ roundNow'.members = roundNow.members /\ roundNow'.costRev = roundNow.costRev
          /\ roundNow'.allowed = roundNow.allowed /\ roundNow'.same = roundNow.same
      BY <1>0, <2>1 DEF RoundTypes, Rounds, RoundSteps
    <3>2. nodeChooser.at # "send"
      BY <1>0, <2>1 DEF PermitInv
    <3> QED BY <1>0, <2>1, <3>0, <3>1, <3>2
            DEF RoundInv, RoundTypes, PermitInv, RevisionInv, ComparedInv, SR!StillCurrent
  <2> QED BY <1>4, <1>a, <1>f, <2>1 DEF SR!TickCompares
<1>5. CASE SR!TickChooses
  <2>0. UNCHANGED <<userIntent, aiGroupNow, nodeChooser>> /\ roundNow.at = "live"
    BY <1>5 DEF SR!TickChooses
  <2>a. PICK failed \in SUBSET roundNow.allowed :
          \E passed \in SUBSET (roundNow.allowed \ failed) :
          \E of \in SR!Recorded(failed, passed) : \E c \in SR!Choices(of, failed, passed) :
            IF c = roundNow.current THEN SR!EndTick /\ SR!Free
            ELSE roundNow' = [roundNow EXCEPT !.at = "switch", !.choice = c]
                 /\ roundPermit' = roundPermit
    BY <1>5 DEF SR!TickChooses
  <2>1. PICK passed \in SUBSET (roundNow.allowed \ failed) :
          \E of \in SR!Recorded(failed, passed) : \E c \in SR!Choices(of, failed, passed) :
            IF c = roundNow.current THEN SR!EndTick /\ SR!Free
            ELSE roundNow' = [roundNow EXCEPT !.at = "switch", !.choice = c]
                 /\ roundPermit' = roundPermit
    BY <2>a
  <2>2. PICK of \in SR!Recorded(failed, passed) : \E c \in SR!Choices(of, failed, passed) :
            IF c = roundNow.current THEN SR!EndTick /\ SR!Free
            ELSE roundNow' = [roundNow EXCEPT !.at = "switch", !.choice = c]
                 /\ roundPermit' = roundPermit
    BY <2>1
  <2>3. PICK c \in SR!Choices(of, failed, passed) :
            IF c = roundNow.current THEN SR!EndTick /\ SR!Free
            ELSE roundNow' = [roundNow EXCEPT !.at = "switch", !.choice = c]
                 /\ roundPermit' = roundPermit
    BY <2>2
  <2>4. CASE c = roundNow.current
    BY <1>e, <2>0, <2>3, <2>4
  <2>5. CASE c # roundNow.current
    <3>1. c \in roundNow.allowed \union {"REJECT"}
      BY <2>5, <2>3 DEF SR!Choices
    <3>2. c \in SR!Exits
      BY <1>0, <3>1 DEF RoundFields, SR!Exits
    <3>3. roundNow' = [roundNow EXCEPT !.at = "switch", !.choice = c] /\ roundPermit' = roundPermit
      BY <2>3, <2>5
    <3>4. /\ roundNow' \in Rounds /\ roundNow'.at = "switch" /\ roundNow'.rev = roundNow.rev
          /\ roundNow'.members = roundNow.members /\ roundNow'.costRev = roundNow.costRev
          /\ roundNow'.allowed = roundNow.allowed /\ roundNow'.same = roundNow.same
          /\ roundNow'.choice = c
      BY <1>0, <3>2, <3>3 DEF RoundTypes, Rounds, RoundSteps
    <3> QED BY <1>0, <2>0, <3>1, <3>3, <3>4
            DEF RoundInv, RoundTypes, PermitInv, RevisionInv, ComparedInv
  <2> QED BY <2>4, <2>5
<1>6. CASE SR!TickMoved \/ SR!SwitchFails \/ SR!ManualFails
  BY <1>6, <1>f DEF SR!TickMoved, SR!SwitchFails, SR!ManualFails
<1>7. CASE SR!Switch
  <2>1. roundNow.choice \in SR!Exits
    BY <1>0 DEF RoundTypes, Rounds
  <2>2. aiGroupNow' \in [up : BOOLEAN, now : SR!Exits, selector : BOOLEAN]
    BY <1>7, <1>g, <2>1 DEF SR!Switch
  <2> QED BY <1>7, <2>2, RoundEndStep DEF SR!Switch, RoundEnds
<1>8. CASE SR!ManualCompares
  <2>1. CASE SR!Goto("hold") /\ roundPermit' = "tick" /\ roundPermit = "free"
             /\ userIntent.rev = roundNow.rev /\ userIntent.on /\ userIntent.manual = roundNow.manual
             /\ userIntent.ai /\ UNCHANGED <<userIntent, aiGroupNow, nodeChooser>>
    <3>0. roundNow.at = "manual"
      BY <1>8 DEF SR!ManualCompares
    <3>1. /\ roundNow' \in Rounds /\ roundNow'.at = "hold" /\ roundNow'.rev = roundNow.rev
          /\ roundNow'.members = roundNow.members /\ roundNow'.manual = roundNow.manual
      BY <1>0, <2>1 DEF RoundTypes, Rounds, RoundSteps
    <3>2. nodeChooser.at # "send"
      BY <1>0, <2>1 DEF PermitInv
    <3> QED BY <1>0, <2>1, <3>0, <3>1, <3>2
            DEF RoundInv, RoundTypes, PermitInv, RevisionInv, ComparedInv
  <2>2. CASE SR!EndTick /\ UNCHANGED <<roundPermit, userIntent, aiGroupNow, nodeChooser>>
    BY <1>e, <2>2
  <2> QED BY <1>8, <1>a, <1>f, <2>1, <2>2 DEF SR!ManualCompares
<1>9. CASE SR!ManualHolds
  <2>1. PICK exit \in {roundNow.manual, "REJECT"} :
          /\ exit = IF roundNow.manual \in roundNow.members \intersect userIntent.cheap
                    THEN roundNow.manual ELSE "REJECT"
          /\ aiGroupNow' = [aiGroupNow EXCEPT !.now = exit]
    BY <1>9 DEF SR!ManualHolds
  <2>2. exit \in SR!Exits
    BY <1>0, <2>1 DEF RoundFields, SR!Exits
  <2>3. aiGroupNow' \in [up : BOOLEAN, now : SR!Exits, selector : BOOLEAN]
    BY <1>g, <2>1, <2>2
  <2> QED BY <1>9, <2>3, RoundEndStep DEF SR!ManualHolds, RoundEnds
<1> QED BY <1>1, <1>2, <1>3, <1>4, <1>5, <1>6, <1>7, <1>8, <1>9

(* The choice of the user, under the permit.                                *)
LEMMA UserSteps ==
  ASSUME RoundInv,
         \/ \E n \in Nodes \union {SR!None} : SR!Select(n)
         \/ SR!SelectSent \/ SR!SelectRefused
  PROVE  RoundInv'
<1> USE DEF SR!Free
<1>0. RoundTypes /\ RoundFields /\ PermitInv /\ RevisionInv /\ ComparedInv
  BY RoundFieldsTyped DEF RoundInv
<1>p. roundNow.at \notin {"live", "switch", "hold"} /\ roundNow' = roundNow
  BY <1>0 DEF SR!Select, SR!SelectSent, SR!SelectRefused, PermitInv
<1>c. nodeChooser.node \in Nodes \union {SR!None} /\ nodeChooser.was \in Nodes \union {SR!None}
  BY <1>0 DEF RoundTypes
<1>n. SR!NoChoice \in [at : {"idle", "send"}, node : Nodes \union {SR!None},
                      was : Nodes \union {SR!None}] /\ SR!NoChoice.at = "idle"
  BY DEF SR!NoChoice
<1>m. ASSUME NEW m \in Nodes \union {SR!None}, userIntent' = [userIntent EXCEPT !.manual = m]
      PROVE  /\ userIntent' \in Wishes /\ userIntent'.rev = userIntent.rev
             /\ userIntent'.costRev = userIntent.costRev /\ userIntent'.last = userIntent.last
             /\ userIntent'.members = userIntent.members /\ userIntent'.cheap = userIntent.cheap
  BY <1>0, <1>m DEF RoundTypes, Wishes
<1>x. ASSUME NEW x \in SR!Exits, aiGroupNow' = [aiGroupNow EXCEPT !.now = x]
      PROVE  aiGroupNow' \in [up : BOOLEAN, now : SR!Exits, selector : BOOLEAN]
  BY <1>0, <1>x DEF RoundTypes
<1>1. ASSUME NEW n \in Nodes \union {SR!None}, SR!Select(n) PROVE RoundInv'
  <2>1. /\ userIntent' = [userIntent EXCEPT !.manual = n] /\ roundPermit' = "user"
        /\ nodeChooser' = [at |-> "send", node |-> n, was |-> userIntent.manual]
        /\ aiGroupNow' = aiGroupNow
    BY <1>1 DEF SR!Select
  <2>2. nodeChooser' \in [at : {"idle", "send"}, node : Nodes \union {SR!None},
                         was : Nodes \union {SR!None}]
    BY <1>0, <2>1 DEF RoundFields
  <2> QED BY <1>0, <1>m, <1>p, <2>1, <2>2
          DEF RoundInv, RoundTypes, PermitInv, RevisionInv, ComparedInv
<1>2. CASE SR!SelectSent
  <2>1. /\ userIntent' = userIntent /\ nodeChooser' = SR!NoChoice
        /\ aiGroupNow' = IF nodeChooser.node = SR!None THEN aiGroupNow
                         ELSE [aiGroupNow EXCEPT !.now = nodeChooser.node]
    BY <1>2 DEF SR!SelectSent
  <2>2. aiGroupNow' \in [up : BOOLEAN, now : SR!Exits, selector : BOOLEAN]
    <3>1. nodeChooser.node # SR!None => nodeChooser.node \in SR!Exits
      BY <1>c DEF SR!Exits
    <3> QED BY <1>0, <1>x, <2>1, <3>1 DEF RoundTypes
  <2> QED BY <1>0, <1>n, <1>p, <2>1, <2>2
          DEF RoundInv, RoundTypes, PermitInv, RevisionInv, ComparedInv
<1>3. CASE SR!SelectRefused
  <2>1. /\ userIntent' = [userIntent EXCEPT !.manual = nodeChooser.was]
        /\ nodeChooser' = SR!NoChoice /\ nodeChooser.node # SR!None
        /\ aiGroupNow' = aiGroupNow \/ aiGroupNow' = [aiGroupNow EXCEPT !.now = nodeChooser.node]
    BY <1>3 DEF SR!SelectRefused
  <2>2. aiGroupNow' \in [up : BOOLEAN, now : SR!Exits, selector : BOOLEAN]
    <3>1. nodeChooser.node \in SR!Exits
      BY <1>c, <2>1 DEF SR!Exits
    <3> QED BY <1>0, <1>x, <2>1, <3>1 DEF RoundTypes
  <2> QED BY <1>0, <1>c, <1>m, <1>n, <1>p, <2>1, <2>2
          DEF RoundInv, RoundTypes, PermitInv, RevisionInv, ComparedInv
<1> QED BY <1>1, <1>2, <1>3

(* The target, the core, the requests.                                      *)
LEMMA WorldSteps ==
  ASSUME RoundInv,
         \/ SR!SetTarget \/ SR!CoreStops \/ SR!CoreRestarts \/ SR!Observe
         \/ \E n \in Nodes : SR!Cooled(n)
         \/ \E c \in BOOLEAN : SR!ObservationEnds(c)
  PROVE  RoundInv'
<1>0. RoundTypes /\ RoundFields /\ PermitInv /\ RevisionInv /\ ComparedInv
  BY RoundFieldsTyped DEF RoundInv
<1>1. CASE SR!SetTarget
  <2>0. userIntent.last + 1 \in Nat
    BY <1>0 DEF RoundFields
  <2>1. PICK t \in {"chatgpt", "api"} :
          userIntent' = [userIntent EXCEPT !.target = t, !.last = userIntent.last + 1]
    BY <1>1 DEF SR!SetTarget, SR!Changed
  <2>2. /\ userIntent' \in Wishes /\ userIntent'.rev = userIntent.rev
        /\ userIntent'.costRev = userIntent.costRev /\ userIntent'.last = userIntent.last + 1
        /\ userIntent'.members = userIntent.members /\ userIntent'.cheap = userIntent.cheap
        /\ userIntent'.ai = userIntent.ai /\ userIntent'.on = userIntent.on
        /\ userIntent'.manual = userIntent.manual
    BY <1>0, <2>0, <2>1 DEF RoundTypes, Wishes
  <2>3. UNCHANGED <<aiGroupNow, roundNow, nodeChooser, roundPermit>>
    BY <1>1 DEF SR!SetTarget
  <2> QED BY <1>0, <2>2, <2>3
          DEF RoundInv, RoundTypes, RoundFields, PermitInv, RevisionInv, ComparedInv
<1>2. CASE SR!CoreStops
  BY <1>0, <1>2, RestStep DEF SR!CoreStops, RoundRests, RoundTypes
<1>3. CASE SR!CoreRestarts
  <2>1. PICK b \in BOOLEAN : roundNow' = [roundNow EXCEPT !.same = b]
    BY <1>3 DEF SR!CoreRestarts, SR!At
  <2>2. /\ roundNow' \in Rounds /\ roundNow'.at = roundNow.at /\ roundNow'.rev = roundNow.rev
        /\ roundNow'.members = roundNow.members /\ roundNow'.costRev = roundNow.costRev
        /\ roundNow'.allowed = roundNow.allowed
    BY <1>0, <2>1 DEF RoundTypes, Rounds
  <2>3. roundPermit = "free" /\ UNCHANGED <<userIntent, nodeChooser, roundPermit>>
        /\ aiGroupNow' \in [up : BOOLEAN, now : SR!Exits, selector : BOOLEAN]
    BY <1>0, <1>3 DEF SR!CoreRestarts, RoundTypes
  <2> QED BY <1>0, <2>2, <2>3 DEF RoundInv, RoundTypes, PermitInv, RevisionInv, ComparedInv
<1>4. ASSUME UNCHANGED <<userIntent, aiGroupNow, roundNow, nodeChooser, roundPermit>> PROVE RoundInv'
  BY <1>0, <1>4, RestStep DEF RoundRests, RoundTypes
<1> QED BY <1>1, <1>2, <1>3, <1>4 DEF SR!Observe, SR!Cooled, SR!ObservationEnds

(* Every step keeps the invariant.                                          *)
LEMMA RoundKept ==
  ASSUME RoundInv, SR!StabilityNext
  PROVE  RoundInv'
BY RoundTicks, UserSteps, WorldSteps, WritersChange, ConfigStep DEF SR!StabilityNext, SR!OtherSteps

(* The first state.                                                         *)
LEMMA RoundStarts == SR!StabilityInit => RoundInv
<1> SUFFICES ASSUME SR!StabilityInit PROVE RoundInv
  OBVIOUS
<1>1. userIntent \in Wishes
  BY DEF SR!StabilityInit, Wishes
<1>2. nodeChooser \in [at : {"idle", "send"}, node : Nodes \union {SR!None},
                      was : Nodes \union {SR!None}] /\ nodeChooser.at = "idle"
  BY DEF SR!StabilityInit, SR!NoChoice
<1>3. aiGroupNow \in [up : BOOLEAN, now : SR!Exits, selector : BOOLEAN]
  BY DEF SR!StabilityInit, SR!Exits
<1>4. roundNow \in Rounds /\ roundNow.at = "idle"
  BY NoRoundTyped DEF SR!StabilityInit
<1>5. userIntent.rev = 0 /\ userIntent.costRev = 0 /\ userIntent.last = 0
  BY DEF SR!StabilityInit
<1> QED BY <1>1, <1>2, <1>3, <1>4, <1>5
        DEF RoundInv, RoundTypes, PermitInv, RevisionInv, ComparedInv

(* A stutter.                                                               *)
LEMMA RoundStutters ==
  ASSUME RoundInv, UNCHANGED <<v1, v2, v3, v4, v5, v6, v7, v8>>
  PROVE  RoundInv'
BY DEF RoundInv, RoundTypes, PermitInv, RevisionInv, ComparedInv

(* An exit is selected by what is configured.                               *)
LEMMA RoundIsCurrent ==
  ASSUME RoundInv, SR!StabilityNext
  PROVE  SR!SwitchIsCurrent
<1>0. RoundTypes /\ RoundFields /\ PermitInv /\ RevisionInv /\ ComparedInv
  BY RoundFieldsTyped DEF RoundInv
<1>1. CASE SR!Switch
  <2>1. roundNow.at = "switch" /\ aiGroupNow'.now = roundNow.choice
    BY <1>0, <1>1 DEF SR!Switch, SR!At, RoundTypes
  <2> QED BY <1>0, <2>1 DEF SR!SwitchIsCurrent, RevisionInv, ComparedInv
<1>2. CASE SR!ManualHolds
  <2>1. /\ roundNow.at = "hold"
        /\ aiGroupNow'.now = IF roundNow.manual \in roundNow.members \intersect userIntent.cheap
                             THEN roundNow.manual ELSE "REJECT"
    BY <1>0, <1>2 DEF SR!ManualHolds, SR!At, RoundTypes
  <2> QED BY <1>0, <2>1 DEF SR!SwitchIsCurrent, RevisionInv, ComparedInv
<1>3. CASE ~(SR!Switch \/ SR!ManualHolds) /\ roundNow.at \in {"switch", "hold"}
  <2>1. roundPermit = "tick" /\ nodeChooser.at # "send"
    BY <1>0, <1>3 DEF PermitInv
  <2>2. aiGroupNow'.now = aiGroupNow.now
    BY <1>0, <1>3, <2>1
       DEF SR!StabilityNext, SR!OtherSteps, SR!Observe, SR!TickReads, SR!Cooled, SR!Renew,
           SR!ObservationEnds, SR!TickAsks, SR!TickUnanswered, SR!Unasked, SR!TickCompares,
           SR!TickChooses, SR!TickMoved, SR!TickFails, SR!TickIsStale, SR!SwitchFails,
           SR!ManualCompares, SR!ManualFails, SR!Select, SR!SelectSent, SR!SelectRefused,
           SR!Rank, SR!SaveCosts, SR!SetMode, SR!SetTarget, SR!CoreStops, SR!CoreRestarts,
           SR!MayChange, RoundTypes
  <2> QED BY <2>2 DEF SR!SwitchIsCurrent
<1>4. CASE roundNow.at \notin {"switch", "hold"}
  BY <1>4 DEF SR!SwitchIsCurrent
<1> QED BY <1>1, <1>2, <1>3, <1>4

(* The histories of the nodes.                                              *)
Histories == [fails : Nat, cool : Nat]
HealthInv ==
  nodeHealth \in [rev : Nat, current : SR!Exits \union {SR!None}, of : [Nodes -> Histories],
                 running : BOOLEAN, target : {"chatgpt", "api"}, server : [Nodes -> {0, 1}]]

(* A step that leaves the histories alone, whatever else it changes.         *)
HealthRests == HealthInv' /\ nodeHealth'.of = nodeHealth.of

(* A step that leaves every history as it is.                               *)
LEMMA HealthRestStep == HealthRests => HealthInv' /\ SR!CooldownIsKept
BY DEF HealthRests, SR!CooldownIsKept

(* A failed node that is cooling stays so, whatever its probes and requests  *)
(* say.                                                                     *)
LEMMA CoolingStays ==
  ASSUME NEW h \in Histories
  PROVE  /\ SR!Counted(h) \in Histories /\ SR!Completed(h) \in Histories
         /\ SR!Failed(h) \in Histories /\ SR!Unverified(h) \in Histories
         /\ SR!Passed(h) \subseteq Histories
         /\ h.cool = SR!Cooling =>
              /\ SR!Counted(h).cool = SR!Cooling /\ SR!Completed(h).cool = SR!Cooling
              /\ SR!Failed(h).cool = SR!Cooling /\ SR!Unverified(h).cool = SR!Cooling
              /\ \A x \in SR!Passed(h) : x.cool = SR!Cooling
<1>0. SR!Cooling \in Nat /\ ~(SR!Cooling <= Recovery) /\ ~(SR!Cooling < Recovery)
  BY StabilityAssumption DEF SR!Cooling
<1>1. SR!Counted(h) \in Histories /\ (h.cool = SR!Cooling => SR!Counted(h).cool = SR!Cooling)
  BY <1>0 DEF SR!Counted, Histories
<1>2. SR!Completed(h) \in Histories /\ SR!Completed(h).cool = SR!Counted(h).cool
  BY <1>1 DEF SR!Completed, Histories
<1>3. /\ SR!Failed(h) \in Histories
      /\ h.cool = SR!Cooling => SR!Failed(h).cool = SR!Cooling
  BY <1>0 DEF SR!Failed, Histories
<1>4. /\ SR!Unverified(h) \in Histories
      /\ h.cool = SR!Cooling => SR!Unverified(h).cool = SR!Cooling
  BY <1>0 DEF SR!Unverified, Histories
<1> QED BY <1>1, <1>2, <1>3, <1>4 DEF SR!Passed

(* The end of an observation, and of a cooldown.                             *)
LEMMA HealthOfRequests ==
  ASSUME HealthInv,
         \/ \E n \in Nodes : SR!Cooled(n)
         \/ \E c \in BOOLEAN : SR!ObservationEnds(c)
  PROVE  HealthInv' /\ SR!CooldownIsKept
<1>1. ASSUME NEW n \in Nodes, SR!Cooled(n) PROVE HealthInv' /\ SR!CooldownIsKept
  <2>1. nodeHealth' = [nodeHealth EXCEPT !.of[n].cool = 0]
    BY <1>1 DEF SR!Cooled
  <2>2. nodeHealth.of[n] \in Histories
    BY DEF HealthInv
  <2>3. /\ [nodeHealth.of[n] EXCEPT !.cool = 0] \in Histories
        /\ [nodeHealth.of[n] EXCEPT !.cool = 0].cool = 0
        /\ [nodeHealth.of[n] EXCEPT !.cool = 0].fails = nodeHealth.of[n].fails
    BY <2>2 DEF Histories
  <2> DEFINE new == [nodeHealth.of[n] EXCEPT !.cool = 0]
  <2>4. nodeHealth' = [nodeHealth EXCEPT !.of[n] = new]
    BY <2>1
  <2> HIDE DEF new
  <2>5. /\ HealthInv' /\ nodeHealth'.of = [nodeHealth.of EXCEPT ![n] = new]
    BY <2>3, <2>4 DEF HealthInv, new
  <2> QED BY <2>3, <2>5 DEF HealthInv, SR!CooldownIsKept, new
<1>2. ASSUME NEW c \in BOOLEAN, SR!ObservationEnds(c) PROVE HealthInv' /\ SR!CooldownIsKept
  <2> DEFINE w == v5.node
  <2>1. CASE nodeHealth' = nodeHealth
    BY <2>1, HealthRestStep DEF HealthRests, HealthInv
  <2>2. CASE nodeHealth' = [nodeHealth EXCEPT !.of[w] = IF c THEN SR!Completed(@)
                                                        ELSE SR!Failed(@)]
    <3>1. ASSUME w \in Nodes PROVE HealthInv' /\ SR!CooldownIsKept
      <4> DEFINE new == IF c THEN SR!Completed(nodeHealth.of[w]) ELSE SR!Failed(nodeHealth.of[w])
      <4>1. nodeHealth.of[w] \in Histories
        BY <3>1 DEF HealthInv
      <4>2. /\ new \in Histories
            /\ nodeHealth.of[w].cool = SR!Cooling => new.cool = SR!Cooling
        BY <4>1, CoolingStays
      <4>3. nodeHealth' = [nodeHealth EXCEPT !.of[w] = new]
        BY <2>2
      <4> HIDE DEF new
      <4>4. HealthInv' /\ nodeHealth'.of = [nodeHealth.of EXCEPT ![w] = new]
        BY <3>1, <4>2, <4>3 DEF HealthInv
      <4> QED BY <3>1, <4>2, <4>4 DEF HealthInv, SR!CooldownIsKept
    <3>2. ASSUME w \notin Nodes PROVE HealthInv' /\ SR!CooldownIsKept
      <4>1. nodeHealth' = [nodeHealth EXCEPT !.of = [nodeHealth.of EXCEPT ![w] =
                             IF c THEN SR!Completed(@) ELSE SR!Failed(@)]]
        BY <2>2
      <4>2. [nodeHealth.of EXCEPT ![w] = IF c THEN SR!Completed(@) ELSE SR!Failed(@)]
              = nodeHealth.of
        BY <3>2 DEF HealthInv
      <4> QED BY <4>1, <4>2, HealthRestStep DEF HealthRests, HealthInv
    <3> QED BY <3>1, <3>2
  <2> QED BY <1>2, <2>1, <2>2 DEF SR!ObservationEnds
<1> QED BY <1>1, <1>2

(* A round that begins: what is kept, and of what.                           *)
LEMMA HealthOfReading ==
  ASSUME RoundInv, HealthInv, SR!TickReads
  PROVE  HealthInv' /\ SR!CooldownIsKept
<1>0. userIntent \in Wishes
  BY DEF RoundInv, RoundTypes
<1>1. CASE nodeHealth' = SR!Reconciled
  <2> DEFINE of == [n \in Nodes |->
                      IF SR!Kept(n) /\ nodeHealth.target = userIntent.target
                           /\ n \in userIntent.members
                        THEN nodeHealth.of[n] ELSE SR!Fresh]
             last == IF nodeHealth.rev = userIntent.rev THEN nodeHealth.current ELSE SR!None
  <2>1. SR!Fresh \in Histories
    BY StabilityAssumption DEF SR!Fresh, SR!Never, Histories
  <2>2. of \in [Nodes -> Histories]
    BY <2>1 DEF HealthInv
  <2>3. last \in SR!Exits \union {SR!None}
    BY DEF HealthInv
  <2>4. nodeHealth' = [rev |-> userIntent.rev, server |-> userIntent.server,
                       target |-> userIntent.target, current |-> last, running |-> FALSE,
                       of |-> of]
    BY <1>1 DEF SR!Reconciled
  <2>5. \A n \in Nodes : of[n] # nodeHealth.of[n] =>
          \/ n \notin userIntent.members
          \/ nodeHealth.server[n] # userIntent.server[n] \/ nodeHealth.target # userIntent.target
    BY DEF SR!Kept
  <2> HIDE DEF of, last
  <2>6. HealthInv' /\ nodeHealth'.of = of
    BY <1>0, <2>2, <2>3, <2>4 DEF HealthInv, Wishes
  <2> QED BY <2>5, <2>6 DEF SR!CooldownIsKept
<1>2. CASE nodeHealth' = [nodeHealth EXCEPT !.running = FALSE]
  BY <1>2, HealthRestStep DEF HealthRests, HealthInv
<1> QED BY <1>1, <1>2 DEF SR!TickReads, SR!Invalidate, SR!Quiet

(* A round that chooses records what its probes have seen.                   *)
LEMMA HealthOfProbes ==
  ASSUME HealthInv, SR!TickChooses
  PROVE  HealthInv' /\ SR!CooldownIsKept
<1>a. PICK failed \in SUBSET roundNow.allowed :
        \E passed \in SUBSET (roundNow.allowed \ failed) :
          \E of \in SR!Recorded(failed, passed) : nodeHealth' = [nodeHealth EXCEPT !.of = of]
  BY DEF SR!TickChooses
<1>b. PICK passed \in SUBSET (roundNow.allowed \ failed) :
        \E of \in SR!Recorded(failed, passed) : nodeHealth' = [nodeHealth EXCEPT !.of = of]
  BY <1>a
<1>c. PICK of \in SR!Recorded(failed, passed) : nodeHealth' = [nodeHealth EXCEPT !.of = of]
  BY <1>b
<1>1. of \in [Nodes -> SR!Healths]
  BY <1>c DEF SR!Recorded
<1>2. SR!Healths \subseteq Histories
  BY StabilityAssumption DEF SR!Healths, Histories, SR!Never
<1>3. HealthInv' /\ nodeHealth'.of = of
  BY <1>c, <1>1, <1>2 DEF HealthInv
<1>4. ASSUME NEW n \in Nodes, nodeHealth.of[n].cool = SR!Cooling
      PROVE  of[n].cool = SR!Cooling
  <2>1. nodeHealth.of[n] \in Histories
    BY DEF HealthInv
  <2>2. \/ of[n] = nodeHealth.of[n] \/ of[n] \in SR!Passed(nodeHealth.of[n])
        \/ of[n] = SR!Failed(nodeHealth.of[n]) \/ of[n] = SR!Unverified(nodeHealth.of[n])
    BY <1>c DEF SR!Recorded
  <2> QED BY <1>4, <2>1, <2>2, CoolingStays
<1> QED BY <1>3, <1>4 DEF SR!CooldownIsKept

(* Every step keeps a cooldown.                                             *)
LEMMA HealthSteps ==
  ASSUME RoundInv, HealthInv, SR!StabilityNext
  PROVE  HealthInv' /\ SR!CooldownIsKept
<1>1. CASE nodeHealth' = nodeHealth \/ nodeHealth' = [nodeHealth EXCEPT !.running = FALSE]
  BY <1>1, HealthRestStep DEF HealthRests, HealthInv
<1>2. CASE SR!TickAsks \/ SR!Switch \/ SR!ManualHolds
  <2>1. PICK now \in SR!Exits, on \in BOOLEAN :
          \/ nodeHealth' = nodeHealth
          \/ nodeHealth' = [nodeHealth EXCEPT !.running = on, !.current = now]
          \/ nodeHealth' = [nodeHealth EXCEPT !.current = now]
    <3>1. CASE SR!TickAsks
      <4>1. aiGroupNow.now \in SR!Exits
        BY DEF RoundInv, RoundTypes
      <4> QED BY <3>1, <4>1 DEF SR!TickAsks
    <3>2. CASE SR!Switch
      <4>1. roundNow.choice \in SR!Exits
        BY DEF RoundInv, RoundTypes, Rounds
      <4> QED BY <3>2, <4>1 DEF SR!Switch
    <3>3. CASE SR!ManualHolds
      <4>1. roundNow.members \subseteq Nodes
        BY DEF RoundInv, RoundTypes, Rounds
      <4>2. PICK exit \in {roundNow.manual, "REJECT"} :
              /\ exit = IF roundNow.manual \in roundNow.members \intersect userIntent.cheap
                        THEN roundNow.manual ELSE "REJECT"
              /\ nodeHealth' = [nodeHealth EXCEPT !.current = exit, !.running = FALSE]
        BY <3>3 DEF SR!ManualHolds
      <4>3. exit \in SR!Exits
        BY <4>1, <4>2 DEF SR!Exits
      <4> QED BY <4>2, <4>3
    <3> QED BY <1>2, <3>1, <3>2, <3>3
  <2> QED BY <2>1, HealthRestStep DEF HealthRests, HealthInv
<1>3. CASE \/ \E n \in Nodes : SR!Cooled(n)
           \/ \E c \in BOOLEAN : SR!ObservationEnds(c)
  BY <1>3, HealthOfRequests
<1>4. CASE SR!TickReads
  BY <1>4, HealthOfReading
<1>5. CASE SR!TickChooses
  BY <1>5, HealthOfProbes
<1> QED BY <1>1, <1>2, <1>3, <1>4, <1>5
        DEF SR!StabilityNext, SR!OtherSteps, SR!Observe, SR!Renew, SR!TickUnanswered, SR!Unasked,
            SR!TickCompares, SR!TickMoved, SR!TickFails, SR!TickIsStale, SR!SwitchFails,
            SR!ManualCompares, SR!ManualFails, SR!Select, SR!SelectSent, SR!SelectRefused,
            SR!Rank, SR!SaveCosts, SR!SetMode, SR!SetTarget, SR!CoreStops, SR!CoreRestarts,
            SR!Invalidate, SR!Quiet

(* The histories at the start, and in a stutter.                             *)
LEMMA HealthStarts == SR!StabilityInit => HealthInv
<1> SUFFICES ASSUME SR!StabilityInit PROVE HealthInv
  OBVIOUS
<1>1. SR!Fresh \in Histories
  BY StabilityAssumption DEF SR!Fresh, SR!Never, Histories
<1>2. SR!Unseen \in [Nodes -> Histories]
  BY <1>1 DEF SR!Unseen
<1> QED BY <1>2 DEF SR!StabilityInit, HealthInv, SR!None

(* A step of another component leaves the histories as they are.            *)
LEMMA HealthStutters == HealthInv /\ v3' = v3 => HealthInv'
BY DEF HealthInv

HIDE DEF userIntent, aiGroupNow, nodeHealth, roundNow, nodeChooser, roundPermit

-----------------------------------------------------------------------------
(* SubscriptionFetch                                                       *)

fetchPlan == v2
fetchCall == v3
fetchNow == v5
fetchSent == v6
fetchStopped == v7
USE DEF fetchPlan, fetchCall, fetchNow, fetchSent, fetchStopped

FetchCalls ==
  [at : {"check", "sent", "body", "pause", "end"}, since : Nat, until : Nat, hops : Nat,
   url : {"secure", "loopback"}]

(* Time never passes the deadline: every timer is due before it.             *)
FetchInv ==
  /\ fetchCall \in FetchCalls
  /\ fetchNow \in Nat /\ fetchNow <= TotalTime /\ fetchSent \in Nat
  /\ fetchCall.at = "pause" => fetchCall.until <= TotalTime

(* What a step of the operation may do to call, clock and count.             *)
FetchGoes ==
  /\ fetchCall' \in FetchCalls /\ fetchNow' = fetchNow
  /\ fetchCall'.at = "pause" => fetchCall'.until <= TotalTime
  /\ \/ fetchSent' = fetchSent
     \/ fetchSent' = fetchSent + 1 /\ ~fetchStopped /\ fetchNow < TotalTime

(* The operation goes on, or it has ended.                                   *)
LEMMA FetchFinishes ==
  ASSUME FetchInv, NEW what, SF!Finish(what)
  PROVE  FetchGoes
BY DEF FetchInv, FetchGoes, FetchCalls, SF!Finish

(* A pause ends before the deadline.                                         *)
LEMMA FetchRetries ==
  ASSUME FetchInv, NEW delay \in Nat, NEW otherwise, SF!RetryOr(delay, otherwise)
  PROVE  FetchGoes
<1>1. CASE SF!Finish(otherwise)
  BY <1>1, FetchFinishes
<1>2. CASE delay < TotalTime - fetchNow /\ SF!Pause(delay)
  <2>1. fetchNow + delay \in Nat /\ fetchNow + delay <= TotalTime
    BY <1>2, FetchAssumption DEF FetchInv
  <2>2. fetchCall' = [fetchCall EXCEPT !.at = "pause", !.until = fetchNow + delay]
        /\ fetchNow' = fetchNow /\ fetchSent' = fetchSent
    BY <1>2 DEF SF!Pause
  <2> QED BY <2>1, <2>2 DEF FetchInv, FetchGoes, FetchCalls
<1> QED BY <1>1, <1>2 DEF SF!RetryOr

(* The next attempt.                                                         *)
LEMMA FetchAttempts ==
  ASSUME FetchInv, NEW rest, SF!Attempt(rest), UNCHANGED <<fetchNow, fetchSent>>
  PROVE  FetchGoes
BY DEF FetchInv, FetchGoes, FetchCalls, SF!Attempt

(* Every step of the operation.                                              *)
LEMMA FetchStepGoes ==
  ASSUME FetchInv, SF!FetchStep
  PROVE  FetchGoes
<1>0. fetchCall \in FetchCalls
  BY DEF FetchInv
<1>1. CASE SF!Send
  <2>1. CASE \E what \in {"timeout", "cancelled"} : SF!Finish(what)
    BY <2>1, FetchFinishes
  <2>2. CASE /\ fetchNow # TotalTime /\ ~fetchStopped
             /\ fetchSent' = fetchSent + 1 /\ fetchNow' = fetchNow
             /\ fetchCall' = [fetchCall EXCEPT !.at = "sent", !.since = fetchNow, !.hops = 0,
                                !.url = IF v1.loopback THEN "loopback" ELSE "secure"]
    <3>1. fetchCall' \in FetchCalls /\ fetchCall'.at = "sent"
      BY <1>0, <2>2 DEF FetchInv, FetchCalls
    <3>2. fetchNow < TotalTime
      BY <2>2, FetchAssumption DEF FetchInv
    <3> QED BY <2>2, <3>1, <3>2 DEF FetchGoes
  <2> QED BY <1>1, <2>1, <2>2 DEF SF!Send
<1>2. CASE SF!Redirect
  <2>1. PICK target \in {"secure", "loopback", "plain"} :
          IF fetchCall.hops < MaxHops /\ target # "plain"
          THEN /\ fetchCall' = [fetchCall EXCEPT !.hops = @ + 1, !.url = target]
               /\ fetchNow' = fetchNow /\ fetchSent' = fetchSent
          ELSE SF!Finish("status")
    BY <1>2 DEF SF!Redirect
  <2>2. CASE SF!Finish("status")
    BY <2>2, FetchFinishes
  <2>3. CASE /\ fetchCall' = [fetchCall EXCEPT !.hops = @ + 1, !.url = target]
             /\ target # "plain" /\ fetchNow' = fetchNow /\ fetchSent' = fetchSent
    <3>1. fetchCall.hops + 1 \in Nat /\ target \in {"secure", "loopback"}
      BY <1>0, <2>3 DEF FetchCalls
    <3>2. fetchCall' \in FetchCalls /\ fetchCall'.at = fetchCall.at
          /\ fetchCall'.until = fetchCall.until
      BY <1>0, <2>3, <3>1 DEF FetchCalls
    <3> QED BY <2>3, <3>2 DEF FetchInv, FetchGoes
  <2> QED BY <2>1, <2>2, <2>3
<1>3. CASE \E what \in {"transport", "timeout", "status", "unchanged", "invalid", "cancelled"} :
              SF!Finish(what)
  BY <1>3, FetchFinishes
<1>4. CASE SF!RetryOr(0, "transport") \/ \E d \in Delays : SF!RetryOr(d, "status")
  BY <1>4, FetchRetries, FetchAssumption
<1>5. CASE SF!Forbidden \/ SF!HeadUnknown
  BY <1>5, FetchAttempts DEF SF!Forbidden, SF!HeadUnknown
<1>6. CASE SF!UsageAnswer
  <2>1. UNCHANGED <<fetchNow, fetchSent>>
    BY <1>6 DEF SF!UsageAnswer
  <2>2. CASE SF!Attempt(SF!RestIsGet(fetchPlan))
    BY <2>1, <2>2, FetchAttempts
  <2>3. CASE fetchCall' = [fetchCall EXCEPT !.at = "end"]
    BY <1>0, <2>1, <2>3 DEF FetchGoes, FetchCalls
  <2> QED BY <1>6, <2>2, <2>3 DEF SF!UsageAnswer
<1>7. CASE SF!BodyBegins \/ SF!Chunk \/ SF!BodyEnds \/ SF!Resume
  BY <1>7 DEF FetchInv, FetchGoes, FetchCalls, SF!BodyBegins, SF!Chunk, SF!BodyEnds, SF!Resume
<1> QED BY <1>1, <1>2, <1>3, <1>4, <1>5, <1>6, <1>7
        DEF SF!FetchStep, SF!SendFails, SF!Busy, SF!OtherStatus, SF!Unmodified, SF!BodyRefused,
            SF!BodyFails, SF!Interrupted

(* Every step keeps the invariant, and sends nothing late.                   *)
LEMMA FetchSteps ==
  ASSUME FetchInv, SF!FetchNext
  PROVE  FetchInv' /\ SF!NothingSentLate
<1>1. CASE SF!FetchStep
  BY <1>1, FetchStepGoes DEF FetchGoes, FetchInv, SF!NothingSentLate
<1>2. CASE SF!Tick
  <2>0. UNCHANGED <<fetchCall, fetchSent>> /\ fetchNow' = fetchNow + 1 /\ fetchNow < SF!Due
    BY <1>2 DEF SF!Tick
  <2>1. /\ fetchCall.since + RequestTime \in Nat /\ fetchCall.until + IdleTime \in Nat
        /\ fetchCall.until \in Nat /\ fetchCall.at \in {"check", "sent", "body", "pause", "end"}
    BY FetchAssumption DEF FetchInv, FetchCalls
  <2>2. SF!Due <= TotalTime /\ SF!Due \in Nat
    BY <2>1, FetchAssumption DEF FetchInv, SF!Due
  <2>3. fetchNow' \in Nat /\ fetchNow' <= TotalTime
    BY <2>0, <2>2, FetchAssumption DEF FetchInv
  <2> QED BY <2>0, <2>3 DEF FetchInv, SF!NothingSentLate
<1>3. CASE SF!Cancel
  BY <1>3 DEF SF!Cancel, FetchInv, SF!NothingSentLate
<1> QED BY <1>1, <1>2, <1>3 DEF SF!FetchNext

(* The first state.                                                          *)
LEMMA FetchStarts == SF!FetchInit => FetchInv
<1> SUFFICES ASSUME SF!FetchInit PROVE FetchInv
  OBVIOUS
<1>1. PICK url \in {"loopback", "secure"} :
        fetchCall = [at |-> "check", since |-> 0, until |-> 0, hops |-> 0, url |-> url]
  BY DEF SF!FetchInit
<1>2. fetchNow = 0 /\ fetchSent = 0
  BY DEF SF!FetchInit
<1> QED BY <1>1, <1>2, FetchAssumption DEF FetchInv, FetchCalls

(* A stutter.                                                                *)
LEMMA FetchStutters ==
  ASSUME FetchInv, UNCHANGED <<v1, v2, v3, v4, v5, v6, v7, v8>>
  PROVE  FetchInv'
BY DEF FetchInv

HIDE DEF fetchPlan, fetchCall, fetchNow, fetchSent, fetchStopped

-----------------------------------------------------------------------------
(* TunStart                                                                *)

tunStart == v1
tunAdapter == v2
tunCore == v3
tunChecks == v7
USE DEF tunStart, tunAdapter, tunCore, tunChecks

Acceptances ==
  [at : {"idle", "config", "adapter", "routes", "dns", "confirm", "confirmed", "pause", "attempt",
         "asked", "again", "recheck", "failed", "accepted"},
   cause : {"none", "cancelled", "retry", "final"},
   seen : Nat, dns : Nat, proven : Nat, tries : Nat]

TunTypes ==
  /\ tunStart \in Acceptances
  /\ tunAdapter \in [id : Nat, last : Nat, routes : BOOLEAN]

(* What the wait has seen so far is of one adapter, and there was one.       *)
SeenInv ==
  /\ tunStart.at \in {"routes", "dns"} => tunStart.seen # 0
  /\ tunStart.at = "confirm" => tunStart.seen # 0 /\ tunStart.dns = tunStart.seen
  /\ tunStart.at \in {"confirmed", "attempt", "asked", "again", "recheck", "accepted"} =>
       tunStart.proven # 0 /\ tunStart.dns = tunStart.proven

(* The outside targets, as far as they were asked; and a start that failed.  *)
TunChecked ==
  /\ tunStart.at \in {"config", "adapter", "routes", "dns", "confirm", "confirmed", "pause"} =>
       tunChecks = TS!Unchecked
  /\ tunStart.at = "again" => ~TS!Success(tunChecks)
  /\ tunStart.at \in {"recheck", "accepted"} => TS!Success(tunChecks)
  /\ tunStart.at = "failed" =>
       /\ ~tunCore
       /\ tunStart.cause = "final" => ~\E t \in TS!Connectivity : tunChecks[t] \in TS!Transient

TunInv == TunTypes /\ SeenInv /\ TunChecked

(* A state of the invariant is one of the property.                          *)
LEMMA TunHolds == TunInv => TS!AcceptanceIsEarned
BY DEF TunInv, SeenInv, TunChecked, TS!AcceptanceIsEarned, TS!Outside, TS!Success,
       TS!Connectivity, TS!Targets

(* A start that fails, for a cause.                                          *)
LEMMA TunFails ==
  ASSUME TunInv, UNCHANGED <<tunAdapter>>,
         NEW cause \in {"cancelled", "retry", "final"}, TS!Fails(cause),
         cause = "final" => ~\E t \in TS!Connectivity : tunChecks'[t] \in TS!Transient
  PROVE  TunInv'
<1>1. /\ tunStart' \in Acceptances /\ tunStart'.at = "failed" /\ tunStart'.cause = cause
      /\ ~tunCore'
  BY DEF TunInv, TunTypes, Acceptances, TS!Fails
<1> QED BY <1>1 DEF TunInv, TunTypes, SeenInv, TunChecked

(* The steps of the world.                                                   *)
LEMMA TunWorld ==
  ASSUME TunInv,
         \/ TS!AdapterAppears \/ TS!AdapterGoes \/ TS!RoutesMove \/ TS!CoreDies \/ TS!Leave
         \/ TS!LocalTick \/ TS!NetTick
  PROVE  TunInv'
<1>1. tunStart' = tunStart /\ tunChecks' = tunChecks /\ (tunCore' = tunCore \/ ~tunCore')
  BY DEF TS!AdapterAppears, TS!AdapterGoes, TS!RoutesMove, TS!CoreDies, TS!Leave, TS!LocalTick,
         TS!NetTick
<1>2. tunAdapter' \in [id : Nat, last : Nat, routes : BOOLEAN]
  <2>1. CASE TS!AdapterAppears
    <3>1. PICK taken \in BOOLEAN :
            tunAdapter' = [id |-> tunAdapter.last + 1, last |-> tunAdapter.last + 1, routes |-> taken]
      BY <2>1 DEF TS!AdapterAppears
    <3> QED BY <3>1 DEF TunInv, TunTypes
  <2>2. CASE TS!AdapterGoes \/ TS!RoutesMove
    <3>1. (~tunAdapter.routes) \in BOOLEAN
      OBVIOUS
    <3> DEFINE moved == ~tunAdapter.routes
    <3>2. CASE tunAdapter' = [tunAdapter EXCEPT !.routes = moved]
      <4> moved \in BOOLEAN
        BY <3>1
      <4> HIDE DEF moved
      <4> QED BY <3>2 DEF TunInv, TunTypes
    <3>3. CASE tunAdapter' = [tunAdapter EXCEPT !.id = 0, !.routes = FALSE]
      BY <3>3 DEF TunInv, TunTypes
    <3> QED BY <2>2, <3>2, <3>3 DEF TS!AdapterGoes, TS!RoutesMove
  <2>3. CASE tunAdapter' = tunAdapter
    BY <2>3 DEF TunInv, TunTypes
  <2> QED BY <2>1, <2>2, <2>3 DEF TS!CoreDies, TS!Leave, TS!LocalTick, TS!NetTick
<1> QED BY <1>1, <1>2 DEF TunInv, TunTypes, SeenInv, TunChecked

(* The wait for configuration, adapter, routes and DNS.                      *)
LEMMA TunLocal ==
  ASSUME TunInv,
         \/ TS!StartCore \/ TS!ConfigReady \/ TS!ConfigRefused \/ TS!ReadAdapter \/ TS!ReadRoutes
         \/ TS!DnsAnswer \/ TS!DnsSocketFails \/ TS!Confirm \/ TS!LocalReady \/ TS!Pause
         \/ TS!LocalExpired \/ TS!Abandon
  PROVE  TunInv'
<1> USE DEF TS!At, TS!Goto, TS!Quiet, TS!World, TS!Budgets
<1>0. TunTypes /\ SeenInv /\ TunChecked
  BY DEF TunInv
<1>1. CASE TS!StartCore
  <2>1. PICK r \in Acceptances : r = TS!Fresh
    BY DEF TS!Fresh, Acceptances
  <2>2. tunStart' = [r EXCEPT !.at = "config"]
    BY <1>1, <2>1 DEF TS!StartCore
  <2>3. tunStart' \in Acceptances /\ tunStart'.at = "config"
    BY <2>2 DEF Acceptances
  <2>4. tunChecks' = TS!Unchecked /\ tunAdapter' = tunAdapter
    BY <1>1 DEF TS!StartCore
  <2> QED BY <1>0, <2>3, <2>4 DEF TunInv, TunTypes, SeenInv, TunChecked
<1>2. CASE TS!ConfigReady \/ TS!Pause
  <2>1. tunStart' = [tunStart EXCEPT !.at = "adapter"] /\ tunAdapter' = tunAdapter
        /\ tunChecks' = tunChecks /\ tunStart.at \in {"config", "pause"}
    BY <1>2 DEF TS!ConfigReady, TS!Pause
  <2>2. tunStart' \in Acceptances /\ tunStart'.at = "adapter"
    BY <1>0, <2>1 DEF TunTypes, Acceptances
  <2> QED BY <1>0, <2>1, <2>2 DEF TunInv, TunTypes, SeenInv, TunChecked
<1>3. CASE TS!ConfigRefused
  <2>1. tunChecks' = TS!Unchecked
    BY <1>0, <1>3 DEF TS!ConfigRefused, TunChecked
  <2>2. ~\E t \in TS!Connectivity : tunChecks'[t] \in TS!Transient
    BY <2>1 DEF TS!Unchecked, TS!Transient, TS!Connectivity
  <2> QED BY <1>3, <2>2, TunFails DEF TS!ConfigRefused
<1>4. CASE TS!ReadAdapter
  <2>1. PICK next \in {"pause", "routes"} :
          /\ tunStart' = [tunStart EXCEPT !.at = next, !.seen = tunAdapter.id]
          /\ next = "routes" => tunAdapter.id # 0
    BY <1>4 DEF TS!ReadAdapter
  <2>2. /\ tunStart' \in Acceptances /\ tunStart'.at = next /\ tunStart'.seen = tunAdapter.id
    BY <1>0, <2>1 DEF TunTypes, Acceptances
  <2>3. tunAdapter' = tunAdapter /\ tunChecks' = tunChecks /\ tunStart.at = "adapter"
    BY <1>4 DEF TS!ReadAdapter
  <2> QED BY <1>0, <2>1, <2>2, <2>3 DEF TunInv, TunTypes, SeenInv, TunChecked
<1>5. CASE TS!ReadRoutes
  <2>1. PICK next \in {"pause", "dns"} : tunStart' = [tunStart EXCEPT !.at = next]
    BY <1>5 DEF TS!ReadRoutes
  <2>2. tunStart' \in Acceptances /\ tunStart'.at = next /\ tunStart'.seen = tunStart.seen
    BY <1>0, <2>1 DEF TunTypes, Acceptances
  <2>3. tunAdapter' = tunAdapter /\ tunChecks' = tunChecks /\ tunStart.at = "routes"
    BY <1>5 DEF TS!ReadRoutes
  <2> QED BY <1>0, <2>2, <2>3 DEF TunInv, TunTypes, SeenInv, TunChecked
<1>6. CASE TS!DnsAnswer
  <2>1. tunAdapter' = tunAdapter /\ tunChecks' = tunChecks /\ tunStart.at = "dns"
    BY <1>6 DEF TS!DnsAnswer
  <2>2. CASE tunStart' = [tunStart EXCEPT !.at = "confirm", !.dns = tunStart.seen]
    <3>1. /\ tunStart' \in Acceptances /\ tunStart'.at = "confirm" /\ tunStart'.seen = tunStart.seen
          /\ tunStart'.dns = tunStart.seen
      BY <1>0, <2>2 DEF TunTypes, Acceptances
    <3> QED BY <1>0, <2>1, <3>1 DEF TunInv, TunTypes, SeenInv, TunChecked
  <2>3. CASE tunStart' = [tunStart EXCEPT !.at = "pause"]
    <3>1. tunStart' \in Acceptances /\ tunStart'.at = "pause"
      BY <1>0, <2>3 DEF TunTypes, Acceptances
    <3> QED BY <1>0, <2>1, <3>1 DEF TunInv, TunTypes, SeenInv, TunChecked
  <2> QED BY <1>6, <2>2, <2>3 DEF TS!DnsAnswer
<1>7. CASE TS!Confirm
  <2>1. tunAdapter' = tunAdapter /\ tunChecks' = tunChecks /\ tunStart.at = "confirm"
    BY <1>7 DEF TS!Confirm
  <2>2. CASE /\ tunStart' = [tunStart EXCEPT !.at = "confirmed", !.proven = tunAdapter.id]
             /\ tunAdapter.id = tunStart.seen
    <3>1. /\ tunStart' \in Acceptances /\ tunStart'.at = "confirmed"
          /\ tunStart'.dns = tunStart.dns /\ tunStart'.proven = tunStart.seen
      BY <1>0, <2>2 DEF TunTypes, Acceptances
    <3> QED BY <1>0, <2>1, <3>1 DEF TunInv, TunTypes, SeenInv, TunChecked
  <2>3. CASE tunStart' = [tunStart EXCEPT !.at = "pause"]
    <3>1. tunStart' \in Acceptances /\ tunStart'.at = "pause"
      BY <1>0, <2>3 DEF TunTypes, Acceptances
    <3> QED BY <1>0, <2>1, <3>1 DEF TunInv, TunTypes, SeenInv, TunChecked
  <2> QED BY <1>7, <2>2, <2>3 DEF TS!Confirm, TS!SameAdapter
<1>8. CASE TS!LocalReady
  <2>1. /\ tunStart' = [tunStart EXCEPT !.at = "attempt"] /\ tunAdapter' = tunAdapter
        /\ tunChecks' = tunChecks /\ tunStart.at = "confirmed"
    BY <1>8 DEF TS!LocalReady
  <2>2. /\ tunStart' \in Acceptances /\ tunStart'.at = "attempt"
        /\ tunStart'.dns = tunStart.dns /\ tunStart'.proven = tunStart.proven
    BY <1>0, <2>1 DEF TunTypes, Acceptances
  <2> QED BY <1>0, <2>1, <2>2 DEF TunInv, TunTypes, SeenInv, TunChecked
<1>9. CASE TS!Abandon \/ TS!DnsSocketFails \/ TS!LocalExpired
  <2>1. PICK cause \in {"cancelled", "retry"} : TS!Fails(cause)
    BY <1>9 DEF TS!Abandon, TS!DnsSocketFails, TS!LocalExpired
  <2>2. tunAdapter' = tunAdapter
    BY <1>9 DEF TS!Abandon, TS!DnsSocketFails, TS!LocalExpired
  <2> QED BY <2>1, <2>2, TunFails
<1> QED BY <1>1, <1>2, <1>3, <1>4, <1>5, <1>6, <1>7, <1>8, <1>9

(* A failure after an attempt names the retry that could be made.            *)
LEMMA TunNetFails ==
  ASSUME TunInv, UNCHANGED <<tunAdapter>>, ~TS!Success(tunChecks'), TS!NetFails(tunChecks')
  PROVE  TunInv'
<1>1. CASE TS!ShouldRetry(tunChecks') /\ TS!Fails("retry")
  BY <1>1, TunFails
<1>2. CASE ~TS!ShouldRetry(tunChecks') /\ TS!Fails("final")
  <2>1. ~\E t \in TS!Connectivity : tunChecks'[t] \in TS!Transient
    BY <1>2 DEF TS!ShouldRetry
  <2> QED BY <1>2, <2>1, TunFails
<1> QED BY <1>1, <1>2 DEF TS!NetFails

(* The outside world, and the routes once more.                              *)
LEMMA TunOutside ==
  ASSUME TunInv, TS!Attempt \/ TS!Answered \/ TS!Again \/ TS!Recheck
  PROVE  TunInv'
<1> USE DEF TS!At, TS!Goto, TS!Quiet, TS!World, TS!Budgets
<1>0. TunTypes /\ SeenInv /\ TunChecked
  BY DEF TunInv
<1>m. ASSUME NEW next \in {"attempt", "again", "recheck", "accepted"},
             tunStart' = [tunStart EXCEPT !.at = next]
      PROVE  /\ tunStart' \in Acceptances /\ tunStart'.at = next
             /\ tunStart'.dns = tunStart.dns /\ tunStart'.proven = tunStart.proven
  BY <1>0, <1>m DEF TunTypes, Acceptances
<1>1. CASE TS!Attempt
  <2>1. /\ tunStart' = [tunStart EXCEPT !.at = "asked", !.tries = @ + 1]
        /\ tunAdapter' = tunAdapter /\ tunStart.at = "attempt"
    BY <1>1 DEF TS!Attempt
  <2>a. tunStart.tries + 1 \in Nat
    BY <1>0 DEF TunTypes, Acceptances
  <2>2. /\ tunStart' \in Acceptances /\ tunStart'.at = "asked"
        /\ tunStart'.dns = tunStart.dns /\ tunStart'.proven = tunStart.proven
    BY <1>0, <2>a, <2>1 DEF TunTypes, Acceptances
  <2> QED BY <1>0, <2>1, <2>2 DEF TunInv, TunTypes, SeenInv, TunChecked
<1>2. CASE TS!Answered
  <2>0. tunAdapter' = tunAdapter /\ tunStart.at = "asked"
    BY <1>2 DEF TS!Answered
  <2>1. CASE TS!Success(tunChecks') /\ tunStart' = [tunStart EXCEPT !.at = "recheck"]
    BY <1>0, <1>m, <2>0, <2>1 DEF TunInv, TunTypes, SeenInv, TunChecked
  <2>2. CASE TS!ShouldRetry(tunChecks') /\ tunStart' = [tunStart EXCEPT !.at = "again"]
    <3>1. ~TS!Success(tunChecks')
      BY <2>2 DEF TS!ShouldRetry
    <3> QED BY <1>0, <1>m, <2>0, <2>2, <3>1 DEF TunInv, TunTypes, SeenInv, TunChecked
  <2>3. CASE ~TS!Success(tunChecks') /\ TS!NetFails(tunChecks')
    BY <2>0, <2>3, TunNetFails
  <2> QED BY <1>2, <2>1, <2>2, <2>3 DEF TS!Answered
<1>3. CASE TS!Again
  <2>0. tunAdapter' = tunAdapter /\ tunStart.at = "again" /\ tunChecks' = tunChecks
    BY <1>3 DEF TS!Again
  <2>1. CASE tunStart' = [tunStart EXCEPT !.at = "attempt"]
    BY <1>0, <1>m, <2>0, <2>1 DEF TunInv, TunTypes, SeenInv, TunChecked
  <2>2. CASE TS!NetFails(tunChecks)
    <3>1. ~TS!Success(tunChecks') /\ TS!NetFails(tunChecks')
      BY <1>0, <2>0, <2>2 DEF TunChecked
    <3> QED BY <2>0, <3>1, TunNetFails
  <2> QED BY <1>3, <2>1, <2>2 DEF TS!Again
<1>4. CASE TS!Recheck
  <2>0. tunAdapter' = tunAdapter /\ tunStart.at = "recheck" /\ tunChecks' = tunChecks
    BY <1>4 DEF TS!Recheck
  <2>1. CASE tunStart' = [tunStart EXCEPT !.at = "accepted"]
    BY <1>0, <1>m, <2>0, <2>1 DEF TunInv, TunTypes, SeenInv, TunChecked
  <2>2. CASE TS!Fails("retry")
    BY <2>0, <2>2, TunFails
  <2> QED BY <1>4, <2>1, <2>2 DEF TS!Recheck
<1> QED BY <1>1, <1>2, <1>3, <1>4

(* Every step keeps the invariant.                                           *)
LEMMA TunSteps ==
  ASSUME TunInv, TS!TunStartNext
  PROVE  TunInv'
BY TunWorld, TunLocal, TunOutside DEF TS!TunStartNext

(* What was answered for good is not asked again.                            *)
LEMMA TunIsCareful ==
  ASSUME TunInv, TS!TunStartNext
  PROVE  TS!RetriesAreCareful
<1>0. tunStart \in Acceptances
  BY DEF TunInv, TunTypes
<1>1. CASE TS!Answered
  <2>1. PICK got \in [TS!Asked -> TS!Results] :
          tunChecks' = [t \in TS!Targets |-> IF t \notin TS!Asked THEN tunChecks[t]
                                             ELSE IF v6 = 0 THEN "timeout" ELSE got[t]]
    BY <1>1 DEF TS!Answered
  <2>2. \A t \in TS!Targets : tunChecks'[t] # tunChecks[t] => t \in TS!Asked
    BY <2>1
  <2>3. tunStart'.tries = tunStart.tries
    BY <1>0, <1>1 DEF TS!Answered, TS!Goto, TS!NetFails, TS!Fails, Acceptances
  <2>4. ASSUME tunStart.tries > 1, NEW t \in TS!Asked
        PROVE  tunChecks[t] \in TS!Transient /\ t \in TS!Connectivity
    BY <2>4 DEF TS!Asked
  <2>5. ASSUME tunStart.tries > 1, NEW t \in TS!Asked
        PROVE  tunChecks[t] \notin {"ok", "status", "certificate", "tls"} /\ t # "openai"
    BY <2>4, <2>5 DEF TS!Transient, TS!Connectivity
  <2> QED BY <2>2, <2>3, <2>5 DEF TS!RetriesAreCareful
<1>2. CASE TS!StartCore
  <2>1. PICK r \in Acceptances : r = TS!Fresh
    BY DEF TS!Fresh, Acceptances
  <2>2. r.tries = 0
    BY <2>1 DEF TS!Fresh
  <2>3. tunStart' = [r EXCEPT !.at = "config"]
    BY <1>2, <2>1 DEF TS!StartCore
  <2>4. tunStart'.tries = 0
    BY <2>2, <2>3 DEF Acceptances
  <2> QED BY <2>4 DEF TS!RetriesAreCareful
<1>3. CASE tunChecks' = tunChecks
  BY <1>3 DEF TS!RetriesAreCareful
<1> QED BY <1>1, <1>2, <1>3
        DEF TS!TunStartNext, TS!AdapterAppears, TS!AdapterGoes, TS!RoutesMove, TS!CoreDies,
            TS!Leave, TS!LocalTick, TS!NetTick, TS!Abandon, TS!ConfigReady, TS!ConfigRefused,
            TS!ReadAdapter, TS!ReadRoutes, TS!DnsAnswer, TS!DnsSocketFails, TS!Confirm,
            TS!LocalReady, TS!Pause, TS!LocalExpired, TS!Attempt, TS!Again, TS!Recheck,
            TS!Quiet

(* The first state.                                                          *)
LEMMA TunStarts == TS!TunStartInit => TunInv
<1> SUFFICES ASSUME TS!TunStartInit PROVE TunInv
  OBVIOUS
<1>1. tunStart \in Acceptances /\ tunStart.at = "idle"
  BY DEF TS!TunStartInit, TS!Fresh, Acceptances
<1>2. tunAdapter \in [id : Nat, last : Nat, routes : BOOLEAN]
  BY DEF TS!TunStartInit
<1> QED BY <1>1, <1>2 DEF TunInv, TunTypes, SeenInv, TunChecked

(* A stutter.                                                                *)
LEMMA TunStutters ==
  ASSUME TunInv, UNCHANGED <<v1, v2, v3, v4, v5, v6, v7>>
  PROVE  TunInv'
BY DEF TunInv, TunTypes, SeenInv, TunChecked

HIDE DEF tunStart, tunAdapter, tunCore, tunChecks

-----------------------------------------------------------------------------
(* ProgramProxy                                                            *)

progHost == v1
progDoc == v2
progHandles == v3
progProcs == v4
progTries == v5
progCore == v6
progHolder == v7
progCommand == v8
USE DEF progHost, progDoc, progHandles, progProcs, progTries, progCore, progHolder, progCommand

ProgApps == {"app"}
ProgPorts == CoreStates[progHost]
ProgDocs ==
  [rev : 0..MaxSaves, old : BOOLEAN, app : [Entries -> ProgApps \union {"unborn", "deleted"}],
   paths : SUBSET Entries]
ProgHandles == [is : {"none", "reserved", "waiting", "running"}, of : Nat]
ProgProcs ==
  [app : ProgApps, by : Entries \union {"user"}, port : ProgPorts \union {0}, alive : BOOLEAN]
ProgTries ==
  [app : ProgApps, by : Entries, port : ProgPorts, status : {"pending", "done", "failed"},
   asked : BOOLEAN, since : Nat, proc : Nat]
ProgCommands ==
  [at : {"idle", "snapshot"}] \union [at : {"migrate", "save"}, new : ProgDocs]
  \union [at : {"look", "permit"}, entry : Entries, app : ProgApps, rev : 0..MaxSaves]
  \union [at : {"start", "begin"}, entry : Entries, app : ProgApps, port : ProgPorts]
  \union [at : {"again", "wait", "store"}, entry : Entries, handle : ProgHandles]

ProgTypes ==
  /\ progHost \in {"macos", "windows"} /\ progDoc \in ProgDocs
  /\ progHandles \in [Entries -> ProgHandles]
  /\ progProcs \in Seq(ProgProcs) /\ progTries \in Seq(ProgTries)
  /\ progCore \in ProgPorts /\ progHolder \in Commands \union {"nobody"}
  /\ progCommand \in [Commands -> ProgCommands]

(* The request t has opened the process p.                                 *)
Opened(t, p) == progTries[t].status = "done" /\ progTries[t].proc = p

(* A handle of the entry e: a request of it, a process that was started for *)
(* it or that a request of it has opened.                                  *)
HandleOf(e, h) ==
  /\ h \in ProgHandles /\ (h.is \in {"none", "reserved"} => h.of = 0)
  /\ h.is = "waiting" => h.of \in DOMAIN progTries /\ progTries[h.of].by = e
  /\ h.is = "running" =>
       /\ h.of \in DOMAIN progProcs
       /\ progHost = "windows" => progProcs[h.of].by = e
       /\ progHost = "macos" =>
            \E t \in DOMAIN progTries : Opened(t, h.of) /\ progTries[t].by = e

HandlesInv ==
  \A e \in Entries :
    /\ HandleOf(e, progHandles[e])
    /\ progHandles[e] # PP!Nothing => progDoc.app[e] \in ProgApps

(* An edit of the list: of one entry, none revived, none taken away.        *)
Edits(d, n) ==
  /\ \A f \in Entries : /\ d.app[f] \in ProgApps => n.app[f] \in ProgApps
                        /\ d.app[f] = "deleted" => n.app[f] = "deleted"
  /\ \E e \in Entries : \A f \in Entries \ {e} : n.app[f] = d.app[f]

(* What a command r has read is still so if the revision is.               *)
ReadOf(r) ==
  /\ r.at \in {"migrate", "save"} =>
       /\ r.new.rev <= progDoc.rev + 1
       /\ r.new.rev = progDoc.rev + 1 => Edits(progDoc, r.new)
  /\ r.at \in {"look", "permit"} =>
       /\ r.rev <= progDoc.rev
       /\ r.rev = progDoc.rev => progDoc.app[r.entry] \in ProgApps

ReadInv == \A c \in Commands : ReadOf(progCommand[c])

(* A request names the process that it has opened or met.  What starts      *)
(* after it is its own or the user's.                                      *)
TryOf(t) ==
  LET try == progTries[t]
  IN  /\ try.proc # 0 => try.proc \in DOMAIN progProcs /\ progProcs[try.proc].app = try.app
      /\ try.status = "done" => try.proc # 0 /\ progProcs[try.proc].by \in {try.by, "user"}
      /\ try.status = "pending" /\ ~try.asked => try.proc = 0
      /\ try.status = "pending" /\ try.asked =>
           \A i \in DOMAIN progProcs : i > try.since /\ progProcs[i].app = try.app =>
                                         progProcs[i].by \in {try.by, "user"}

(* One request for an application waits at a time; what earlier ones have   *)
(* opened is older, and no two have opened the same.                        *)
TryPair(t, u) ==
  LET try == progTries[t]
      other == progTries[u]
  IN  /\ try.status = "pending" /\ other.status = "pending" /\ try.app = other.app => t = u
      /\ /\ try.status = "done" /\ other.status = "pending" /\ other.asked
         /\ try.app = other.app
         => try.proc <= other.since
      /\ try.status = "done" /\ other.status = "done" /\ try.proc = other.proc => t = u

TriesInv ==
  /\ progHost = "windows" => progTries = <<>>
  /\ \A t \in DOMAIN progTries : TryOf(t)
  /\ \A t, u \in DOMAIN progTries : TryPair(t, u)

(* Where a command r that opens an application is: its request is its own.  *)
AskOf(r) ==
  /\ r.at \in {"begin", "again", "wait"} => progHost = "macos"
  /\ r.at \in {"again", "wait", "store"} => HandleOf(r.entry, r.handle)
  /\ r.at \in {"again", "wait"} => r.handle.is = "waiting"
  /\ r.at = "again" =>
       progTries[r.handle.of].status = "pending" /\ ~progTries[r.handle.of].asked

AskingInv ==
  /\ \A c \in Commands : AskOf(progCommand[c])
  /\ \A c, d \in Commands :
       /\ progCommand[c].at = "again" /\ progCommand[d].at = "again"
       /\ progCommand[c].handle.of = progCommand[d].handle.of
       => c = d

(* On macOS the system runs an application once.                            *)
MacInv ==
  progHost = "macos" =>
    \A i, j \in DOMAIN progProcs :
      progProcs[i].alive /\ progProcs[j].alive /\ progProcs[i].app = progProcs[j].app => i = j

(* Elsewhere a start r has the entry to itself, from the reservation to the *)
(* handle that it stores, and the permit until it has spawned.              *)
Holds(r) == r.at \in {"start", "store"}
LivesBy(i, e) == progProcs[i].alive /\ progProcs[i].by = e
SpawnOf(c, r) ==
  /\ r.at = "start" => progHolder = c /\ progCore \in {0, r.port}
  /\ r.at = "start" => \A i \in DOMAIN progProcs : ~LivesBy(i, r.entry)
  /\ r.at = "store" =>
       \A i \in DOMAIN progProcs :
         LivesBy(i, r.entry) => r.handle = [is |-> "running", of |-> i]
  /\ Holds(r) => progHandles[r.entry] = PP!Reserved \/ progDoc.app[r.entry] = "deleted"

(* What lives is known by the handle of its entry.                          *)
LivesInv ==
  \A e \in Entries, i \in DOMAIN progProcs :
    LivesBy(i, e) => \/ progHandles[e] \in {PP!Reserved, [is |-> "running", of |-> i]}
                     \/ progDoc.app[e] = "deleted"

SpawnInv ==
  progHost = "windows" =>
    /\ \A c \in Commands : SpawnOf(c, progCommand[c])
    /\ \A c, d \in Commands :
         /\ Holds(progCommand[c]) /\ Holds(progCommand[d])
         /\ progCommand[c].entry = progCommand[d].entry
         => c = d
    /\ LivesInv /\ PP!EntryRunsOnce

ProgInv ==
  ProgTypes /\ HandlesInv /\ ReadInv /\ TriesInv /\ AskingInv /\ MacInv /\ SpawnInv

(* Processes and requests only grow; a request that was answered stays so.  *)
ProgGrows ==
  /\ progHost' = progHost
  /\ progProcs' \in Seq(ProgProcs) /\ DOMAIN progProcs \subseteq DOMAIN progProcs'
  /\ \A i \in DOMAIN progProcs : /\ progProcs'[i].app = progProcs[i].app
                                 /\ progProcs'[i].by = progProcs[i].by
                                 /\ progProcs'[i].alive => progProcs[i].alive
  /\ progTries' \in Seq(ProgTries) /\ DOMAIN progTries \subseteq DOMAIN progTries'
  /\ \A t \in DOMAIN progTries :
       /\ progTries'[t].app = progTries[t].app /\ progTries'[t].by = progTries[t].by
       /\ progTries[t].status = "done" =>
            progTries'[t].status = "done" /\ progTries'[t].proc = progTries[t].proc

(* What a step leaves alone has grown.                                      *)
LEMMA ProgSame ==
  ASSUME ProgTypes, UNCHANGED <<progHost, progProcs, progTries>>
  PROVE  ProgGrows
BY DEF ProgTypes, ProgGrows

(* Handles stay what they are.                                              *)
LEMMA HandleStays ==
  ASSUME ProgTypes, ProgGrows, NEW e, NEW h, HandleOf(e, h)
  PROVE  HandleOf(e, h)'
<1>1. h.is = "running" /\ progHost = "macos" =>
        \E t \in DOMAIN progTries' : Opened(t, h.of)' /\ progTries'[t].by = e
  BY DEF HandleOf, Opened, ProgGrows
<1> QED BY <1>1 DEF HandleOf, ProgGrows

(* The constant handles are handles of every entry.                         *)
LEMMA PlainHandles ==
  ASSUME NEW e
  PROVE  HandleOf(e, PP!Nothing) /\ HandleOf(e, PP!Reserved)
BY DEF HandleOf, PP!Nothing, PP!Reserved, ProgHandles

(* The answer to a request makes its handle that of a process.              *)
LEMMA AnswerOf ==
  ASSUME ProgTypes, TriesInv, NEW e \in Entries, NEW h, HandleOf(e, h)
  PROVE  /\ HandleOf(e, PP!Answer(h)) /\ (h.is # "waiting" => PP!Answer(h) = h)
         /\ h # PP!Nothing => PP!Answer(h) # PP!Nothing
<1>1. CASE h.is = "waiting" /\ progTries[h.of].status = "done"
  <2>1. /\ PP!Answer(h) = [is |-> "running", of |-> progTries[h.of].proc]
        /\ h.of \in DOMAIN progTries /\ progTries[h.of].by = e /\ progHost # "windows"
    BY <1>1 DEF PP!Answer, HandleOf, TriesInv
  <2>2. progTries[h.of] \in ProgTries /\ progTries[h.of].proc \in DOMAIN progProcs
    BY <1>1, <2>1 DEF TriesInv, TryOf, ProgTypes
  <2>3. progTries[h.of].proc \in Nat
    BY <2>2 DEF ProgTries
  <2>4. PP!Answer(h).is = "running" /\ PP!Answer(h).of = progTries[h.of].proc
        /\ PP!Answer(h) \in ProgHandles
    BY <2>1, <2>3 DEF ProgHandles
  <2>5. \E t \in DOMAIN progTries : Opened(t, PP!Answer(h).of) /\ progTries[t].by = e
    BY <1>1, <2>1, <2>4 DEF Opened
  <2> QED BY <1>1, <2>1, <2>2, <2>4, <2>5 DEF HandleOf, PP!Nothing
<1>2. CASE ~(h.is = "waiting" /\ progTries[h.of].status = "done")
  BY <1>2 DEF PP!Answer
<1> QED BY <1>1, <1>2

(* The records of a command, by where it is.                                *)
LEMMA CommandFields ==
  ASSUME ProgTypes, NEW c \in Commands
  PROVE  /\ progCommand[c].at \in {"migrate", "save"} => progCommand[c].new \in ProgDocs
         /\ progCommand[c].at \in {"look", "permit"} =>
              /\ progCommand[c].entry \in Entries /\ progCommand[c].app \in ProgApps
              /\ progCommand[c].rev \in 0..MaxSaves
         /\ progCommand[c].at \in {"start", "begin"} =>
              /\ progCommand[c].entry \in Entries /\ progCommand[c].app \in ProgApps
              /\ progCommand[c].port \in ProgPorts
         /\ progCommand[c].at \in {"again", "wait", "store"} =>
              progCommand[c].entry \in Entries /\ progCommand[c].handle \in ProgHandles
<1>1. progCommand[c] \in ProgCommands
  BY DEF ProgTypes
<1> QED BY <1>1 DEF ProgCommands

(* The command c goes on as r, the others stay.                             *)
GoesOnAs(c, r) ==
  /\ r \in ProgCommands /\ progCommand' \in [Commands -> ProgCommands]
  /\ progCommand'[c] = r /\ \A d \in Commands \ {c} : progCommand'[d] = progCommand[d]

LEMMA CommandBecomes ==
  ASSUME ProgTypes, NEW c \in Commands, NEW r \in ProgCommands,
         progCommand' = [progCommand EXCEPT ![c] = r]
  PROVE  GoesOnAs(c, r)
BY DEF ProgTypes, GoesOnAs

(* The steps that end a command or show the list.                           *)
LEMMA CommandEnds ==
  ASSUME ProgTypes, NEW c \in Commands, PP!Ends(c) \/ PP!Shows(c)
  PROVE  \E r \in ProgCommands : GoesOnAs(c, r) /\ r.at \in {"idle", "snapshot"}
<1>1. PICK p \in {"idle", "snapshot"} : progCommand' = [progCommand EXCEPT ![c] = [at |-> p]]
  BY DEF PP!Ends, PP!Shows
<1>2. [at |-> p] \in ProgCommands /\ [at |-> p].at = p
  BY DEF ProgCommands
<1> QED BY <1>1, <1>2, CommandBecomes

(* What a command that goes on takes with it.                               *)
LEMMA CommandGoesOn ==
  ASSUME ProgTypes, NEW c \in Commands, NEW p,
         \/ progCommand[c].at = "look" /\ p = "permit"
         \/ progCommand[c].at = "start" /\ p = "begin"
         \/ progCommand[c].at = "again" /\ p = "wait"
         \/ progCommand[c].at = "wait" /\ p = "store",
         PP!Goto(c, p)
  PROVE  \E r \in ProgCommands :
           /\ GoesOnAs(c, r) /\ r.at = p /\ r.entry = progCommand[c].entry
           /\ p = "permit" => r.app = progCommand[c].app /\ r.rev = progCommand[c].rev
           /\ p = "begin" => r.app = progCommand[c].app /\ r.port = progCommand[c].port
           /\ p \in {"wait", "store"} => r.handle = progCommand[c].handle
<1> DEFINE r == [progCommand[c] EXCEPT !.at = p]
<1>1. progCommand' = [progCommand EXCEPT ![c] = r]
  BY DEF PP!Goto
<1>2. progCommand[c] \in ProgCommands
  BY DEF ProgTypes
<1>3. CASE progCommand[c].at = "look"
  <2>1. progCommand[c] \in [at : {"look", "permit"}, entry : Entries, app : ProgApps,
                            rev : 0..MaxSaves]
    BY <1>2, <1>3 DEF ProgCommands
  <2>2. /\ r \in [at : {"look", "permit"}, entry : Entries, app : ProgApps, rev : 0..MaxSaves]
        /\ r.at = "permit" /\ r.entry = progCommand[c].entry /\ r.app = progCommand[c].app
        /\ r.rev = progCommand[c].rev
    BY <1>3, <2>1
  <2>3. r \in ProgCommands
    BY <2>2 DEF ProgCommands
  <2> QED BY <1>1, <1>3, <2>2, <2>3, CommandBecomes
<1>4. CASE progCommand[c].at = "start"
  <2>1. progCommand[c] \in [at : {"start", "begin"}, entry : Entries, app : ProgApps,
                            port : ProgPorts]
    BY <1>2, <1>4 DEF ProgCommands
  <2>2. /\ r \in [at : {"start", "begin"}, entry : Entries, app : ProgApps, port : ProgPorts]
        /\ r.at = "begin" /\ r.entry = progCommand[c].entry /\ r.app = progCommand[c].app
        /\ r.port = progCommand[c].port
    BY <1>4, <2>1
  <2>3. r \in ProgCommands
    BY <2>2 DEF ProgCommands
  <2> QED BY <1>1, <1>4, <2>2, <2>3, CommandBecomes
<1>5. CASE progCommand[c].at \in {"again", "wait"}
  <2>1. /\ progCommand[c] \in [at : {"again", "wait", "store"}, entry : Entries,
                               handle : ProgHandles]
        /\ p \in {"wait", "store"}
    BY <1>2, <1>5 DEF ProgCommands
  <2>2. /\ r \in [at : {"again", "wait", "store"}, entry : Entries, handle : ProgHandles]
        /\ r.at = p /\ r.entry = progCommand[c].entry /\ r.handle = progCommand[c].handle
    BY <2>1
  <2>3. r \in ProgCommands
    BY <2>2 DEF ProgCommands
  <2> QED BY <1>1, <2>1, <2>2, <2>3, CommandBecomes
<1> QED BY <1>3, <1>4, <1>5

(* A command that has a handle, or none because its start has failed.       *)
LEMMA CommandWith ==
  ASSUME ProgTypes, NEW c \in Commands, NEW p \in {"again", "wait", "store"},
         NEW h \in ProgHandles, progCommand[c].entry \in Entries, PP!With(c, p, h)
  PROVE  \E r \in ProgCommands :
           GoesOnAs(c, r) /\ r.at = p /\ r.entry = progCommand[c].entry /\ r.handle = h
<1> DEFINE r == [at |-> p, entry |-> progCommand[c].entry, handle |-> h]
<1>1. progCommand' = [progCommand EXCEPT ![c] = r]
  BY DEF PP!With
<1>2. r \in ProgCommands
  BY DEF ProgCommands
<1> QED BY <1>1, <1>2, CommandBecomes

(* A step of one command that leaves the world alone, but for the handles   *)
(* and the permit.                                                         *)
CommandStep(c, r) ==
  /\ GoesOnAs(c, r) /\ ReadOf(r) /\ AskOf(r)
  /\ UNCHANGED <<progHost, progDoc, progProcs, progTries, progCore>>
  /\ r.at = "again" =>
       \A d \in Commands \ {c} : ~(/\ progCommand[d].at = "again"
                                   /\ progCommand[d].handle.of = r.handle.of)

LEMMA CommandStepHolds ==
  ASSUME ProgInv, NEW c \in Commands, NEW r, CommandStep(c, r),
         progHandles' \in [Entries -> ProgHandles], HandlesInv',
         progHolder' \in Commands \union {"nobody"}, SpawnInv'
  PROVE  ProgInv'
<1>1. GoesOnAs(c, r) /\ ProgTypes /\ ProgGrows
  BY ProgSame DEF CommandStep, ProgInv
<1>2. ProgTypes'
  BY <1>1 DEF CommandStep, ProgTypes, ProgPorts, GoesOnAs, ProgGrows, ProgDocs, ProgCommands, ProgProcs,
              ProgTries
<1>3. ReadInv'
  BY <1>1 DEF ProgInv, ReadInv, ReadOf, CommandStep, GoesOnAs
<1>4. AskingInv'
  <2>1. \A d \in Commands : AskOf(progCommand'[d])
    BY <1>1 DEF ProgInv, AskingInv, CommandStep, GoesOnAs
  <2>2. \A x : AskOf(x) => AskOf(x)'
    BY DEF AskOf, HandleOf, Opened, CommandStep
  <2>3. \A d \in Commands : AskOf(progCommand[d])'
    BY <2>1, <2>2
  <2>4. ASSUME NEW d \in Commands, NEW f \in Commands,
               progCommand'[d].at = "again", progCommand'[f].at = "again",
               progCommand'[d].handle.of = progCommand'[f].handle.of
        PROVE  d = f
    BY <1>1, <2>4 DEF ProgInv, AskingInv, CommandStep, GoesOnAs
  <2> QED BY <2>3, <2>4 DEF AskingInv
<1>5. TriesInv' /\ MacInv'
  BY DEF ProgInv, TriesInv, TryOf, TryPair, MacInv, CommandStep
<1> QED BY <1>2, <1>3, <1>4, <1>5 DEF ProgInv

(* A command that neither starts nor stores, or does so on macOS.           *)
LEMMA QuietCommand ==
  ASSUME ProgInv, NEW c \in Commands, NEW r, CommandStep(c, r), ~Holds(r) \/ progHost = "macos",
         UNCHANGED <<progHandles, progHolder>>
  PROVE  ProgInv'
<1>1. progHandles' \in [Entries -> ProgHandles] /\ progHolder' \in Commands \union {"nobody"}
  BY DEF ProgInv, ProgTypes
<1>2. HandlesInv'
  BY HandleStays, ProgSame DEF ProgInv, HandlesInv, CommandStep
<1>3. SpawnInv'
  <2> SUFFICES ASSUME progHost = "windows" PROVE SpawnInv'
    BY DEF SpawnInv, CommandStep
  <2>1. ~Holds(r) /\ GoesOnAs(c, r)
    BY DEF CommandStep, ProgInv, ProgTypes
  <2>2. \A d, x : SpawnOf(d, x) => SpawnOf(d, x)'
    BY DEF SpawnOf, LivesBy, Holds, CommandStep
  <2>3. \A d \in Commands : SpawnOf(d, progCommand'[d])
    <3>1. SpawnOf(c, r)
      BY <2>1 DEF SpawnOf, Holds
    <3> QED BY <2>1, <3>1 DEF GoesOnAs, SpawnInv, ProgInv
  <2>4. \A d \in Commands : SpawnOf(d, progCommand[d])'
    BY <2>2, <2>3
  <2>5. \A d, f \in Commands :
          Holds(progCommand'[d]) /\ Holds(progCommand'[f])
          /\ progCommand'[d].entry = progCommand'[f].entry => d = f
    BY <2>1 DEF GoesOnAs, SpawnInv, ProgInv
  <2>6. LivesInv' /\ PP!EntryRunsOnce'
    BY DEF LivesInv, LivesBy, PP!EntryRunsOnce, SpawnInv, ProgInv, CommandStep
  <2> QED BY <2>4, <2>5, <2>6 DEF SpawnInv, Holds
<1> QED BY <1>1, <1>2, <1>3, CommandStepHolds

(* A command that ends here.                                                *)
LEMMA EndingCommand ==
  ASSUME ProgTypes, NEW c \in Commands, PP!Ends(c) \/ PP!Shows(c),
         UNCHANGED <<progHost, progDoc, progProcs, progTries, progCore>>
  PROVE  \E r : CommandStep(c, r) /\ ~Holds(r)
BY CommandEnds DEF CommandStep, ReadOf, AskOf, Holds

(* The commands on the list, until they write it; a start, until it takes   *)
(* the permit; what fails before it has changed anything.                   *)
LEMMA ReadingSteps ==
  ASSUME ProgInv, ProgramAssumption, NEW c \in Commands,
         \/ PP!List(c) \/ PP!Save(c) \/ PP!Launch(c) \/ PP!Look(c)
         \/ PP!Ends(c) /\ UNCHANGED <<progHost, progDoc, progHandles, progProcs, progTries,
                                      progCore, progHolder>>
  PROVE  ProgInv'
<1>0. ProgTypes /\ progDoc \in ProgDocs /\ MaxSaves \in Nat
  BY DEF ProgInv, ProgTypes, ProgramAssumption
<1>d. /\ progDoc.rev \in 0..MaxSaves /\ progDoc.paths \subseteq Entries
      /\ progDoc.app \in [Entries -> ProgApps \union {"unborn", "deleted"}]
  BY <1>0 DEF ProgDocs
<1>e. ASSUME PP!Ends(c) \/ PP!Shows(c),
             UNCHANGED <<progHost, progDoc, progHandles, progProcs, progTries, progCore, progHolder>>
      PROVE  ProgInv'
  BY <1>0, <1>e, EndingCommand, QuietCommand
<1>w. ASSUME NEW p \in {"migrate", "save"}, NEW n \in ProgDocs, n.rev = progDoc.rev + 1,
             Edits(progDoc, n), progCommand' = [progCommand EXCEPT ![c] = [at |-> p, new |-> n]],
             UNCHANGED <<progHost, progDoc, progHandles, progProcs, progTries, progCore, progHolder>>
      PROVE  ProgInv'
  <2> DEFINE r == [at |-> p, new |-> n]
  <2>1. r \in ProgCommands /\ r.at = p /\ r.new = n
    BY DEF ProgCommands
  <2>2. GoesOnAs(c, r)
    BY <1>0, <1>w, <2>1, CommandBecomes
  <2>3. CommandStep(c, r) /\ ~Holds(r)
    BY <1>d, <1>w, <2>1, <2>2 DEF CommandStep, ReadOf, AskOf, Holds
  <2> QED BY <1>w, <2>3, QuietCommand
<1>1. CASE PP!List(c)
  <2>1. PICK found \in SUBSET progDoc.paths :
          IF found = {} /\ ~progDoc.old THEN PP!Shows(c)
          ELSE /\ progDoc.rev < MaxSaves
               /\ progCommand' = [progCommand EXCEPT ![c] =
                    [at |-> "migrate", new |-> [progDoc EXCEPT !.rev = @ + 1, !.old = FALSE,
                                                               !.paths = @ \ found]]]
    BY <1>1 DEF PP!List
  <2>2. UNCHANGED <<progHost, progDoc, progHandles, progProcs, progTries, progCore, progHolder>>
    BY <1>1 DEF PP!List
  <2>3. CASE progDoc.rev < MaxSaves
    <3> DEFINE n == [progDoc EXCEPT !.rev = @ + 1, !.old = FALSE, !.paths = @ \ found]
    <3>1. n \in ProgDocs /\ n.rev = progDoc.rev + 1 /\ n.app = progDoc.app
      <4>1. progDoc.rev + 1 \in 0..MaxSaves /\ progDoc.paths \ found \in SUBSET Entries
        BY <1>0, <1>d, <2>3
      <4> QED BY <1>0, <4>1 DEF ProgDocs
    <3>2. Edits(progDoc, n)
      BY <3>1 DEF Edits, Entries
    <3> QED BY <1>e, <1>w, <2>1, <2>2, <3>1, <3>2
  <2>4. CASE ~(progDoc.rev < MaxSaves)
    BY <1>e, <2>1, <2>2, <2>4
  <2> QED BY <2>3, <2>4
<1>2. CASE PP!Save(c)
  <2>1. PICK e \in Entries, app \in ProgApps, byPath \in BOOLEAN :
          /\ progDoc.app[e] # "deleted"
          /\ progCommand' = [progCommand EXCEPT ![c] =
               [at |-> "save", new |-> PP!Updated(e, app, byPath)]]
    BY <1>2 DEF PP!Save, ProgApps
  <2>2. progDoc.rev < MaxSaves
        /\ UNCHANGED <<progHost, progDoc, progHandles, progProcs, progTries, progCore, progHolder>>
    BY <1>2 DEF PP!Save
  <2> DEFINE n == PP!Updated(e, app, byPath)
             apps == [progDoc.app EXCEPT ![e] = app]
  <2>3. /\ n.rev = progDoc.rev + 1 /\ n.app = apps
        /\ n.old = FALSE /\ n.paths \in {progDoc.paths \union {e}, progDoc.paths \ {e}}
        /\ n = [rev |-> n.rev, old |-> n.old, app |-> n.app, paths |-> n.paths]
    BY DEF PP!Updated
  <2>4. /\ apps \in [Entries -> ProgApps \union {"unborn", "deleted"}]
        /\ apps[e] = app /\ \A f \in Entries \ {e} : apps[f] = progDoc.app[f]
    BY <1>d
  <2>5. n \in ProgDocs
    <3>1. n.rev \in 0..MaxSaves /\ n.paths \in SUBSET Entries
      BY <1>d, <2>2, <2>3
    <3> HIDE DEF n, apps
    <3> QED BY <2>3, <2>4, <3>1 DEF ProgDocs
  <2>6. Edits(progDoc, n)
    <3> HIDE DEF n, apps
    <3> QED BY <2>1, <2>3, <2>4 DEF Edits
  <2> QED BY <1>w, <2>1, <2>2, <2>3, <2>5, <2>6
<1>3. CASE PP!Launch(c)
  <2>1. PICK e \in PP!Present(progDoc) :
          progCommand' = [progCommand EXCEPT ![c] =
            [at |-> "look", entry |-> e, app |-> progDoc.app[e], rev |-> progDoc.rev]]
    BY <1>3 DEF PP!Launch
  <2>2. UNCHANGED <<progHost, progDoc, progHandles, progProcs, progTries, progCore, progHolder>>
    BY <1>3 DEF PP!Launch
  <2>3. e \in Entries /\ progDoc.app[e] \in ProgApps
    BY DEF PP!Present, ProgApps
  <2> DEFINE r == [at |-> "look", entry |-> e, app |-> progDoc.app[e], rev |-> progDoc.rev]
  <2>4. r \in ProgCommands /\ r.at = "look" /\ r.entry = e /\ r.rev = progDoc.rev
    BY <1>d, <2>3 DEF ProgCommands
  <2>5. GoesOnAs(c, r)
    BY <1>0, <2>1, <2>4, CommandBecomes
  <2>6. CommandStep(c, r) /\ ~Holds(r)
    BY <1>d, <2>2, <2>3, <2>4, <2>5 DEF CommandStep, ReadOf, AskOf, Holds
  <2> QED BY <2>2, <2>6, QuietCommand
<1>4. CASE PP!Look(c)
  <2>1. /\ progCommand[c].at = "look" /\ (PP!Goto(c, "permit") \/ PP!Ends(c))
        /\ UNCHANGED <<progHost, progDoc, progHandles, progProcs, progTries, progCore, progHolder>>
    BY <1>4 DEF PP!Look, PP!At
  <2>2. CASE PP!Goto(c, "permit") /\ progCommand[c].at = "look"
    <3>1. PICK r \in ProgCommands :
            /\ GoesOnAs(c, r) /\ r.at = "permit" /\ r.entry = progCommand[c].entry
            /\ r.app = progCommand[c].app /\ r.rev = progCommand[c].rev
      BY <1>0, <2>2, CommandGoesOn
    <3>2. ReadOf(progCommand[c])
      BY DEF ProgInv, ReadInv
    <3>3. CommandStep(c, r) /\ ~Holds(r)
      BY <2>1, <2>2, <3>1, <3>2 DEF CommandStep, ReadOf, AskOf, Holds
    <3> QED BY <2>1, <3>3, QuietCommand
  <2> QED BY <1>e, <1>4, <2>1, <2>2 DEF PP!Look, PP!At
<1> QED BY <1>e, <1>1, <1>2, <1>3, <1>4

(* On Windows no handle waits for the system.                               *)
LEMMA NoneWaits ==
  ASSUME ProgInv, progHost = "windows", NEW e \in Entries
  PROVE  /\ progHandles[e].is # "waiting" /\ PP!Answer(progHandles[e]) = progHandles[e]
         /\ progHandles[e] \in ProgHandles
BY DEF ProgInv, ProgTypes, HandlesInv, HandleOf, TriesInv, PP!Answer

(* Handles of their entries are so after the step as well.                  *)
LEMMA HandlesHold ==
  ASSUME ProgTypes, ProgGrows, \A f \in Entries : HandleOf(f, progHandles'[f]),
         \A f \in Entries : progHandles'[f] # PP!Nothing => progDoc'.app[f] \in ProgApps
  PROVE  HandlesInv'
<1> SUFFICES ASSUME NEW f \in Entries PROVE HandleOf(f, progHandles[f])'
  BY DEF HandlesInv
<1>1. \E h : progHandles'[f] = h /\ HandleOf(f, h)
  OBVIOUS
<1>2. PICK h : progHandles'[f] = h /\ HandleOf(f, h)
  BY <1>1
<1>3. HandleOf(f, h)'
  BY <1>2, HandleStays
<1> QED BY <1>2, <1>3 DEF HandleOf, Opened

(* A command that changes the handle of one entry, if at all, where no      *)
(* other command has it.                                                   *)
OneHandle(c, e, h) ==
  /\ e \in Entries /\ HandleOf(e, h) /\ progHandles' = [progHandles EXCEPT ![e] = h]
  /\ h # PP!Nothing => progDoc.app[e] \in ProgApps
  /\ progHost = "windows" =>
       \A d \in Commands \ {c} :
         Holds(progCommand[d]) => progCommand[d].entry # e \/ h = PP!Reserved
  /\ progHost = "windows" =>
       \A i \in DOMAIN progProcs :
         LivesBy(i, e) => \/ h \in {PP!Reserved, [is |-> "running", of |-> i]}
                          \/ progDoc.app[e] = "deleted"

(* The command may begin to hold the entry, which then is nobody else's.    *)
LEMMA OneHandleHolds ==
  ASSUME ProgInv, NEW c \in Commands, NEW r, CommandStep(c, r), NEW e, NEW h, OneHandle(c, e, h),
         progHolder' \in Commands \union {"nobody"},
         progHost = "windows" =>
           /\ \A d \in Commands \ {c} :
                progCommand[d].at = "start" => progHolder' = progHolder
           /\ Holds(r) => /\ SpawnOf(c, r)'
                          /\ \A d \in Commands \ {c} :
                               Holds(progCommand[d]) => progCommand[d].entry # r.entry
  PROVE  ProgInv'
<1>1. /\ progHandles' \in [Entries -> ProgHandles] /\ progHandles'[e] = h
      /\ \A f \in Entries \ {e} : progHandles'[f] = progHandles[f]
  BY DEF ProgInv, ProgTypes, OneHandle, HandleOf
<1>2. HandlesInv'
  <2>1. \A f \in Entries : HandleOf(f, progHandles'[f])
    BY <1>1 DEF ProgInv, HandlesInv, OneHandle
  <2>2. \A f \in Entries : progHandles'[f] # PP!Nothing => progDoc.app[f] \in ProgApps
    BY <1>1 DEF ProgInv, HandlesInv, OneHandle
  <2>3. ProgGrows /\ ProgTypes
    BY ProgSame DEF ProgInv, CommandStep
  <2> QED BY <2>1, <2>2, <2>3, HandlesHold DEF CommandStep
<1>3. SpawnInv'
  <2> SUFFICES ASSUME progHost = "windows" PROVE SpawnInv'
    BY DEF SpawnInv, CommandStep
  <2>0. /\ \A d \in Commands : SpawnOf(d, progCommand[d])
        /\ LivesInv /\ PP!EntryRunsOnce /\ GoesOnAs(c, r)
    BY DEF SpawnInv, ProgInv, CommandStep
  <2>1. ASSUME NEW d \in Commands \ {c} PROVE SpawnOf(d, progCommand[d])'
    <3>1. progCommand'[d] = progCommand[d] /\ SpawnOf(d, progCommand[d])
      BY <2>0 DEF GoesOnAs
    <3>2. progCommand[d].at = "start" => progHolder' = progHolder
      OBVIOUS
    <3>3. Holds(progCommand[d]) =>
            \/ progHandles'[progCommand[d].entry] = PP!Reserved
            \/ progDoc.app[progCommand[d].entry] = "deleted"
      <4>1. Holds(progCommand[d]) => progCommand[d].entry \in Entries
        BY CommandFields DEF Holds, ProgInv
      <4> QED BY <1>1, <3>1, <4>1 DEF OneHandle, SpawnOf
    <3> QED BY <3>1, <3>2, <3>3 DEF SpawnOf, Holds, LivesBy, CommandStep
  <2>2. SpawnOf(c, progCommand[c])'
    <3>1. progCommand'[c] = r
      BY <2>0 DEF GoesOnAs
    <3>2. CASE Holds(r)
      BY <3>1, <3>2 DEF SpawnOf, Holds, LivesBy
    <3>3. CASE ~Holds(r)
      BY <3>1, <3>3 DEF SpawnOf, Holds
    <3> QED BY <3>2, <3>3
  <2>3. ASSUME NEW d \in Commands, NEW f \in Commands,
               Holds(progCommand'[d]), Holds(progCommand'[f]),
               progCommand'[d].entry = progCommand'[f].entry
        PROVE  d = f
    BY <2>0, <2>3 DEF GoesOnAs, SpawnInv, ProgInv
  <2>4. LivesInv'
    BY <1>1, <2>0 DEF LivesInv, LivesBy, OneHandle, CommandStep
  <2>5. PP!EntryRunsOnce'
    BY <2>0 DEF PP!EntryRunsOnce, CommandStep
  <2> QED BY <2>1, <2>2, <2>3, <2>4, <2>5 DEF SpawnInv, Holds
<1> QED BY <1>1, <1>2, <1>3, CommandStepHolds

(* The snapshot that ends a command drops no handle of what lives.          *)
LEMMA SnapshotKeeps ==
  ASSUME ProgInv, NEW c \in Commands, PP!Snapshot(c)
  PROVE  ProgInv'
<1>0. ProgTypes /\ HandlesInv /\ TriesInv
  BY DEF ProgInv
<1>1. PICK r : CommandStep(c, r) /\ ~Holds(r)
  BY <1>0, EndingCommand DEF PP!Snapshot
<1>2. progHolder' = progHolder /\ progHandles' \in {progHandles, PP!Shown(progHandles)}
  BY DEF PP!Snapshot
<1>3. CASE progHandles' = progHandles
  BY <1>1, <1>2, <1>3, QuietCommand
<1>4. CASE progHandles' = PP!Shown(progHandles)
  <2>1. ASSUME NEW f \in Entries
        PROVE  /\ HandleOf(f, progHandles'[f])
               /\ progHandles'[f] # PP!Nothing => progDoc.app[f] \in ProgApps
    <3>1. progHandles'[f] = IF PP!Alive(progHandles[f]) THEN PP!Answer(progHandles[f]) ELSE PP!Nothing
      BY <1>4 DEF PP!Shown
    <3>2. HandleOf(f, progHandles[f]) /\ HandleOf(f, PP!Answer(progHandles[f]))
      BY <1>0, AnswerOf DEF HandlesInv
    <3>3. PP!Alive(progHandles[f]) => progHandles[f] # PP!Nothing
      BY DEF PP!Alive, PP!Nothing
    <3> QED BY <1>0, <3>1, <3>2, <3>3, PlainHandles DEF HandlesInv
  <2>2. progHandles' \in [Entries -> ProgHandles]
    <3>1. \A f \in Entries : progHandles'[f] \in ProgHandles
      BY <2>1 DEF HandleOf
    <3>2. progHandles' = [f \in Entries |-> progHandles'[f]]
      BY <1>4 DEF PP!Shown
    <3> QED BY <3>1, <3>2
  <2>3. HandlesInv'
    BY <1>0, <1>1, <2>1, HandlesHold, ProgSame DEF CommandStep
  <2>4. SpawnInv'
    <3> SUFFICES ASSUME progHost = "windows" PROVE SpawnInv'
      BY <1>1 DEF SpawnInv, CommandStep
    <3>0. /\ \A d \in Commands : SpawnOf(d, progCommand[d])
          /\ LivesInv /\ PP!EntryRunsOnce /\ GoesOnAs(c, r)
      BY <1>1 DEF SpawnInv, ProgInv, CommandStep
    <3>1. ASSUME NEW f \in Entries
          PROVE  /\ progHandles[f] = PP!Reserved => progHandles'[f] = PP!Reserved
                 /\ \A i \in DOMAIN progProcs :
                      progHandles[f] = [is |-> "running", of |-> i] /\ progProcs[i].alive =>
                        progHandles'[f] = progHandles[f]
      BY <1>4, NoneWaits DEF PP!Shown, PP!Alive, PP!Reserved
    <3>2. ASSUME NEW d \in Commands PROVE SpawnOf(d, progCommand[d])'
      <4>1. CASE d = c
        BY <1>1, <3>0, <4>1 DEF SpawnOf, Holds, GoesOnAs
      <4>2. CASE d # c
        <5>1. progCommand'[d] = progCommand[d] /\ SpawnOf(d, progCommand[d])
          BY <3>0, <4>2 DEF GoesOnAs
        <5>2. Holds(progCommand[d]) => progCommand[d].entry \in Entries
          BY <1>0, CommandFields DEF Holds
        <5> QED BY <1>1, <1>2, <3>1, <5>1, <5>2 DEF SpawnOf, Holds, LivesBy, CommandStep
      <4> QED BY <4>1, <4>2
    <3>3. ASSUME NEW d \in Commands, NEW f \in Commands,
                 Holds(progCommand'[d]), Holds(progCommand'[f]),
                 progCommand'[d].entry = progCommand'[f].entry
          PROVE  d = f
      BY <1>1, <3>0, <3>3 DEF GoesOnAs, SpawnInv, ProgInv
    <3>4. LivesInv'
      BY <1>1, <3>0, <3>1 DEF LivesInv, LivesBy, CommandStep
    <3>5. PP!EntryRunsOnce'
      BY <1>1, <3>0 DEF PP!EntryRunsOnce, CommandStep
    <3> QED BY <3>2, <3>3, <3>4, <3>5 DEF SpawnInv, Holds
  <2>5. progHolder' \in Commands \union {"nobody"}
    BY <1>0, <1>2 DEF ProgTypes
  <2> QED BY <1>1, <2>2, <2>3, <2>4, <2>5, CommandStepHolds
<1> QED BY <1>2, <1>3, <1>4

(* A reservation: the entry is present, no process lives for it, and nobody *)
(* else has it.                                                            *)
LEMMA ReserveKeeps ==
  ASSUME ProgInv, ProgramAssumption, NEW c \in Commands, PP!Reserve(c)
  PROVE  ProgInv'
<1> DEFINE e == progCommand[c].entry
<1>0. ProgTypes /\ HandlesInv /\ TriesInv /\ progCommand[c].at = "permit"
  BY DEF ProgInv, PP!Reserve, PP!At
<1>u. UNCHANGED <<progHost, progDoc, progProcs, progTries, progCore>>
  BY DEF PP!Reserve
<1>e. e \in Entries /\ progCommand[c].app \in ProgApps /\ ReadOf(progCommand[c])
  BY <1>0, CommandFields DEF ProgInv, ReadInv
<1>1. CASE PP!Ends(c) /\ UNCHANGED <<progHandles, progHolder>>
  BY <1>0, <1>u, <1>1, EndingCommand, QuietCommand
<1>2. CASE /\ progHolder = "nobody" /\ progDoc.rev = progCommand[c].rev
           /\ PP!Alive(progHandles[e])
           /\ progHandles' = [progHandles EXCEPT ![e] = PP!Answer(@)]
           /\ PP!Ends(c) /\ UNCHANGED progHolder
  <2>1. PICK r : CommandStep(c, r) /\ ~Holds(r)
    BY <1>0, <1>u, <1>2, EndingCommand
  <2>2. HandleOf(e, progHandles[e])
    BY <1>0, <1>e DEF HandlesInv
  <2>3. HandleOf(e, PP!Answer(progHandles[e]))
    BY <1>0, <1>e, <2>2, AnswerOf
  <2>4. progHandles' = [progHandles EXCEPT ![e] = PP!Answer(progHandles[e])]
    BY <1>0, <1>2, <1>e DEF ProgTypes
  <2>5. progDoc.app[e] \in ProgApps
    BY <1>0, <1>2, <1>e DEF ReadOf
  <2>6. progHost = "windows" =>
          PP!Answer(progHandles[e]) = progHandles[e] /\ SpawnInv /\ LivesInv
    BY <1>e, NoneWaits DEF ProgInv, SpawnInv
  <2>7. progHost = "windows" =>
          \A d \in Commands : Holds(progCommand[d]) /\ progCommand[d].entry = e =>
                                progHandles[e] = PP!Reserved
    BY <2>5, <2>6 DEF SpawnInv, SpawnOf, ProgApps
  <2>8. OneHandle(c, e, PP!Answer(progHandles[e]))
    BY <1>e, <2>3, <2>4, <2>5, <2>6, <2>7 DEF OneHandle, LivesInv
  <2>9. progHolder' \in Commands \union {"nobody"}
    BY <1>0, <1>2 DEF ProgTypes
  <2> QED BY <1>2, <2>1, <2>8, <2>9, OneHandleHolds
<1>3. CASE /\ progHolder = "nobody" /\ progDoc.rev = progCommand[c].rev
           /\ ~PP!Alive(progHandles[e])
           /\ progHandles' = [progHandles EXCEPT ![e] = PP!Reserved]
           /\ progCommand' = [progCommand EXCEPT ![c] =
                [at |-> "start", entry |-> e, app |-> @.app, port |-> progCore]]
           /\ progHolder' = IF progHost = "windows" THEN c ELSE progHolder
  <2>1. PICK r \in ProgCommands :
          /\ r = [at |-> "start", entry |-> e, app |-> progCommand[c].app, port |-> progCore]
          /\ r.at = "start" /\ r.entry = progCommand[c].entry /\ r.port = progCore
    <3> DEFINE s == [at |-> "start", entry |-> e, app |-> progCommand[c].app, port |-> progCore]
    <3>1. s \in [at : {"start", "begin"}, entry : Entries, app : ProgApps, port : ProgPorts]
      BY <1>0, <1>e DEF ProgTypes
    <3>2. s \in ProgCommands
      BY <3>1 DEF ProgCommands
    <3> QED BY <3>2
  <2>2. progCommand' = [progCommand EXCEPT ![c] = r]
    BY <1>0, <1>3, <2>1 DEF ProgTypes
  <2>3. GoesOnAs(c, r)
    BY <1>0, <2>1, <2>2, CommandBecomes
  <2>4. CommandStep(c, r)
    BY <1>u, <2>1, <2>3 DEF CommandStep, ReadOf, AskOf
  <2>5. progDoc.app[e] \in ProgApps /\ progDoc.app[e] # "deleted"
    BY <1>0, <1>3, <1>e DEF ReadOf, ProgApps
  <2>6. progHandles[e] # PP!Reserved
        /\ \A i \in DOMAIN progProcs :
             progProcs[i].alive => progHandles[e] # [is |-> "running", of |-> i]
    BY <1>3 DEF PP!Alive, PP!Reserved
  <2>7. progHost = "windows" =>
          /\ \A d \in Commands : SpawnOf(d, progCommand[d])
          /\ LivesInv
    BY DEF ProgInv, SpawnInv
  <2>8. progHost = "windows" =>
          /\ \A d \in Commands : progCommand[d].at # "start"
          /\ \A d \in Commands : Holds(progCommand[d]) => progCommand[d].entry # e
          /\ \A i \in DOMAIN progProcs : ~LivesBy(i, e)
    <3> SUFFICES ASSUME progHost = "windows"
                 PROVE  /\ \A d \in Commands : progCommand[d].at # "start"
                        /\ \A d \in Commands : Holds(progCommand[d]) => progCommand[d].entry # e
                        /\ \A i \in DOMAIN progProcs : ~LivesBy(i, e)
      OBVIOUS
    <3>1. \A d \in Commands : progCommand[d].at # "start"
      BY <1>3, <2>7 DEF SpawnOf, ProgramAssumption
    <3>2. \A d \in Commands : Holds(progCommand[d]) => progCommand[d].entry # e
      BY <2>5, <2>6, <2>7 DEF SpawnOf
    <3>3. \A i \in DOMAIN progProcs : ~LivesBy(i, e)
      BY <1>e, <2>5, <2>6, <2>7 DEF LivesInv, LivesBy
    <3> QED BY <3>1, <3>2, <3>3
  <2>9. OneHandle(c, e, PP!Reserved)
    BY <1>3, <1>e, <2>5, PlainHandles DEF OneHandle
  <2>10. progHolder' \in Commands \union {"nobody"}
    BY <1>0, <1>3 DEF ProgTypes
  <2>11. progHost = "windows" => SpawnOf(c, r)'
    <3> SUFFICES ASSUME progHost = "windows" PROVE SpawnOf(c, r)'
      OBVIOUS
    <3>1. progHolder' = c /\ progCore' = progCore /\ progHandles'[e] = PP!Reserved
      BY <1>0, <1>3, <1>e, <1>u DEF ProgTypes
    <3>2. \A i \in DOMAIN progProcs' : ~LivesBy(i, r.entry)'
      BY <1>u, <2>1, <2>8 DEF LivesBy
    <3> QED BY <2>1, <2>3, <3>1, <3>2 DEF SpawnOf, GoesOnAs
  <2> QED BY <1>e, <2>1, <2>4, <2>8, <2>9, <2>10, <2>11, OneHandleHolds
<1> QED BY <1>1, <1>2, <1>3 DEF PP!Reserve

(* A start stores its handle, or gives its reservation back.                *)
LEMMA StoreKeeps ==
  ASSUME ProgInv, NEW c \in Commands, PP!Store(c)
  PROVE  ProgInv'
<1> DEFINE e == progCommand[c].entry
           got == progCommand[c].handle
           h == IF got = PP!Nothing \/ progHandles[e] = PP!Nothing THEN PP!Nothing ELSE got
<1>0. ProgTypes /\ HandlesInv /\ progCommand[c].at = "store" /\ Holds(progCommand[c])
  BY DEF ProgInv, PP!Store, PP!At, Holds
<1>u. UNCHANGED <<progHost, progDoc, progProcs, progTries, progCore, progHolder>>
  BY DEF PP!Store
<1>e. e \in Entries /\ HandleOf(e, got)
  BY <1>0, CommandFields DEF ProgInv, AskingInv, AskOf
<1>1. PICK r : CommandStep(c, r) /\ ~Holds(r)
  BY <1>0, <1>u, EndingCommand DEF PP!Store
<1>2. progHandles' = [progHandles EXCEPT ![e] = h]
  BY <1>0, <1>e DEF PP!Store, ProgTypes
<1>3. HandleOf(e, h) /\ (h # PP!Nothing => progDoc.app[e] \in ProgApps)
  BY <1>0, <1>e, PlainHandles DEF HandlesInv
<1>4. progHost = "windows" =>
        /\ \A d \in Commands \ {c} : Holds(progCommand[d]) => progCommand[d].entry # e
        /\ \A i \in DOMAIN progProcs :
             LivesBy(i, e) => h = [is |-> "running", of |-> i] \/ progDoc.app[e] = "deleted"
  <2> SUFFICES ASSUME progHost = "windows"
               PROVE  /\ \A d \in Commands \ {c} : Holds(progCommand[d]) => progCommand[d].entry # e
                      /\ \A i \in DOMAIN progProcs :
                           LivesBy(i, e) => \/ h = [is |-> "running", of |-> i]
                                            \/ progDoc.app[e] = "deleted"
    OBVIOUS
  <2>1. /\ \A d \in Commands \ {c} : Holds(progCommand[d]) => progCommand[d].entry # e
        /\ SpawnOf(c, progCommand[c])
    BY <1>0 DEF ProgInv, SpawnInv
  <2>2. \A i \in DOMAIN progProcs : LivesBy(i, e) => got = [is |-> "running", of |-> i]
    BY <1>0, <2>1 DEF SpawnOf
  <2>3. \A i : [is |-> "running", of |-> i] # PP!Nothing
    BY DEF PP!Nothing
  <2>4. progHandles[e] = PP!Reserved \/ progDoc.app[e] = "deleted"
    BY <1>0, <2>1 DEF SpawnOf
  <2>5. PP!Reserved # PP!Nothing
    BY DEF PP!Nothing, PP!Reserved
  <2> QED BY <2>1, <2>2, <2>3, <2>4, <2>5
<1>5. OneHandle(c, e, h)
  <2> HIDE DEF h, e
  <2> QED BY <1>2, <1>3, <1>4, <1>e DEF OneHandle
<1>6. progHolder' \in Commands \union {"nobody"}
  BY <1>0, <1>u DEF ProgTypes
<1> QED BY <1>1, <1>5, <1>6, <1>u, OneHandleHolds

(* The list is written, by c as r: the next revision, with no deleted entry *)
(* revived and no handle of an entry that is not there.                     *)
LEMMA ListWritten ==
  ASSUME ProgInv, ProgramAssumption, NEW c \in Commands, NEW r, GoesOnAs(c, r),
         r.at \in {"idle", "snapshot"},
         progDoc' \in ProgDocs, progDoc'.rev = progDoc.rev + 1,
         UNCHANGED <<progHost, progProcs, progTries, progCore, progHolder>>,
         progHandles' \in [Entries -> ProgHandles], HandlesInv',
         \A f \in Entries :
           /\ progDoc.app[f] = "deleted" => progDoc'.app[f] = "deleted"
           /\ progHandles'[f] = progHandles[f] \/ progDoc'.app[f] = "deleted"
  PROVE  ProgInv'
<1>0. ProgTypes /\ ProgGrows
  BY ProgSame DEF ProgInv
<1>1. ProgTypes'
  BY <1>0 DEF ProgTypes, ProgPorts, GoesOnAs, ProgDocs, ProgCommands, ProgProcs, ProgTries
<1>2. ReadInv'
  <2> SUFFICES ASSUME NEW d \in Commands PROVE ReadOf(progCommand[d])'
    BY DEF ReadInv
  <2>1. ReadOf(progCommand[d]) /\ (progCommand'[d] = progCommand[d] \/ progCommand'[d] = r)
    BY DEF ProgInv, ReadInv, GoesOnAs
  <2>2. progDoc.rev \in Nat
    BY <1>0 DEF ProgTypes, ProgDocs
  <2>3. /\ progCommand[d].at \in {"migrate", "save"} => progCommand[d].new.rev \in Nat
        /\ progCommand[d].at \in {"look", "permit"} => progCommand[d].rev \in Nat
    BY <1>0, CommandFields DEF ProgDocs
  <2> QED BY <2>1, <2>2, <2>3 DEF ReadOf
<1>3. AskingInv'
  <2>2. \A x : AskOf(x) => AskOf(x)'
    BY DEF AskOf, HandleOf, Opened
  <2>3. \A d \in Commands : AskOf(progCommand[d])'
    <3>1. AskOf(r)
      BY DEF AskOf
    <3>2. \A d \in Commands : AskOf(progCommand'[d])
      BY <3>1 DEF ProgInv, AskingInv, GoesOnAs
    <3> QED BY <2>2, <3>2
  <2> QED BY <2>3 DEF AskingInv, ProgInv, GoesOnAs
<1>4. TriesInv' /\ MacInv'
  BY DEF ProgInv, TriesInv, TryOf, TryPair, MacInv
<1>5. SpawnInv'
  <2> SUFFICES ASSUME progHost = "windows" PROVE SpawnInv'
    BY DEF SpawnInv
  <2>0. /\ \A d \in Commands : SpawnOf(d, progCommand[d])
        /\ LivesInv /\ PP!EntryRunsOnce
    BY DEF SpawnInv, ProgInv
  <2>1. ASSUME NEW d \in Commands PROVE SpawnOf(d, progCommand[d])'
    <3>1. CASE d = c
      BY <3>1 DEF SpawnOf, Holds, GoesOnAs
    <3>2. CASE d # c
      <4>1. progCommand'[d] = progCommand[d] /\ SpawnOf(d, progCommand[d])
        BY <2>0, <3>2 DEF GoesOnAs
      <4>2. Holds(progCommand[d]) => progCommand[d].entry \in Entries
        BY <1>0, CommandFields DEF Holds
      <4> QED BY <4>1, <4>2 DEF SpawnOf, Holds, LivesBy
    <3> QED BY <3>1, <3>2
  <2>2. ASSUME NEW d \in Commands, NEW f \in Commands,
               Holds(progCommand'[d]), Holds(progCommand'[f]),
               progCommand'[d].entry = progCommand'[f].entry
        PROVE  d = f
    BY <2>2 DEF GoesOnAs, SpawnInv, ProgInv, Holds
  <2>3. LivesInv'
    BY <2>0 DEF LivesInv, LivesBy
  <2>4. PP!EntryRunsOnce'
    BY <2>0 DEF PP!EntryRunsOnce
  <2> QED BY <2>1, <2>2, <2>3, <2>4 DEF SpawnInv, Holds
<1> QED BY <1>1, <1>2, <1>3, <1>4, <1>5 DEF ProgInv

(* What was edited is written if nobody else has written meanwhile; a       *)
(* deletion takes the handle with it.                                      *)
LEMMA WritingSteps ==
  ASSUME ProgInv, ProgramAssumption, NEW c \in Commands,
         PP!Migrate(c) \/ PP!Write(c) \/ PP!Delete(c)
  PROVE  ProgInv'
<1>0. ProgTypes /\ HandlesInv /\ progDoc \in ProgDocs /\ MaxSaves \in Nat
  BY DEF ProgInv, ProgTypes, ProgramAssumption
<1>d. /\ progDoc.rev \in 0..MaxSaves /\ progDoc.paths \subseteq Entries
      /\ progDoc.app \in [Entries -> ProgApps \union {"unborn", "deleted"}]
  BY <1>0 DEF ProgDocs
<1>u. UNCHANGED <<progHost, progProcs, progTries, progCore, progHolder>>
  BY DEF PP!Migrate, PP!Write, PP!Delete
<1>g. ProgGrows
  BY <1>0, <1>u, ProgSame
<1>1. CASE PP!Ends(c) \/ PP!Shows(c)
  <2> PICK r \in ProgCommands : GoesOnAs(c, r) /\ r.at \in {"idle", "snapshot"}
    BY <1>0, <1>1, CommandEnds
  <2>1. CASE progDoc' = progDoc /\ progHandles' = progHandles
    BY <1>0, <1>1, <1>u, <2>1, EndingCommand, QuietCommand
  <2>2. CASE /\ progCommand[c].at \in {"migrate", "save"} /\ PP!IsCurrent(c)
             /\ progDoc' = progCommand[c].new /\ progHandles' = progHandles
    <3>1. progDoc' \in ProgDocs
      BY <1>0, <2>2, CommandFields
    <3>2. progDoc'.rev = progDoc.rev + 1
      BY <2>2 DEF PP!IsCurrent
    <3>3. Edits(progDoc, progDoc')
      BY <2>2, <3>2 DEF ProgInv, ReadInv, ReadOf
    <3>4. HandlesInv'
      <4>1. \A f \in Entries : HandleOf(f, progHandles'[f])
        BY <1>0, <2>2 DEF HandlesInv
      <4>2. \A f \in Entries : progHandles'[f] # PP!Nothing => progDoc'.app[f] \in ProgApps
        BY <1>0, <2>2, <3>3 DEF HandlesInv, Edits
      <4> QED BY <1>0, <1>g, <4>1, <4>2, HandlesHold
    <3>5. progHandles' \in [Entries -> ProgHandles]
      BY <1>0, <2>2 DEF ProgTypes
    <3> QED BY <1>u, <2>2, <3>1, <3>2, <3>3, <3>4, <3>5, ListWritten DEF Edits
  <2>3. ASSUME NEW e \in Entries, progDoc.rev < MaxSaves,
               progDoc' = [progDoc EXCEPT !.rev = @ + 1, !.app[e] = "deleted",
                                          !.paths = @ \ {e}],
               progHandles' = [progHandles EXCEPT ![e] = PP!Nothing]
        PROVE  ProgInv'
    <3> DEFINE apps == [progDoc.app EXCEPT ![e] = "deleted"]
    <3>1. /\ apps \in [Entries -> ProgApps \union {"unborn", "deleted"}] /\ apps[e] = "deleted"
          /\ \A f \in Entries \ {e} : apps[f] = progDoc.app[f]
      BY <1>d
    <3>2. progDoc' = [progDoc EXCEPT !.rev = progDoc.rev + 1, !.app = apps,
                                     !.paths = progDoc.paths \ {e}]
      BY <1>0, <2>3 DEF ProgDocs
    <3> HIDE DEF apps
    <3>3. progDoc.rev + 1 \in 0..MaxSaves /\ progDoc.paths \ {e} \in SUBSET Entries
      BY <1>0, <1>d, <2>3
    <3>4. progDoc' \in ProgDocs /\ progDoc'.rev = progDoc.rev + 1 /\ progDoc'.app = apps
      BY <1>0, <3>1, <3>2, <3>3 DEF ProgDocs
    <3>5. /\ progHandles' \in [Entries -> ProgHandles] /\ progHandles'[e] = PP!Nothing
          /\ \A f \in Entries \ {e} : progHandles'[f] = progHandles[f]
      <4>1. PP!Nothing \in ProgHandles
        BY PlainHandles DEF HandleOf
      <4> QED BY <1>0, <2>3, <4>1 DEF ProgTypes
    <3>6. HandlesInv'
      <4>1. \A f \in Entries : HandleOf(f, progHandles'[f])
        BY <1>0, <3>5, PlainHandles DEF HandlesInv
      <4>2. \A f \in Entries : progHandles'[f] # PP!Nothing => progDoc'.app[f] \in ProgApps
        BY <1>0, <3>1, <3>4, <3>5 DEF HandlesInv
      <4> QED BY <1>0, <1>g, <4>1, <4>2, HandlesHold
    <3>7. \A f \in Entries :
            /\ progDoc.app[f] = "deleted" => progDoc'.app[f] = "deleted"
            /\ progHandles'[f] = progHandles[f] \/ progDoc'.app[f] = "deleted"
      BY <3>1, <3>4, <3>5
    <3> QED BY <1>u, <3>4, <3>5, <3>6, <3>7, ListWritten
  <2>4. CASE PP!Migrate(c)
    BY <2>1, <2>2, <2>4 DEF PP!Migrate, PP!At
  <2>5. CASE PP!Write(c)
    BY <2>1, <2>2, <2>5 DEF PP!Write, PP!At
  <2>6. CASE PP!Delete(c)
    BY <2>3, <2>6 DEF PP!Delete, PP!Present
  <2> QED BY <2>4, <2>5, <2>6
<1> QED BY <1>1 DEF PP!Migrate, PP!Write, PP!Delete

(* What a command takes with it stays its own.                              *)
LEMMA AskStays ==
  ASSUME ProgTypes, ProgGrows, NEW r, AskOf(r),
         r.at = "again" => /\ progTries'[r.handle.of].status = "pending"
                           /\ ~progTries'[r.handle.of].asked
  PROVE  AskOf(r)'
<1>1. \A e, h : HandleOf(e, h) => HandleOf(e, h)'
  BY HandleStays
<1>2. r.at \in {"again", "wait", "store"} => HandleOf(r.entry, r.handle)'
  BY <1>1 DEF AskOf
<1> QED BY <1>2 DEF AskOf, ProgGrows

(* A process more.                                                          *)
LEMMA ProcessAdded ==
  ASSUME ProgTypes, NEW p \in ProgProcs, progProcs' = Append(progProcs, p)
  PROVE  /\ progProcs' \in Seq(ProgProcs) /\ Len(progProcs) \in Nat
         /\ DOMAIN progProcs = 1..Len(progProcs)
         /\ DOMAIN progProcs' = DOMAIN progProcs \union {Len(progProcs) + 1}
         /\ \A i \in DOMAIN progProcs : progProcs'[i] = progProcs[i]
         /\ progProcs'[Len(progProcs) + 1] = p
<1>1. progProcs \in Seq(ProgProcs)
  BY DEF ProgTypes
<1>2. Len(progProcs') = Len(progProcs) + 1 /\ progProcs' \in Seq(ProgProcs)
  BY <1>1
<1>3. DOMAIN progProcs' = 1..(Len(progProcs) + 1) /\ DOMAIN progProcs = 1..Len(progProcs)
      /\ Len(progProcs) \in Nat
  BY <1>1, <1>2
<1> QED BY <1>1, <1>2, <1>3

(* The steps of the world: processes of the user start, processes end, the  *)
(* core changes, though not under a start that has the permit.              *)
LEMMA ProgWorldStep ==
  ASSUME ProgInv, ProgGrows, UNCHANGED <<progDoc, progHandles, progTries, progHolder, progCommand>>,
         \A i \in DOMAIN progProcs' \ DOMAIN progProcs : progProcs'[i].by = "user",
         MacInv', progCore' \in ProgPorts,
         progCore' \in {0, progCore} \/ progHolder = "nobody",
         "nobody" \notin Commands
  PROVE  ProgInv'
<1>0. ProgTypes /\ progHost' = progHost
  BY DEF ProgInv, ProgGrows
<1>1. ProgTypes'
  BY <1>0 DEF ProgTypes, ProgPorts, ProgGrows, ProgDocs, ProgCommands, ProgProcs, ProgTries
<1>2. HandlesInv' /\ ReadInv'
  <2>1. HandlesInv'
    <3>1. \A f \in Entries : HandleOf(f, progHandles'[f])
      BY DEF ProgInv, HandlesInv
    <3>2. \A f \in Entries : progHandles'[f] # PP!Nothing => progDoc'.app[f] \in ProgApps
      BY DEF ProgInv, HandlesInv
    <3> QED BY <1>0, <3>1, <3>2, HandlesHold
  <2> QED BY <2>1 DEF ProgInv, ReadInv, ReadOf
<1>3. AskingInv'
  <2>1. ASSUME NEW c \in Commands PROVE AskOf(progCommand[c])'
    <3>1. PICK r : r = progCommand[c]
      OBVIOUS
    <3>2. AskOf(r)
      BY <3>1 DEF ProgInv, AskingInv
    <3>3. AskOf(r)'
      BY <1>0, <3>2, AskStays DEF AskOf
    <3> QED BY <3>1, <3>3 DEF AskOf, HandleOf, Opened
  <2> QED BY <2>1 DEF ProgInv, AskingInv
<1>4. TriesInv'
  <2>1. ASSUME NEW t \in DOMAIN progTries PROVE TryOf(t)'
    BY DEF ProgInv, TriesInv, TryOf, ProgGrows
  <2>2. ASSUME NEW t \in DOMAIN progTries, NEW u \in DOMAIN progTries PROVE TryPair(t, u)'
    BY DEF ProgInv, TriesInv, TryPair
  <2> QED BY <1>0, <2>1, <2>2 DEF ProgInv, TriesInv
<1>5. SpawnInv'
  <2> SUFFICES ASSUME progHost = "windows" PROVE SpawnInv'
    BY <1>0 DEF SpawnInv
  <2>0. /\ \A c \in Commands : SpawnOf(c, progCommand[c])
        /\ LivesInv /\ PP!EntryRunsOnce
    BY DEF SpawnInv, ProgInv
  <2>u. "user" \notin Entries
    BY DEF Entries
  <2>1. \A e \in Entries, i \in DOMAIN progProcs' :
          LivesBy(i, e)' => i \in DOMAIN progProcs /\ LivesBy(i, e)
    BY <2>u DEF LivesBy, ProgGrows
  <2>2. ASSUME NEW c \in Commands PROVE SpawnOf(c, progCommand[c])'
    <3>1. SpawnOf(c, progCommand[c]) /\ (Holds(progCommand[c]) => progCommand[c].entry \in Entries)
      BY <1>0, <2>0, CommandFields DEF Holds
    <3>2. progCommand[c].at = "start" =>
            progHolder' = c /\ progCore' \in {0, progCommand[c].port}
      BY <3>1 DEF SpawnOf
    <3>3. Holds(progCommand[c]) => \/ progHandles'[progCommand[c].entry] = PP!Reserved
                                   \/ progDoc'.app[progCommand[c].entry] = "deleted"
      BY <3>1 DEF SpawnOf
    <3>4. progCommand[c].at = "start" =>
            \A i \in DOMAIN progProcs' : ~LivesBy(i, progCommand[c].entry)'
      BY <2>1, <3>1 DEF SpawnOf, Holds, LivesBy
    <3>5. progCommand[c].at = "store" =>
            \A i \in DOMAIN progProcs' :
              LivesBy(i, progCommand[c].entry)' =>
                progCommand[c].handle = [is |-> "running", of |-> i]
      BY <2>1, <3>1 DEF SpawnOf, Holds, LivesBy
    <3> QED BY <3>2, <3>3, <3>4, <3>5 DEF SpawnOf, Holds, LivesBy
  <2>3. LivesInv'
    BY <2>0, <2>1 DEF LivesInv, LivesBy
  <2>4. PP!EntryRunsOnce'
    BY <2>0 DEF PP!EntryRunsOnce, ProgGrows
  <2> QED BY <2>2, <2>3, <2>4 DEF SpawnInv, ProgInv, Holds
<1> QED BY <1>1, <1>2, <1>3, <1>4, <1>5 DEF ProgInv

(* Each of them.                                                            *)
LEMMA ProgWorldSteps ==
  ASSUME ProgInv, ProgramAssumption, PP!Starts \/ PP!Quits \/ PP!Configure \/ PP!CoreDies
  PROVE  ProgInv'
<1>0. ProgTypes /\ MacInv /\ "nobody" \notin Commands /\ progCore \in ProgPorts
  BY DEF ProgInv, ProgTypes, ProgramAssumption
<1>1. CASE PP!Starts
  <2>1. PICK app \in ProgApps :
          /\ progHost = "macos" => PP!Running(app) = {}
          /\ progProcs' = Append(progProcs, PP!Process(app, "user", 0))
    BY <1>1 DEF PP!Starts, ProgApps
  <2>2. UNCHANGED <<progHost, progDoc, progHandles, progTries, progCore, progHolder, progCommand>>
    BY <1>1 DEF PP!Starts
  <2>3. PICK p \in ProgProcs :
          p = PP!Process(app, "user", 0) /\ p.by = "user" /\ p.app = app
    <3>1. PP!Process(app, "user", 0) \in ProgProcs
      BY DEF PP!Process, ProgProcs
    <3> QED BY <3>1 DEF PP!Process
  <2>4. progProcs' = Append(progProcs, p)
    BY <2>1, <2>3
  <2>5. /\ progProcs' \in Seq(ProgProcs)
        /\ DOMAIN progProcs' = DOMAIN progProcs \union {Len(progProcs) + 1}
        /\ \A i \in DOMAIN progProcs : progProcs'[i] = progProcs[i]
        /\ progProcs'[Len(progProcs) + 1] = p
    BY <1>0, <2>4, ProcessAdded
  <2>6. ProgGrows
    BY <1>0, <2>2, <2>5 DEF ProgGrows, ProgTypes
  <2>7. MacInv'
    BY <1>0, <2>1, <2>2, <2>3, <2>5 DEF MacInv, PP!Running
  <2> QED BY <1>0, <2>2, <2>3, <2>5, <2>6, <2>7, ProgWorldStep
<1>2. CASE PP!Quits
  <2>1. PICK i \in DOMAIN progProcs : progProcs' = [progProcs EXCEPT ![i].alive = FALSE]
    BY <1>2 DEF PP!Quits
  <2>2. UNCHANGED <<progHost, progDoc, progHandles, progTries, progCore, progHolder, progCommand>>
    BY <1>2 DEF PP!Quits
  <2>3. PICK p : p = [progProcs[i] EXCEPT !.alive = FALSE]
    OBVIOUS
  <2>4. progProcs \in Seq(ProgProcs) /\ progProcs[i] \in ProgProcs
    BY <1>0 DEF ProgTypes
  <2>5. p \in ProgProcs /\ p.app = progProcs[i].app /\ p.by = progProcs[i].by /\ p.alive = FALSE
    BY <2>3, <2>4 DEF ProgProcs
  <2>6. progProcs' = [progProcs EXCEPT ![i] = p]
    BY <2>1, <2>3
  <2>7. /\ progProcs' \in Seq(ProgProcs) /\ DOMAIN progProcs' = DOMAIN progProcs
        /\ progProcs'[i] = p
        /\ \A j \in DOMAIN progProcs \ {i} : progProcs'[j] = progProcs[j]
    BY <2>4, <2>5, <2>6
  <2>8. ProgGrows
    BY <1>0, <2>2, <2>5, <2>7 DEF ProgGrows, ProgTypes
  <2>9. MacInv'
    BY <1>0, <2>2, <2>5, <2>7 DEF MacInv
  <2> QED BY <1>0, <2>2, <2>7, <2>8, <2>9, ProgWorldStep
<1>3. CASE PP!Configure \/ PP!CoreDies
  <2>1. /\ UNCHANGED <<progHost, progDoc, progHandles, progProcs, progTries, progHolder, progCommand>>
        /\ progCore' \in ProgPorts /\ (progCore' = 0 \/ progHolder = "nobody")
    BY <1>3 DEF PP!Configure, PP!CoreDies, ProgPorts
  <2>2. ProgGrows /\ MacInv'
    BY <1>0, <2>1, ProgSame DEF MacInv
  <2> QED BY <1>0, <2>1, <2>2, ProgWorldStep
<1> QED BY <1>1, <1>2, <1>3

(* A process is started for the entry that the command holds, or none is:   *)
(* the permit is given back, the entry stays the command's.                 *)
LEMMA SpawnKeeps ==
  ASSUME ProgInv, ProgramAssumption, NEW c \in Commands, PP!Spawn(c)
  PROVE  ProgInv'
<1> DEFINE e == progCommand[c].entry
<1>0. ProgTypes /\ progCommand[c].at = "start" /\ Holds(progCommand[c]) /\ progHost = "windows"
  BY DEF ProgInv, PP!Spawn, PP!At, Holds
<1>u. UNCHANGED <<progHost, progDoc, progHandles, progTries, progCore>> /\ progHolder' = "nobody"
  BY DEF PP!Spawn
<1>e. /\ e \in Entries /\ progCommand[c].app \in ProgApps /\ progCommand[c].port \in ProgPorts
  BY <1>0, CommandFields
<1>s. /\ \A d \in Commands : SpawnOf(d, progCommand[d])
      /\ \A d \in Commands \ {c} : Holds(progCommand[d]) => progCommand[d].entry # e
      /\ LivesInv /\ PP!EntryRunsOnce
      /\ \A i \in DOMAIN progProcs : ~LivesBy(i, e)
      /\ progHolder = c
      /\ progHandles[e] = PP!Reserved \/ progDoc.app[e] = "deleted"
  BY <1>0 DEF ProgInv, SpawnInv, SpawnOf
<1>n. \A d \in Commands \ {c} : progCommand[d].at # "start"
  BY <1>s DEF SpawnOf
<1>1. CASE UNCHANGED progProcs /\ PP!With(c, "store", PP!Nothing)
  <2>1. HandleOf(e, PP!Nothing) /\ PP!Nothing \in ProgHandles
    BY PlainHandles DEF HandleOf
  <2>2. PICK r \in ProgCommands :
          GoesOnAs(c, r) /\ r.at = "store" /\ r.entry = e /\ r.handle = PP!Nothing
    BY <1>0, <1>1, <1>e, <2>1, CommandWith
  <2>3. CommandStep(c, r)
    BY <1>1, <1>u, <2>1, <2>2 DEF CommandStep, ReadOf, AskOf
  <2>4. HandleOf(e, progHandles[e])
        /\ (progHandles[e] # PP!Nothing => progDoc.app[e] \in ProgApps)
    BY <1>e DEF ProgInv, HandlesInv
  <2>5. progHandles' = [progHandles EXCEPT ![e] = progHandles[e]]
    BY <1>0, <1>e, <1>u DEF ProgTypes
  <2>6. OneHandle(c, e, progHandles[e])
    BY <1>e, <1>s, <2>4, <2>5 DEF OneHandle
  <2>7. SpawnOf(c, r)'
    <3>1. \A i \in DOMAIN progProcs' : ~LivesBy(i, r.entry)'
      BY <1>1, <1>s, <2>2 DEF LivesBy
    <3> QED BY <1>s, <1>u, <2>2, <3>1 DEF SpawnOf
  <2> QED BY <1>n, <1>s, <1>u, <2>2, <2>3, <2>6, <2>7, OneHandleHolds
<1>2. CASE /\ progProcs' = Append(progProcs, PP!Process(progCommand[c].app, e, progCommand[c].port))
           /\ PP!With(c, "store", [is |-> "running", of |-> Len(progProcs) + 1])
  <2>1. PICK p \in ProgProcs :
          p = PP!Process(progCommand[c].app, e, progCommand[c].port) /\ p.by = e
    <3>1. PP!Process(progCommand[c].app, e, progCommand[c].port) \in ProgProcs
      BY <1>e DEF PP!Process, ProgProcs
    <3> QED BY <3>1 DEF PP!Process
  <2>2. progProcs' = Append(progProcs, p)
    BY <1>2, <2>1
  <2>3. PICK new : new = Len(progProcs) + 1
    OBVIOUS
  <2>4. /\ progProcs' \in Seq(ProgProcs) /\ new \in Nat
        /\ DOMAIN progProcs' = DOMAIN progProcs \union {new}
        /\ \A i \in DOMAIN progProcs : progProcs'[i] = progProcs[i]
        /\ progProcs'[new] = p
    BY <1>0, <2>2, <2>3, ProcessAdded
  <2>5. ProgGrows
    BY <1>0, <1>u, <2>4 DEF ProgGrows, ProgTypes
  <2>6. PICK h \in ProgHandles : h = [is |-> "running", of |-> new] /\ h.is = "running" /\ h.of = new
    <3>1. [is |-> "running", of |-> new] \in ProgHandles
      BY <2>4 DEF ProgHandles
    <3> QED BY <3>1
  <2>7. PICK r \in ProgCommands :
          GoesOnAs(c, r) /\ r.at = "store" /\ r.entry = e /\ r.handle = h
    BY <1>0, <1>2, <1>e, <2>3, <2>6, CommandWith
  <2>8. ProgTypes'
    BY <1>0, <1>u, <2>4, <2>7
       DEF ProgTypes, ProgPorts, GoesOnAs, ProgDocs, ProgCommands, ProgProcs, ProgTries
  <2>9. HandlesInv' /\ ReadInv' /\ TriesInv' /\ MacInv'
    <3>1. \A f \in Entries : HandleOf(f, progHandles'[f])
      BY <1>u DEF ProgInv, HandlesInv
    <3>2. \A f \in Entries : progHandles'[f] # PP!Nothing => progDoc'.app[f] \in ProgApps
      BY <1>u DEF ProgInv, HandlesInv
    <3>3. HandlesInv'
      BY <1>0, <2>5, <3>1, <3>2, HandlesHold
    <3>4. ReadInv'
      <4>1. ReadOf(r)
        BY <2>7 DEF ReadOf
      <4> QED BY <1>u, <2>7, <4>1 DEF ProgInv, ReadInv, ReadOf, GoesOnAs
    <3>5. progTries = <<>> /\ progTries' = <<>>
      BY <1>0, <1>u DEF ProgInv, TriesInv
    <3>6. TriesInv' /\ MacInv'
      BY <1>0, <1>u, <3>5 DEF TriesInv, MacInv
    <3> QED BY <3>3, <3>4, <3>6
  <2>10. AskingInv'
    <3>1. AskOf(r)'
      BY <1>0, <1>u, <2>1, <2>4, <2>6, <2>7 DEF AskOf, HandleOf
    <3>2. ASSUME NEW d \in Commands, d # c PROVE AskOf(progCommand[d])'
      <4>1. PICK x : x = progCommand[d]
        OBVIOUS
      <4>2. AskOf(x) /\ progCommand'[d] = x
        BY <2>7, <3>2, <4>1 DEF ProgInv, AskingInv, GoesOnAs
      <4>3. AskOf(x)'
        BY <1>0, <1>u, <2>5, <4>2, AskStays DEF AskOf
      <4> QED BY <4>2, <4>3 DEF AskOf, HandleOf, Opened
    <3>3. AskOf(progCommand[c])'
      BY <2>7, <3>1 DEF AskOf, HandleOf, Opened, GoesOnAs
    <3>4. \A d \in Commands : progCommand'[d].at # "again"
      BY <1>0, <2>7, <3>2, <3>3, <1>u DEF AskOf
    <3> QED BY <3>2, <3>3, <3>4 DEF AskingInv
  <2>11. SpawnInv'
    <3>1. ASSUME NEW d \in Commands \ {c} PROVE SpawnOf(d, progCommand[d])'
      <4>1. /\ progCommand'[d] = progCommand[d] /\ SpawnOf(d, progCommand[d])
            /\ progCommand[d].at # "start"
            /\ Holds(progCommand[d]) => progCommand[d].entry # e
        BY <1>n, <1>s, <2>7 DEF GoesOnAs
      <4>2. progCommand[d].at = "store" =>
              \A i \in DOMAIN progProcs' :
                LivesBy(i, progCommand[d].entry)' =>
                  progCommand[d].handle = [is |-> "running", of |-> i]
        BY <2>1, <2>4, <4>1 DEF SpawnOf, LivesBy, Holds
      <4> QED BY <1>u, <4>1, <4>2 DEF SpawnOf, Holds, LivesBy
    <3>2. SpawnOf(c, r)'
      <4>1. \A i \in DOMAIN progProcs' : LivesBy(i, r.entry)' => i = new
        BY <1>s, <2>4, <2>7 DEF LivesBy
      <4> QED BY <1>s, <1>u, <2>6, <2>7, <4>1 DEF SpawnOf, Holds
    <3>3. SpawnOf(c, progCommand[c])'
      BY <2>7, <3>2 DEF SpawnOf, Holds, LivesBy, GoesOnAs
    <3>4. ASSUME NEW d \in Commands, NEW f \in Commands,
                 Holds(progCommand'[d]), Holds(progCommand'[f]),
                 progCommand'[d].entry = progCommand'[f].entry
          PROVE  d = f
      BY <1>0, <1>s, <2>7, <3>4 DEF GoesOnAs, SpawnInv, ProgInv
    <3>5. LivesInv'
      BY <1>s, <1>u, <2>1, <2>4 DEF LivesInv, LivesBy
    <3>6. PP!EntryRunsOnce'
      BY <1>s, <2>1, <2>4 DEF PP!EntryRunsOnce, LivesBy
    <3> QED BY <3>1, <3>3, <3>4, <3>5, <3>6 DEF SpawnInv, Holds
  <2> QED BY <2>8, <2>9, <2>10, <2>11 DEF ProgInv
<1> QED BY <1>1, <1>2 DEF PP!Spawn

(* The steps of a start on macOS that ask the system nothing.               *)
LEMMA MacWaits ==
  ASSUME ProgInv, NEW c \in Commands, progHost = "macos",
         \/ PP!MacLook(c) \/ PP!MacAnswered(c) \/ PP!MacTimeout(c)
         \/ PP!MacBegin(c) /\ UNCHANGED progTries
  PROVE  ProgInv'
<1>0. ProgTypes /\ TriesInv /\ AskOf(progCommand[c])
  BY DEF ProgInv, AskingInv
<1>u. UNCHANGED <<progHost, progDoc, progHandles, progProcs, progTries, progCore, progHolder>>
  BY DEF PP!MacLook, PP!MacAnswered, PP!MacTimeout, PP!MacBegin
<1>n. PP!Nothing \in ProgHandles /\ \A f : HandleOf(f, PP!Nothing)
  BY PlainHandles DEF HandleOf
<1>h. ASSUME NEW h \in ProgHandles, progCommand[c].entry \in Entries,
             HandleOf(progCommand[c].entry, h), PP!With(c, "store", h)
      PROVE  ProgInv'
  <2>1. PICK r \in ProgCommands :
          GoesOnAs(c, r) /\ r.at = "store" /\ r.entry = progCommand[c].entry /\ r.handle = h
    BY <1>0, <1>h, CommandWith
  <2>2. CommandStep(c, r)
    BY <1>h, <1>u, <2>1 DEF CommandStep, ReadOf, AskOf
  <2> QED BY <1>u, <2>2, QuietCommand
<1>f. progCommand[c].at \in {"start", "begin", "wait"} => progCommand[c].entry \in Entries
  BY <1>0, CommandFields
<1>1. CASE PP!MacLook(c)
  <2>1. CASE PP!Goto(c, "begin") /\ progCommand[c].at = "start"
    <3>1. PICK r \in ProgCommands : GoesOnAs(c, r) /\ r.at = "begin"
      BY <1>0, <2>1, CommandGoesOn
    <3>2. CommandStep(c, r)
      BY <1>u, <3>1 DEF CommandStep, ReadOf, AskOf
    <3> QED BY <1>u, <3>2, QuietCommand
  <2> QED BY <1>1, <1>f, <1>h, <1>n, <2>1 DEF PP!MacLook, PP!At
<1>2. CASE PP!MacBegin(c) /\ UNCHANGED progTries
  <2>1. progTries # Append(progTries, [app |-> progCommand[c].app, by |-> progCommand[c].entry,
             port |-> progCommand[c].port, status |-> "pending", asked |-> FALSE, since |-> 0,
             proc |-> 0])
    <3>1. \A x : Len(Append(progTries, x)) = Len(progTries) + 1 /\ Len(progTries) \in Nat
      BY <1>0 DEF ProgTypes
    <3> QED BY <3>1
  <2> QED BY <1>2, <1>f, <1>h, <1>n, <2>1 DEF PP!MacBegin, PP!At
<1>3. CASE PP!MacAnswered(c)
  <2>1. progCommand[c].at = "wait" /\ progTries[progCommand[c].handle.of].status # "pending"
    BY <1>3 DEF PP!MacAnswered, PP!At
  <2>2. /\ HandleOf(progCommand[c].entry, progCommand[c].handle)
        /\ progCommand[c].handle.is = "waiting"
    BY <1>0, <2>1 DEF AskOf
  <2>3. progCommand[c].handle.of \in DOMAIN progTries
        /\ progTries[progCommand[c].handle.of] \in ProgTries
    BY <1>0, <2>2 DEF HandleOf, ProgTypes
  <2>4. CASE progTries[progCommand[c].handle.of].status = "failed"
    <3>1. PP!With(c, "store", PP!Nothing)
      BY <1>3, <2>4 DEF PP!MacAnswered
    <3> QED BY <1>f, <1>h, <1>n, <2>1, <3>1
  <2>5. CASE progTries[progCommand[c].handle.of].status = "done"
    <3>1. PP!Answer(progCommand[c].handle) =
            [is |-> "running", of |-> progTries[progCommand[c].handle.of].proc]
      BY <2>2, <2>5 DEF PP!Answer
    <3>2. PP!With(c, "store", PP!Answer(progCommand[c].handle))
      BY <1>3, <2>5, <3>1 DEF PP!MacAnswered
    <3>3. HandleOf(progCommand[c].entry, PP!Answer(progCommand[c].handle))
      BY <1>0, <1>f, <2>1, <2>2, AnswerOf
    <3> QED BY <1>f, <1>h, <2>1, <3>2, <3>3 DEF HandleOf
  <2> QED BY <2>1, <2>3, <2>4, <2>5 DEF ProgTries
<1>4. CASE PP!MacTimeout(c)
  <2>1. progCommand[c].at = "wait" /\ PP!Goto(c, "store")
    BY <1>4 DEF PP!MacTimeout, PP!At
  <2>2. PICK r \in ProgCommands :
          /\ GoesOnAs(c, r) /\ r.at = "store" /\ r.entry = progCommand[c].entry
          /\ r.handle = progCommand[c].handle
    BY <1>0, <2>1, CommandGoesOn
  <2>3. CommandStep(c, r)
    BY <1>0, <1>u, <2>1, <2>2 DEF CommandStep, ReadOf, AskOf
  <2> QED BY <1>u, <2>3, QuietCommand
<1> QED BY <1>1, <1>2, <1>3, <1>4

(* A step on macOS that changes the requests.                               *)
LEMMA MacStep ==
  ASSUME ProgInv, progHost = "macos", ProgGrows,
         UNCHANGED <<progDoc, progHandles, progCore, progHolder>>,
         progCommand' \in [Commands -> ProgCommands],
         \A c \in Commands : \/ progCommand'[c] = progCommand[c]
                             \/ progCommand'[c].at \in {"again", "wait", "store"},
         TriesInv', AskingInv', MacInv'
  PROVE  ProgInv'
<1>0. ProgTypes /\ progHost' = progHost
  BY DEF ProgInv, ProgGrows
<1>1. ProgTypes'
  BY <1>0 DEF ProgTypes, ProgPorts, ProgGrows, ProgDocs, ProgCommands, ProgProcs, ProgTries
<1>2. HandlesInv'
  <2>1. \A f \in Entries : HandleOf(f, progHandles'[f])
    BY DEF ProgInv, HandlesInv
  <2>2. \A f \in Entries : progHandles'[f] # PP!Nothing => progDoc'.app[f] \in ProgApps
    BY DEF ProgInv, HandlesInv
  <2> QED BY <1>0, <2>1, <2>2, HandlesHold
<1>3. ReadInv'
  BY DEF ProgInv, ReadInv, ReadOf
<1>4. SpawnInv'
  BY <1>0 DEF SpawnInv
<1> QED BY <1>1, <1>2, <1>3, <1>4 DEF ProgInv

(* One request changes.                                                     *)
LEMMA RequestChanged ==
  ASSUME ProgTypes, NEW t \in DOMAIN progTries, NEW x \in ProgTries,
         progTries' = [progTries EXCEPT ![t] = x]
  PROVE  /\ progTries' \in Seq(ProgTries) /\ DOMAIN progTries' = DOMAIN progTries
         /\ progTries'[t] = x
         /\ \A u \in DOMAIN progTries \ {t} : progTries'[u] = progTries[u]
BY DEF ProgTypes

(* A request more, if none for this application waits.                      *)
LEMMA MacBegins ==
  ASSUME ProgInv, NEW c \in Commands, progHost = "macos", PP!MacBegin(c)
  PROVE  ProgInv'
<1>0. ProgTypes /\ TriesInv /\ MacInv /\ progCommand[c].at = "begin"
  BY DEF ProgInv, PP!MacBegin, PP!At
<1>u. UNCHANGED <<progHost, progDoc, progHandles, progProcs, progCore, progHolder>>
  BY DEF PP!MacBegin
<1>f. /\ progCommand[c].entry \in Entries /\ progCommand[c].app \in ProgApps
      /\ progCommand[c].port \in ProgPorts
  BY <1>0, CommandFields
<1>1. CASE UNCHANGED progTries
  BY <1>1, MacWaits
<1>2. CASE progTries' # progTries
  <2> DEFINE new == Len(progTries) + 1
             lit == [app |-> progCommand[c].app, by |-> progCommand[c].entry,
                     port |-> progCommand[c].port, status |-> "pending", asked |-> FALSE,
                     since |-> 0, proc |-> 0]
  <2>1. /\ PP!Pending(progCommand[c].app) = {}
        /\ progTries' = Append(progTries, lit)
        /\ PP!With(c, "again", [is |-> "waiting", of |-> new])
    BY <1>2 DEF PP!MacBegin
  <2>2. PICK x \in ProgTries :
          /\ x = lit /\ x.app = progCommand[c].app /\ x.by = progCommand[c].entry
          /\ x.status = "pending" /\ x.asked = FALSE /\ x.proc = 0
    <3>1. lit \in ProgTries
      BY <1>f DEF ProgTries
    <3> QED BY <3>1
  <2>3. PICK n : n = new
    OBVIOUS
  <2>4. /\ progTries' \in Seq(ProgTries) /\ n \in Nat \ {0} /\ n \notin DOMAIN progTries
        /\ DOMAIN progTries' = DOMAIN progTries \union {n}
        /\ \A t \in DOMAIN progTries : progTries'[t] = progTries[t]
        /\ progTries'[n] = x
    <3>1. progTries \in Seq(ProgTries) /\ progTries' = Append(progTries, x)
      BY <1>0, <2>1, <2>2 DEF ProgTypes
    <3>2. /\ Len(progTries) \in Nat /\ DOMAIN progTries = 1..Len(progTries)
          /\ progTries' \in Seq(ProgTries) /\ DOMAIN progTries' = 1..(Len(progTries) + 1)
      BY <3>1
    <3>3. /\ \A t \in DOMAIN progTries : progTries'[t] = progTries[t]
          /\ progTries'[Len(progTries) + 1] = x
      BY <3>1, <3>2
    <3> QED BY <2>3, <3>2, <3>3
  <2>5. ProgGrows
    BY <1>0, <1>u, <2>4 DEF ProgGrows, ProgTypes
  <2>6. PICK h \in ProgHandles : h = [is |-> "waiting", of |-> n] /\ h.is = "waiting" /\ h.of = n
    <3>1. [is |-> "waiting", of |-> n] \in ProgHandles
      BY <2>4 DEF ProgHandles
    <3> QED BY <3>1
  <2>7. PICK r \in ProgCommands :
          GoesOnAs(c, r) /\ r.at = "again" /\ r.entry = progCommand[c].entry /\ r.handle = h
    BY <1>0, <1>f, <2>1, <2>3, <2>6, CommandWith
  <2>8. TriesInv'
    <3>1. ASSUME NEW t \in DOMAIN progTries' PROVE TryOf(t)'
      <4>1. CASE t = n
        BY <2>2, <2>4, <4>1 DEF TryOf
      <4>2. CASE t \in DOMAIN progTries
        BY <1>0, <1>u, <2>4, <4>2 DEF TriesInv, TryOf
      <4> QED BY <2>4, <4>1, <4>2
    <3>2. ASSUME NEW t \in DOMAIN progTries', NEW u \in DOMAIN progTries' PROVE TryPair(t, u)'
      <4>1. \A s \in DOMAIN progTries :
              ~(progTries[s].status = "pending" /\ progTries[s].app = x.app)
        BY <2>1, <2>2 DEF PP!Pending
      <4>2. CASE t \in DOMAIN progTries /\ u \in DOMAIN progTries
        BY <1>0, <2>4, <4>2 DEF TriesInv, TryPair
      <4> QED BY <2>2, <2>4, <4>1, <4>2 DEF TryPair
    <3> QED BY <1>u, <3>1, <3>2 DEF TriesInv
  <2>9. AskingInv'
    <3>1. AskOf(r)'
      <4>1. HandleOf(r.entry, r.handle)'
        BY <1>u, <2>2, <2>4, <2>6, <2>7 DEF HandleOf
      <4> QED BY <1>u, <2>2, <2>4, <2>6, <2>7, <4>1 DEF AskOf
    <3>2. ASSUME NEW d \in Commands, d # c
          PROVE  /\ AskOf(progCommand[d])'
                 /\ progCommand[d].at = "again" => progCommand[d].handle.of \in DOMAIN progTries
      <4>1. PICK y : y = progCommand[d]
        OBVIOUS
      <4>2. AskOf(y) /\ progCommand'[d] = y
        BY <2>7, <3>2, <4>1 DEF ProgInv, AskingInv, GoesOnAs
      <4>3. y.at = "again" => y.handle.of \in DOMAIN progTries
        BY <4>2 DEF AskOf, HandleOf
      <4>4. AskOf(y)'
        BY <1>0, <2>4, <2>5, <4>2, <4>3, AskStays DEF AskOf
      <4> QED BY <4>1, <4>2, <4>3, <4>4 DEF AskOf, HandleOf, Opened
    <3>3. AskOf(progCommand[c])'
      BY <2>7, <3>1 DEF AskOf, HandleOf, Opened, GoesOnAs
    <3>4. ASSUME NEW d \in Commands, NEW f \in Commands,
                 progCommand'[d].at = "again", progCommand'[f].at = "again",
                 progCommand'[d].handle.of = progCommand'[f].handle.of
          PROVE  d = f
      BY <2>4, <2>6, <2>7, <3>2, <3>4 DEF GoesOnAs, ProgInv, AskingInv
    <3> QED BY <3>2, <3>3, <3>4 DEF AskingInv
  <2>10. MacInv'
    BY <1>0, <1>u DEF MacInv
  <2> QED BY <1>u, <2>5, <2>7, <2>8, <2>9, <2>10, MacStep DEF GoesOnAs
<1> QED BY <1>1, <1>2

(* Where the other commands are does not depend on a request that has been  *)
(* asked, nor on one that no other of them is about to ask.                 *)
LEMMA AskingStays ==
  ASSUME ProgTypes, ProgGrows, AskingInv, NEW d \in Commands, progCommand'[d] = progCommand[d],
         progCommand[d].at = "again" =>
           progTries'[progCommand[d].handle.of] = progTries[progCommand[d].handle.of]
  PROVE  AskOf(progCommand[d])'
<1>1. PICK y : y = progCommand[d]
  OBVIOUS
<1>2. AskOf(y) /\ progCommand'[d] = y
  BY <1>1 DEF AskingInv
<1>3. AskOf(y)'
  <2>1. y.at = "again" => /\ progTries'[y.handle.of].status = "pending"
                          /\ ~progTries'[y.handle.of].asked
    BY <1>1, <1>2 DEF AskOf
  <2> QED BY <1>2, <2>1, AskStays
<1> QED BY <1>2, <1>3 DEF AskOf, HandleOf, Opened

(* The system is asked with what runs before it, or the request has failed. *)
LEMMA MacAsks ==
  ASSUME ProgInv, NEW c \in Commands, PP!MacAsk(c)
  PROVE  ProgInv'
<1>0. /\ ProgTypes /\ TriesInv /\ MacInv /\ AskingInv /\ progCommand[c].at = "again"
      /\ AskOf(progCommand[c])
  BY DEF ProgInv, AskingInv, PP!MacAsk, PP!At
<1>u. UNCHANGED <<progHost, progDoc, progHandles, progProcs, progCore, progHolder>>
  BY DEF PP!MacAsk
<1>f. progCommand[c].entry \in Entries /\ progCommand[c].handle \in ProgHandles
  BY <1>0, CommandFields
<1>1. PICK t : t = progCommand[c].handle.of
  OBVIOUS
<1>2. /\ progHost = "macos" /\ HandleOf(progCommand[c].entry, progCommand[c].handle)
      /\ progCommand[c].handle.is = "waiting"
      /\ progTries[t].status = "pending" /\ ~progTries[t].asked
  BY <1>0, <1>1 DEF AskOf
<1>3. t \in DOMAIN progTries /\ progTries[t] \in ProgTries /\ progTries[t].proc = 0
  BY <1>0, <1>1, <1>2 DEF HandleOf, ProgTypes, TriesInv, TryOf
<1>4. Len(progProcs) \in Nat /\ DOMAIN progProcs = 1..Len(progProcs)
  BY <1>0 DEF ProgTypes
<1>5. \E x \in ProgTries, r \in ProgCommands :
        /\ progTries' = [progTries EXCEPT ![t] = x]
        /\ x.app = progTries[t].app /\ x.by = progTries[t].by /\ x.proc = 0
        /\ \/ x.status = "failed" /\ r.at = "store"
           \/ x.status = "pending" /\ x.asked /\ x.since = Len(progProcs) /\ r.at = "wait"
        /\ GoesOnAs(c, r) /\ r.entry = progCommand[c].entry
        /\ r.at = "wait" => r.handle = progCommand[c].handle
        /\ r.at = "store" => r.handle = PP!Nothing
  <2>1. CASE /\ progTries' = [progTries EXCEPT ![t].status = "failed"]
             /\ PP!With(c, "store", PP!Nothing)
    <3>1. PICK x \in ProgTries : x = [progTries[t] EXCEPT !.status = "failed"]
      <4>1. [progTries[t] EXCEPT !.status = "failed"] \in ProgTries
        BY <1>3 DEF ProgTries
      <4> QED BY <4>1
    <3>2. /\ progTries' = [progTries EXCEPT ![t] = x] /\ x.status = "failed"
          /\ x.app = progTries[t].app /\ x.by = progTries[t].by /\ x.proc = 0
      BY <1>3, <2>1, <3>1 DEF ProgTries
    <3>3. PP!Nothing \in ProgHandles
      BY PlainHandles DEF HandleOf
    <3>4. PICK r \in ProgCommands :
            /\ GoesOnAs(c, r) /\ r.at = "store" /\ r.entry = progCommand[c].entry
            /\ r.handle = PP!Nothing
      BY <1>0, <1>f, <2>1, <3>3, CommandWith
    <3> QED BY <3>2, <3>4
  <2>2. CASE /\ progTries' = [progTries EXCEPT ![t].asked = TRUE, ![t].since = Len(progProcs)]
             /\ PP!Goto(c, "wait")
    <3>1. PICK x \in ProgTries :
            x = [progTries[t] EXCEPT !.asked = TRUE, !.since = Len(progProcs)]
      <4>1. [progTries[t] EXCEPT !.asked = TRUE, !.since = Len(progProcs)] \in ProgTries
        BY <1>3, <1>4 DEF ProgTries
      <4> QED BY <4>1
    <3>2. /\ x.status = "pending" /\ x.asked /\ x.since = Len(progProcs)
          /\ x.app = progTries[t].app /\ x.by = progTries[t].by /\ x.proc = 0
      BY <1>2, <1>3, <3>1 DEF ProgTries
    <3>3. progTries' = [progTries EXCEPT ![t] = x]
      BY <1>0, <1>3, <2>2, <3>1 DEF ProgTypes
    <3>4. PICK r \in ProgCommands :
            /\ GoesOnAs(c, r) /\ r.at = "wait" /\ r.entry = progCommand[c].entry
            /\ r.handle = progCommand[c].handle
      BY <1>0, <2>2, CommandGoesOn
    <3> QED BY <3>2, <3>3, <3>4
  <2> QED BY <1>1, <2>1, <2>2 DEF PP!MacAsk
<1>6. PICK x \in ProgTries : \E r \in ProgCommands :
        /\ progTries' = [progTries EXCEPT ![t] = x]
        /\ x.app = progTries[t].app /\ x.by = progTries[t].by /\ x.proc = 0
        /\ \/ x.status = "failed" /\ r.at = "store"
           \/ x.status = "pending" /\ x.asked /\ x.since = Len(progProcs) /\ r.at = "wait"
        /\ GoesOnAs(c, r) /\ r.entry = progCommand[c].entry
        /\ r.at = "wait" => r.handle = progCommand[c].handle
        /\ r.at = "store" => r.handle = PP!Nothing
  BY <1>5
<1>7. PICK r \in ProgCommands :
        /\ progTries' = [progTries EXCEPT ![t] = x]
        /\ x.app = progTries[t].app /\ x.by = progTries[t].by /\ x.proc = 0
        /\ \/ x.status = "failed" /\ r.at = "store"
           \/ x.status = "pending" /\ x.asked /\ x.since = Len(progProcs) /\ r.at = "wait"
        /\ GoesOnAs(c, r) /\ r.entry = progCommand[c].entry
        /\ r.at = "wait" => r.handle = progCommand[c].handle
        /\ r.at = "store" => r.handle = PP!Nothing
  BY <1>6
<1>8. /\ progTries' \in Seq(ProgTries) /\ DOMAIN progTries' = DOMAIN progTries
      /\ progTries'[t] = x
      /\ \A u \in DOMAIN progTries \ {t} : progTries'[u] = progTries[u]
  BY <1>0, <1>3, <1>7, RequestChanged
<1>9. ProgGrows
  BY <1>0, <1>2, <1>7, <1>8, <1>u DEF ProgGrows, ProgTypes
<1>10. TriesInv'
  <2>1. ASSUME NEW u \in DOMAIN progTries PROVE TryOf(u)'
    <3>1. CASE u = t
      BY <1>4, <1>7, <1>8, <1>u, <3>1 DEF TryOf
    <3>2. CASE u # t
      BY <1>0, <1>8, <1>u, <3>2 DEF TriesInv, TryOf
    <3> QED BY <3>1, <3>2
  <2>2. ASSUME NEW u \in DOMAIN progTries, NEW w \in DOMAIN progTries PROVE TryPair(u, w)'
    <3>1. TryPair(u, w) /\ TryPair(w, u) /\ TryOf(u)
      BY <1>0 DEF TriesInv
    <3>2. CASE u # t /\ w # t
      BY <1>8, <3>1, <3>2 DEF TryPair
    <3>3. CASE u = t /\ w # t
      BY <1>2, <1>7, <1>8, <3>1, <3>3 DEF TryPair
    <3>4. CASE u # t /\ w = t
      <4>1. progTries[u].status = "done" => progTries[u].proc <= Len(progProcs)
        BY <1>4, <3>1 DEF TryOf
      <4> QED BY <1>2, <1>7, <1>8, <3>1, <3>4, <4>1 DEF TryPair
    <3>5. CASE u = t /\ w = t
      BY <1>7, <1>8, <3>5 DEF TryPair
    <3> QED BY <3>2, <3>3, <3>4, <3>5
  <2> QED BY <1>2, <1>8, <1>u, <2>1, <2>2 DEF TriesInv
<1>11. AskingInv'
  <2>1. AskOf(r)'
    <3>1. HandleOf(r.entry, r.handle)
      BY <1>2, <1>7, PlainHandles
    <3>2. HandleOf(r.entry, r.handle)'
      BY <1>0, <1>9, <3>1, HandleStays
    <3>3. r.at = "wait" => r.handle.is = "waiting"
      BY <1>2, <1>7
    <3> QED BY <1>2, <1>7, <1>u, <3>2, <3>3 DEF AskOf
  <2>2. AskOf(progCommand[c])'
    BY <1>7, <2>1 DEF AskOf, HandleOf, Opened, GoesOnAs
  <2>3. ASSUME NEW d \in Commands, d # c PROVE AskOf(progCommand[d])'
    <3>1. progCommand'[d] = progCommand[d]
      BY <1>7, <2>3 DEF GoesOnAs
    <3>2. progCommand[d].at = "again" =>
            /\ progCommand[d].handle.of # t
            /\ progCommand[d].handle.of \in DOMAIN progTries
      BY <1>0, <1>1, <2>3 DEF AskingInv, AskOf, HandleOf
    <3> QED BY <1>0, <1>8, <1>9, <3>1, <3>2, AskingStays
  <2>4. ASSUME NEW d \in Commands, NEW f \in Commands,
               progCommand'[d].at = "again", progCommand'[f].at = "again",
               progCommand'[d].handle.of = progCommand'[f].handle.of
        PROVE  d = f
    BY <1>0, <1>7, <2>4 DEF GoesOnAs, AskingInv
  <2> QED BY <2>2, <2>3, <2>4 DEF AskingInv
<1>12. MacInv'
  BY <1>0, <1>u DEF MacInv
<1> QED BY <1>2, <1>7, <1>9, <1>10, <1>11, <1>12, <1>u, MacStep DEF GoesOnAs

(* A step of the system that changes a request which it was asked: no       *)
(* command is about to ask it.                                             *)
LEMMA AskedStays ==
  ASSUME ProgInv, ProgGrows, UNCHANGED progCommand, NEW t, progTries[t].asked,
         \A u \in DOMAIN progTries \ {t} : progTries'[u] = progTries[u]
  PROVE  AskingInv' /\ progCommand' \in [Commands -> ProgCommands]
<1>0. ProgTypes /\ AskingInv
  BY DEF ProgInv
<1>1. ASSUME NEW d \in Commands PROVE AskOf(progCommand[d])'
  <2>1. progCommand[d].at = "again" =>
          /\ progCommand[d].handle.of # t
          /\ progCommand[d].handle.of \in DOMAIN progTries
    BY <1>0 DEF AskingInv, AskOf, HandleOf
  <2> QED BY <1>0, <2>1, AskingStays
<1> QED BY <1>0, <1>1 DEF AskingInv, ProgTypes

(* The system opens the application, if none of it runs: the process is     *)
(* that of the request.                                                    *)
LEMMA SystemOpensKeeps ==
  ASSUME ProgInv, NEW t \in DOMAIN progTries, PP!SystemOpens(t)
  PROVE  ProgInv'
<1> DEFINE try == progTries[t]
<1>0. /\ ProgTypes /\ TriesInv /\ MacInv /\ try \in ProgTries
      /\ try.asked /\ try.status = "pending" /\ try.proc = 0
  BY DEF ProgInv, PP!SystemOpens, ProgTypes
<1>m. progHost = "macos"
  BY <1>0 DEF ProgTypes, TriesInv
<1>u. UNCHANGED <<progHost, progDoc, progHandles, progCore, progHolder, progCommand>>
  BY DEF PP!SystemOpens
<1>1. \E n \in Nat :
        /\ progTries' = [progTries EXCEPT ![t].proc = n]
        /\ progProcs' \in Seq(ProgProcs) /\ n \in DOMAIN progProcs' /\ n # 0
        /\ progProcs'[n].app = try.app
        /\ DOMAIN progProcs \subseteq DOMAIN progProcs'
        /\ \A i \in DOMAIN progProcs : progProcs'[i] = progProcs[i]
        /\ \A i \in DOMAIN progProcs' \ DOMAIN progProcs :
             i = n /\ progProcs'[i].by = try.by /\ PP!Running(try.app) = {}
  <2>1. CASE PP!Running(try.app) = {}
    <3>1. PICK p \in ProgProcs :
            p = PP!Process(try.app, try.by, try.port) /\ p.app = try.app /\ p.by = try.by
      <4>1. PP!Process(try.app, try.by, try.port) \in ProgProcs
        BY <1>0 DEF PP!Process, ProgProcs, ProgTries
      <4> QED BY <4>1 DEF PP!Process
    <3>2. progProcs' = Append(progProcs, p)
          /\ progTries' = [progTries EXCEPT ![t].proc = Len(progProcs) + 1]
      BY <2>1, <3>1 DEF PP!SystemOpens
    <3>3. /\ progProcs' \in Seq(ProgProcs) /\ Len(progProcs) \in Nat
          /\ DOMAIN progProcs = 1..Len(progProcs)
          /\ DOMAIN progProcs' = DOMAIN progProcs \union {Len(progProcs) + 1}
          /\ \A i \in DOMAIN progProcs : progProcs'[i] = progProcs[i]
          /\ progProcs'[Len(progProcs) + 1] = p
      BY <1>0, <3>2, ProcessAdded
    <3>4. PICK n \in Nat : n = Len(progProcs) + 1
      BY <3>3
    <3>5. /\ progTries' = [progTries EXCEPT ![t].proc = n]
          /\ n \in DOMAIN progProcs' /\ n # 0 /\ progProcs'[n] = p
          /\ DOMAIN progProcs \subseteq DOMAIN progProcs'
          /\ \A i \in DOMAIN progProcs' \ DOMAIN progProcs : i = n
      BY <3>2, <3>3, <3>4
    <3> QED BY <2>1, <3>1, <3>3, <3>5
  <2>2. CASE PP!Running(try.app) # {}
    <3>1. PICK i \in PP!Running(try.app) :
            UNCHANGED progProcs /\ progTries' = [progTries EXCEPT ![t].proc = i]
      BY <2>2 DEF PP!SystemOpens
    <3>2. i \in DOMAIN progProcs /\ progProcs[i].app = try.app
      BY <3>1 DEF PP!Running
    <3>3. i \in Nat /\ i # 0
      BY <1>0, <3>2 DEF ProgTypes
    <3> QED BY <1>0, <3>1, <3>2, <3>3 DEF ProgTypes
  <2> QED BY <2>1, <2>2
<1>2. PICK n \in Nat :
        /\ progTries' = [progTries EXCEPT ![t].proc = n]
        /\ progProcs' \in Seq(ProgProcs) /\ n \in DOMAIN progProcs' /\ n # 0
        /\ progProcs'[n].app = try.app
        /\ DOMAIN progProcs \subseteq DOMAIN progProcs'
        /\ \A i \in DOMAIN progProcs : progProcs'[i] = progProcs[i]
        /\ \A i \in DOMAIN progProcs' \ DOMAIN progProcs :
             i = n /\ progProcs'[i].by = try.by /\ PP!Running(try.app) = {}
  BY <1>1
<1>3. PICK x \in ProgTries :
        /\ progTries' = [progTries EXCEPT ![t] = x] /\ x.proc = n /\ x.app = try.app
        /\ x.by = try.by /\ x.status = "pending" /\ x.asked /\ x.since = try.since
  <2>1. [try EXCEPT !.proc = n] \in ProgTries
    BY <1>0 DEF ProgTries
  <2> QED BY <1>0, <1>2, <2>1 DEF ProgTries
<1>4. /\ progTries' \in Seq(ProgTries) /\ DOMAIN progTries' = DOMAIN progTries
      /\ progTries'[t] = x
      /\ \A u \in DOMAIN progTries \ {t} : progTries'[u] = progTries[u]
  BY <1>0, <1>3, RequestChanged
<1>5. ProgGrows
  BY <1>0, <1>2, <1>3, <1>4, <1>u DEF ProgGrows
<1>6. TriesInv'
  <2>1. TryOf(t)'
    <3>1. \A i \in DOMAIN progProcs : i > try.since /\ progProcs[i].app = try.app =>
                                        progProcs[i].by \in {try.by, "user"}
      BY <1>0 DEF TriesInv, TryOf
    <3> QED BY <1>2, <1>3, <1>4, <3>1 DEF TryOf
  <2>2. ASSUME NEW u \in DOMAIN progTries \ {t} PROVE TryOf(u)'
    <3>1. TryOf(u) /\ progTries'[u] = progTries[u] /\ progTries[u] \in ProgTries
      BY <1>0, <1>4 DEF TriesInv, ProgTypes
    <3>2. progTries[u].status = "pending" => progTries[u].app # try.app
      BY <1>0 DEF TriesInv, TryPair
    <3>3. progTries[u].proc # 0 =>
            /\ progTries[u].proc \in DOMAIN progProcs'
            /\ progProcs'[progTries[u].proc] = progProcs[progTries[u].proc]
      BY <1>2, <3>1 DEF TryOf
    <3>4. progTries[u].status = "pending" /\ progTries[u].asked =>
            \A i \in DOMAIN progProcs' :
              i > progTries[u].since /\ progProcs'[i].app = progTries[u].app =>
                progProcs'[i].by \in {progTries[u].by, "user"}
      BY <1>2, <3>1, <3>2 DEF TryOf
    <3> QED BY <3>1, <3>3, <3>4 DEF TryOf
  <2>3. ASSUME NEW u \in DOMAIN progTries, NEW w \in DOMAIN progTries PROVE TryPair(u, w)'
    BY <1>0, <1>3, <1>4 DEF TriesInv, TryPair
  <2> QED BY <1>4, <1>m, <1>u, <2>1, <2>2, <2>3 DEF TriesInv
<1>7. MacInv'
  BY <1>0, <1>2, <1>m, <1>u DEF MacInv, PP!Running
<1>8. AskingInv' /\ progCommand' \in [Commands -> ProgCommands]
  BY <1>0, <1>4, <1>5, <1>u, AskedStays
<1> QED BY <1>5, <1>6, <1>7, <1>8, <1>m, <1>u, MacStep

(* What the request has opened is alive and newer than what ran before it.  *)
LEMMA SystemAnswersKeeps ==
  ASSUME ProgInv, NEW t \in DOMAIN progTries, PP!SystemAnswers(t)
  PROVE  ProgInv'
<1> DEFINE try == progTries[t]
<1>0. /\ ProgTypes /\ TriesInv /\ MacInv /\ try \in ProgTries /\ TryOf(t)
      /\ try.asked /\ try.status = "pending"
  BY DEF ProgInv, PP!SystemAnswers, ProgTypes, TriesInv
<1>m. progHost = "macos"
  BY <1>0 DEF ProgTypes, TriesInv
<1>u. UNCHANGED <<progHost, progDoc, progHandles, progProcs, progCore, progHolder, progCommand>>
  BY DEF PP!SystemAnswers
<1>1. PICK status \in {"done", "failed"} :
        /\ status = "done" => try.proc > try.since /\ progProcs[try.proc].alive
        /\ progTries' = [progTries EXCEPT ![t].status = status, ![t].since = 0,
                                 ![t].proc = IF status = "done" THEN @ ELSE 0]
  BY DEF PP!SystemAnswers
<1>2. PICK x \in ProgTries :
        x = [try EXCEPT !.status = status, !.since = 0,
                        !.proc = IF status = "done" THEN try.proc ELSE 0]
  <2>1. [try EXCEPT !.status = status, !.since = 0,
                    !.proc = IF status = "done" THEN try.proc ELSE 0] \in ProgTries
    BY <1>0, <1>1 DEF ProgTries
  <2> QED BY <2>1
<1>3. /\ progTries' = [progTries EXCEPT ![t] = x] /\ x.app = try.app /\ x.by = try.by
      /\ x.status = status /\ x.proc = (IF status = "done" THEN try.proc ELSE 0)
  BY <1>0, <1>1, <1>2 DEF ProgTries, ProgTypes
<1>4. /\ progTries' \in Seq(ProgTries) /\ DOMAIN progTries' = DOMAIN progTries
      /\ progTries'[t] = x
      /\ \A u \in DOMAIN progTries \ {t} : progTries'[u] = progTries[u]
  BY <1>0, <1>3, RequestChanged
<1>5. ProgGrows
  BY <1>0, <1>4, <1>3, <1>u DEF ProgGrows, ProgTypes
<1>n. try.since \in Nat /\ try.proc \in Nat
  BY <1>0 DEF ProgTries
<1>d. status = "done" => /\ try.proc # 0 /\ try.proc \in DOMAIN progProcs
                         /\ progProcs[try.proc].app = try.app
                         /\ progProcs[try.proc].by \in {try.by, "user"}
  <2>1. status = "done" => try.proc # 0
    BY <1>1, <1>n
  <2> QED BY <1>0, <1>1, <2>1 DEF TryOf
<1>6. TriesInv'
  <2>1. TryOf(t)'
    BY <1>1, <1>3, <1>4, <1>d, <1>u DEF TryOf
  <2>2. ASSUME NEW u \in DOMAIN progTries \ {t} PROVE TryOf(u)'
    BY <1>0, <1>4, <1>u DEF TriesInv, TryOf
  <2>3. ASSUME NEW u \in DOMAIN progTries \ {t}, status = "done",
               progTries[u].status = "done", progTries[u].proc = try.proc
        PROVE  FALSE
    <3>1. progTries[u].app = try.app
      BY <1>0, <1>d, <2>3 DEF TriesInv, TryOf
    <3>2. progTries[u].proc <= try.since
      BY <1>0, <2>3, <3>1 DEF TriesInv, TryPair
    <3> QED BY <1>1, <1>n, <2>3, <3>2
  <2>4. ASSUME NEW u \in DOMAIN progTries \ {t}, progTries[u].status = "pending"
        PROVE  progTries[u].app # try.app
    BY <1>0, <2>4 DEF TriesInv, TryPair
  <2>5. ASSUME NEW u \in DOMAIN progTries, NEW w \in DOMAIN progTries PROVE TryPair(u, w)'
    <3>1. CASE u # t /\ w # t
      BY <1>0, <1>4, <3>1 DEF TriesInv, TryPair
    <3>2. CASE u = t \/ w = t
      BY <1>1, <1>3, <1>4, <2>3, <2>4, <3>2 DEF TryPair
    <3> QED BY <3>1, <3>2
  <2> QED BY <1>4, <1>m, <1>u, <2>1, <2>2, <2>5 DEF TriesInv
<1>7. MacInv'
  BY <1>0, <1>u DEF MacInv
<1>8. AskingInv' /\ progCommand' \in [Commands -> ProgCommands]
  BY <1>0, <1>4, <1>5, <1>u, AskedStays
<1> QED BY <1>5, <1>6, <1>7, <1>8, <1>m, <1>u, MacStep

(* Every step keeps the invariant of the programs.                          *)
LEMMA ProgSteps ==
  ASSUME ProgInv, ProgramAssumption, PP!ProgramNext
  PROVE  ProgInv'
<1>1. ASSUME NEW c \in Commands,
             \/ PP!Snapshot(c) \/ PP!List(c) \/ PP!Migrate(c) \/ PP!Save(c) \/ PP!Write(c)
             \/ PP!Delete(c) \/ PP!Launch(c) \/ PP!Look(c) \/ PP!Reserve(c) \/ PP!Spawn(c)
             \/ PP!Store(c) \/ PP!MacLook(c) \/ PP!MacBegin(c) \/ PP!MacAsk(c)
             \/ PP!MacAnswered(c) \/ PP!MacTimeout(c)
      PROVE  ProgInv'
  <2>m. PP!MacLook(c) \/ PP!MacBegin(c) \/ PP!MacAnswered(c) \/ PP!MacTimeout(c)
        => progHost = "macos"
    BY DEF ProgInv, AskingInv, AskOf, PP!MacLook, PP!MacBegin, PP!MacAnswered, PP!MacTimeout,
           PP!At
  <2>1. CASE PP!List(c) \/ PP!Save(c) \/ PP!Launch(c) \/ PP!Look(c)
    BY <2>1, ReadingSteps
  <2>2. CASE PP!Migrate(c) \/ PP!Write(c) \/ PP!Delete(c)
    BY <2>2, WritingSteps
  <2>3. CASE PP!Snapshot(c)
    BY <2>3, SnapshotKeeps
  <2>4. CASE PP!Reserve(c)
    BY <2>4, ReserveKeeps
  <2>5. CASE PP!Spawn(c)
    BY <2>5, SpawnKeeps
  <2>6. CASE PP!Store(c)
    BY <2>6, StoreKeeps
  <2>7. CASE PP!MacLook(c) \/ PP!MacAnswered(c) \/ PP!MacTimeout(c)
    BY <2>m, <2>7, MacWaits
  <2>8. CASE PP!MacBegin(c)
    BY <2>m, <2>8, MacBegins
  <2>9. CASE PP!MacAsk(c)
    BY <2>9, MacAsks
  <2> QED BY <1>1, <2>1, <2>2, <2>3, <2>4, <2>5, <2>6, <2>7, <2>8, <2>9
<1>2. ASSUME NEW t \in DOMAIN progTries, PP!SystemOpens(t) \/ PP!SystemAnswers(t)
      PROVE  ProgInv'
  BY <1>2, SystemOpensKeeps, SystemAnswersKeeps
<1>3. CASE PP!Starts \/ PP!Quits \/ PP!Configure \/ PP!CoreDies
  BY <1>3, ProgWorldSteps
<1> QED BY <1>1, <1>2, <1>3 DEF PP!ProgramNext

(* It holds at the start: nothing runs, nothing is asked.                   *)
LEMMA ProgStarts ==
  ASSUME ProgramAssumption, PP!ProgramInit
  PROVE  ProgInv
<1>0. /\ progHost \in {"macos", "windows"} /\ progDoc \in ProgramLists[progHost]
      /\ progHandles = [e \in Entries |-> PP!Nothing]
      /\ progProcs = <<>> /\ progTries = <<>> /\ progCore \in CoreStates[progHost]
      /\ progHolder = "nobody" /\ progCommand = [c \in Commands |-> [at |-> "idle"]]
  BY DEF PP!ProgramInit
<1>1. progDoc \in ProgDocs
  <2>1. progDoc = [rev |-> 0, old |-> progHost = "windows",
                   app |-> [e \in Entries |-> IF e = "e1" \/ progHost = "macos" THEN "app"
                                              ELSE "unborn"],
                   paths |-> IF progHost = "macos" THEN {} ELSE {"e1"}]
    BY <1>0 DEF ProgramLists
  <2>2. 0 \in 0..MaxSaves /\ (progHost = "windows") \in BOOLEAN
    BY ProgramAssumption DEF ProgramAssumption
  <2>3. [e \in Entries |-> IF e = "e1" \/ progHost = "macos" THEN "app" ELSE "unborn"]
          \in [Entries -> ProgApps \union {"unborn", "deleted"}]
    BY DEF ProgApps
  <2>4. (IF progHost = "macos" THEN {} ELSE {"e1"}) \in SUBSET Entries
    BY DEF Entries
  <2> QED BY <2>1, <2>2, <2>3, <2>4 DEF ProgDocs
<1>2. [at |-> "idle"] \in ProgCommands /\ [at |-> "idle"].at = "idle"
  BY DEF ProgCommands
<1>3. \A c \in Commands : progCommand[c].at = "idle"
  BY <1>0, <1>2
<1>4. PP!Nothing \in ProgHandles /\ \A e : HandleOf(e, PP!Nothing)
  BY PlainHandles DEF HandleOf
<1>5. DOMAIN progProcs = {} /\ DOMAIN progTries = {}
  BY <1>0
<1>6. ProgTypes
  BY <1>0, <1>1, <1>2, <1>4 DEF ProgTypes, ProgPorts
<1>7. HandlesInv
  BY <1>0, <1>4 DEF HandlesInv
<1>8. ReadInv /\ TriesInv /\ AskingInv /\ MacInv
  BY <1>0, <1>3, <1>5 DEF ReadInv, ReadOf, TriesInv, AskingInv, AskOf, MacInv
<1>9. SpawnInv
  BY <1>3, <1>5 DEF SpawnInv, SpawnOf, Holds, LivesInv, PP!EntryRunsOnce
<1> QED BY <1>6, <1>7, <1>8, <1>9 DEF ProgInv

(* A step that leaves the programs alone keeps it.                          *)
LEMMA ProgStutters ==
  ASSUME ProgInv, UNCHANGED <<v1, v2, v3, v4, v5, v6, v7, v8>>
  PROVE  ProgInv'
<1>1. ProgTypes'
  BY DEF ProgInv, ProgTypes, ProgPorts, ProgDocs, ProgCommands, ProgProcs, ProgTries
<1>2. HandlesInv'
  BY DEF ProgInv, HandlesInv, HandleOf, Opened
<1>3. ReadInv'
  BY DEF ProgInv, ReadInv, ReadOf
<1>4. TriesInv'
  BY DEF ProgInv, TriesInv, TryOf, TryPair
<1>5. AskingInv'
  BY DEF ProgInv, AskingInv, AskOf, HandleOf, Opened
<1>6. MacInv'
  BY DEF ProgInv, MacInv
<1>7. SpawnInv'
  BY DEF ProgInv, SpawnInv, SpawnOf, Holds, LivesInv, LivesBy, PP!EntryRunsOnce
<1> QED BY <1>1, <1>2, <1>3, <1>4, <1>5, <1>6, <1>7 DEF ProgInv

(* What the runs check of the programs follows from it.                     *)
LEMMA ProgHolds ==
  ASSUME ProgInv
  PROVE  PP!ProgramTypeOK /\ PP!EntryRunsOnce /\ PP!HandlesAreOwn
<1>0. ProgTypes /\ HandlesInv /\ TriesInv
  BY DEF ProgInv
<1>1. \A e \in Entries : HandleOf(e, progHandles[e])
  BY <1>0 DEF HandlesInv
<1>2. PP!ProgramTypeOK
  <2>1. \A e \in Entries :
          progHandles[e] \in [is : {"none", "reserved"}, of : {0}]
                               \union [is : {"waiting"}, of : DOMAIN progTries]
                               \union [is : {"running"}, of : DOMAIN progProcs]
    BY <1>1 DEF HandleOf, ProgHandles
  <2>2. progHandles \in
          [Entries -> [is : {"none", "reserved"}, of : {0}]
                        \union [is : {"waiting"}, of : DOMAIN progTries]
                        \union [is : {"running"}, of : DOMAIN progProcs]]
    BY <1>0, <2>1 DEF ProgTypes
  <2>3. \A i \in DOMAIN progProcs : progProcs[i] \in ProgProcs
    BY <1>0 DEF ProgTypes
  <2> QED BY <1>0, <2>2, <2>3
        DEF PP!ProgramTypeOK, ProgTypes, ProgDocs, ProgApps, ProgProcs, ProgPorts
<1>3. PP!EntryRunsOnce
  BY <1>0 DEF ProgInv, ProgTypes, MacInv, SpawnInv, PP!EntryRunsOnce
<1>4. PP!HandlesAreOwn
  <2>1. \A e \in Entries : progHandles[e] # PP!Nothing => e \in PP!Present(progDoc)
    BY <1>0 DEF HandlesInv, PP!Present, ProgApps
  <2>2. ASSUME NEW e \in Entries, progHandles[e].is = "running"
        PROVE  progProcs[progHandles[e].of].by \in {e, "user"}
    <3>1. HandleOf(e, progHandles[e])
      BY <1>1
    <3>2. CASE progHost = "windows"
      BY <2>2, <3>1, <3>2 DEF HandleOf
    <3>3. CASE progHost = "macos"
      BY <1>0, <2>2, <3>1, <3>3 DEF HandleOf, Opened, TriesInv, TryOf
    <3> QED BY <1>0, <3>2, <3>3 DEF ProgTypes
  <2>3. ASSUME NEW e \in Entries, NEW f \in Entries,
               progHandles[e].is = "running", progHandles[e] = progHandles[f]
        PROVE  e = f
    <3>1. HandleOf(e, progHandles[e]) /\ HandleOf(f, progHandles[e])
      BY <1>1, <2>3
    <3>2. CASE progHost = "windows"
      BY <2>3, <3>1, <3>2 DEF HandleOf
    <3>3. CASE progHost = "macos"
      BY <1>0, <2>3, <3>1, <3>3 DEF HandleOf, Opened, TriesInv, TryPair
    <3> QED BY <1>0, <3>2, <3>3 DEF ProgTypes
  <2> QED BY <2>1, <2>2, <2>3 DEF PP!HandlesAreOwn
<1> QED BY <1>2, <1>3, <1>4

(* What is written is one edit of what is there; what is started under the  *)
(* permit gets the port of the core.                                       *)
LEMMA ProgIsCareful ==
  ASSUME ProgInv, PP!ProgramNext
  PROVE  PP!ProgramStepOK
<1>0. ProgTypes /\ progDoc \in ProgDocs
  BY DEF ProgInv, ProgTypes
<1>1. ASSUME progDoc' # progDoc
      PROVE  /\ progDoc'.rev = progDoc.rev + 1
             /\ \E e \in Entries : \A f \in Entries \ {e} : progDoc'.app[f] = progDoc.app[f]
  <2>1. PICK c \in Commands : PP!Migrate(c) \/ PP!Write(c) \/ PP!Delete(c)
    <3>1. ASSUME NEW c \in Commands
          PROVE  /\ PP!Snapshot(c) \/ PP!Reserve(c) \/ PP!Spawn(c) \/ PP!Store(c)
                    => UNCHANGED progDoc
                 /\ PP!List(c) \/ PP!Save(c) \/ PP!Launch(c) \/ PP!Look(c) => UNCHANGED progDoc
                 /\ PP!MacLook(c) \/ PP!MacBegin(c) \/ PP!MacAsk(c) \/ PP!MacAnswered(c)
                    \/ PP!MacTimeout(c) => UNCHANGED progDoc
      <4>1. PP!Snapshot(c) \/ PP!Reserve(c) \/ PP!Spawn(c) \/ PP!Store(c) => UNCHANGED progDoc
        BY DEF PP!Snapshot, PP!Reserve, PP!Spawn, PP!Store
      <4>2. PP!List(c) \/ PP!Save(c) \/ PP!Launch(c) \/ PP!Look(c) => UNCHANGED progDoc
        <5>1. PP!List(c) => UNCHANGED progDoc
          BY Zenon DEF PP!List
        <5>2. PP!Save(c) => UNCHANGED progDoc
          BY Zenon DEF PP!Save
        <5>3. PP!Launch(c) => UNCHANGED progDoc
          BY Zenon DEF PP!Launch
        <5>4. PP!Look(c) => UNCHANGED progDoc
          BY Zenon DEF PP!Look
        <5> QED BY <5>1, <5>2, <5>3, <5>4
      <4>3. PP!MacLook(c) \/ PP!MacBegin(c) \/ PP!MacAsk(c) \/ PP!MacAnswered(c)
            \/ PP!MacTimeout(c) => UNCHANGED progDoc
        BY DEF PP!MacLook, PP!MacBegin, PP!MacAsk, PP!MacAnswered, PP!MacTimeout
      <4> QED BY <4>1, <4>2, <4>3
    <3>2. ASSUME NEW t PROVE PP!SystemOpens(t) \/ PP!SystemAnswers(t) => UNCHANGED progDoc
      BY DEF PP!SystemOpens, PP!SystemAnswers
    <3>3. PP!Starts \/ PP!Quits \/ PP!Configure \/ PP!CoreDies => UNCHANGED progDoc
      BY DEF PP!Starts, PP!Quits, PP!Configure, PP!CoreDies
    <3> QED BY <1>1, <3>1, <3>2, <3>3 DEF PP!ProgramNext
  <2>2. CASE PP!Migrate(c) \/ PP!Write(c)
    <3>1. /\ progCommand[c].at \in {"migrate", "save"} /\ progDoc' = progCommand[c].new
          /\ progDoc.rev + 1 = progCommand[c].new.rev
      BY <1>1, <2>2 DEF PP!Migrate, PP!Write, PP!At, PP!IsCurrent
    <3>2. Edits(progDoc, progCommand[c].new)
      BY <3>1 DEF ProgInv, ReadInv, ReadOf
    <3> QED BY <3>1, <3>2 DEF Edits
  <2>3. CASE PP!Delete(c)
    <3>1. ASSUME NEW e \in Entries,
                 progDoc' = [progDoc EXCEPT !.rev = @ + 1, !.app[e] = "deleted",
                                            !.paths = @ \ {e}]
          PROVE  /\ progDoc'.rev = progDoc.rev + 1
                 /\ \E x \in Entries : \A f \in Entries \ {x} : progDoc'.app[f] = progDoc.app[f]
      <4> DEFINE apps == [progDoc.app EXCEPT ![e] = "deleted"]
      <4>1. \A f \in Entries \ {e} : apps[f] = progDoc.app[f]
        BY <1>0 DEF ProgDocs
      <4>2. progDoc' = [progDoc EXCEPT !.rev = progDoc.rev + 1, !.app = apps,
                                       !.paths = progDoc.paths \ {e}]
        BY <1>0, <3>1 DEF ProgDocs
      <4> HIDE DEF apps
      <4>3. progDoc'.rev = progDoc.rev + 1 /\ progDoc'.app = apps
        BY <1>0, <4>2 DEF ProgDocs
      <4> QED BY <4>1, <4>3
    <3> QED BY <2>3, <3>1 DEF PP!Delete, PP!Present
  <2> QED BY <2>1, <2>2, <2>3
<1>2. ASSUME progDoc' # progDoc
      PROVE  Cardinality({e \in Entries : progDoc'.app[e] # progDoc.app[e]}) <= 1
  <2> DEFINE S == {e \in Entries : progDoc'.app[e] # progDoc.app[e]}
  <2>1. PICK e \in Entries : S \subseteq {e}
    BY <1>1, <1>2
  <2>2. Cardinality({}) = 0 /\ Cardinality({e}) = 1
    BY FS_EmptySet, FS_Singleton
  <2>3. S = {} \/ S = {e}
    BY <2>1
  <2> QED BY <2>2, <2>3
<1>3. ASSUME progHost = "windows", progProcs' # progProcs,
             NEW i \in DOMAIN progProcs' \ DOMAIN progProcs, progProcs'[i].by \in Entries
      PROVE  progCore \in {0, progProcs'[i].port}
  <2>1. progTries = <<>>
    BY <1>3 DEF ProgInv, TriesInv
  <2>2. (\E c \in Commands : PP!Spawn(c)) \/ PP!Starts \/ PP!Quits
    <3>1. ASSUME NEW c \in Commands
          PROVE  /\ PP!Snapshot(c) \/ PP!Reserve(c) \/ PP!Store(c) => UNCHANGED progProcs
                 /\ PP!List(c) \/ PP!Save(c) \/ PP!Launch(c) \/ PP!Look(c)
                    => UNCHANGED progProcs
                 /\ PP!Migrate(c) \/ PP!Write(c) \/ PP!Delete(c) => UNCHANGED progProcs
                 /\ PP!MacLook(c) \/ PP!MacBegin(c) \/ PP!MacAsk(c) \/ PP!MacAnswered(c)
                    \/ PP!MacTimeout(c) => UNCHANGED progProcs
      <4>1. PP!Snapshot(c) \/ PP!Reserve(c) \/ PP!Store(c) => UNCHANGED progProcs
        BY DEF PP!Snapshot, PP!Reserve, PP!Store
      <4>2. PP!List(c) \/ PP!Save(c) \/ PP!Launch(c) \/ PP!Look(c) => UNCHANGED progProcs
        <5>1. PP!List(c) => UNCHANGED progProcs
          BY Zenon DEF PP!List
        <5>2. PP!Save(c) => UNCHANGED progProcs
          BY Zenon DEF PP!Save
        <5>3. PP!Launch(c) => UNCHANGED progProcs
          BY Zenon DEF PP!Launch
        <5>4. PP!Look(c) => UNCHANGED progProcs
          BY Zenon DEF PP!Look
        <5> QED BY <5>1, <5>2, <5>3, <5>4
      <4>3. PP!Migrate(c) \/ PP!Write(c) \/ PP!Delete(c) => UNCHANGED progProcs
        BY DEF PP!Migrate, PP!Write, PP!Delete
      <4>4. PP!MacLook(c) \/ PP!MacBegin(c) \/ PP!MacAsk(c) \/ PP!MacAnswered(c)
            \/ PP!MacTimeout(c) => UNCHANGED progProcs
        BY DEF PP!MacLook, PP!MacBegin, PP!MacAsk, PP!MacAnswered, PP!MacTimeout
      <4> QED BY <4>1, <4>2, <4>3, <4>4
    <3>2. DOMAIN progTries = {}
      BY <2>1
    <3>3. PP!Configure \/ PP!CoreDies => UNCHANGED progProcs
      BY DEF PP!Configure, PP!CoreDies
    <3> QED BY <1>3, <3>1, <3>2, <3>3 DEF PP!ProgramNext
  <2>3. ASSUME NEW c \in Commands, PP!Spawn(c)
        PROVE  progCore \in {0, progProcs'[i].port}
    <3>1. progCommand[c].at = "start" /\ SpawnOf(c, progCommand[c])
      BY <1>3, <2>3 DEF PP!Spawn, PP!At, ProgInv, SpawnInv
    <3>2. progCommand[c].entry \in Entries /\ progCommand[c].app \in ProgApps
          /\ progCommand[c].port \in ProgPorts
      BY <1>0, <3>1, CommandFields
    <3>3. PICK p \in ProgProcs :
            p = PP!Process(progCommand[c].app, progCommand[c].entry, progCommand[c].port)
            /\ p.port = progCommand[c].port
      <4>1. PP!Process(progCommand[c].app, progCommand[c].entry, progCommand[c].port) \in ProgProcs
        BY <3>2 DEF PP!Process, ProgProcs
      <4> QED BY <4>1 DEF PP!Process
    <3>4. progProcs' = Append(progProcs, p)
      BY <1>3, <2>3, <3>3 DEF PP!Spawn
    <3>5. progProcs'[i] = p
      BY <1>0, <1>3, <3>4, ProcessAdded
    <3> QED BY <3>1, <3>3, <3>5 DEF SpawnOf
  <2>4. ~PP!Starts
    <3>1. SUFFICES ASSUME NEW app \in ProgApps,
                          progProcs' = Append(progProcs, PP!Process(app, "user", 0))
                   PROVE  FALSE
      BY DEF PP!Starts, ProgApps
    <3>2. PICK p \in ProgProcs : p = PP!Process(app, "user", 0) /\ p.by = "user"
      <4>1. PP!Process(app, "user", 0) \in ProgProcs
        BY DEF PP!Process, ProgProcs
      <4> QED BY <4>1 DEF PP!Process
    <3>3. progProcs'[i] = p
      BY <1>0, <1>3, <3>1, <3>2, ProcessAdded
    <3> QED BY <1>3, <3>2, <3>3 DEF Entries
  <2>5. ~PP!Quits
    BY <1>0, <1>3 DEF PP!Quits, ProgTypes
  <2> QED BY <2>2, <2>3, <2>4, <2>5
<1> QED BY <1>1, <1>2, <1>3 DEF PP!ProgramStepOK, PP!Cardinality, Cardinality

HIDE DEF progHost, progDoc, progHandles, progProcs, progTries, progCore, progHolder, progCommand

-----------------------------------------------------------------------------
(* UnixProxy                                                               *)

unixSettings == v2
unixActive == v3
unixSaved == v4
unixOp == v5
USE DEF unixSettings, unixActive, unixSaved, unixOp

OpFields == {"kind", "at", "plan", "before", "lease"}
AutoSteps == {"recheck", "enable", "apply", "write", "verify", "release", "restore", "remove"}

(* Nobody's proxy was on in what an operation has captured.                  *)
NobodyOn(x) == \A s \in DOMAIN x, p \in Protocols : ~x[s].on[p]

(* An automatic operation never rolls back; once it is to enable, what it    *)
(* captured before is free.                                                 *)
UnixInv ==
  /\ DOMAIN unixOp = OpFields
  /\ unixOp.kind = "auto" => unixOp.at \in AutoSteps
  /\ unixOp.kind = "auto" /\ unixOp.at = "enable" => NobodyOn(unixOp.before)

(* An operation of its own has the fields of one.                           *)
LEMMA UnixIdle ==
  /\ DOMAIN UP!Idle = OpFields /\ UP!Idle.kind = "none"
  /\ \A k, a, b, l : LET o == [kind |-> k, at |-> a, plan |-> <<>>, before |-> b, lease |-> l]
                     IN  DOMAIN o = OpFields /\ o.kind = k /\ o.at = a /\ o.before = b
BY DEF UP!Idle, UP!None, OpFields

(* An operation that goes on to another step is still the same.             *)
LEMMA UnixGoesOn ==
  ASSUME UnixInv, NEW step, NEW plan
  PROVE  /\ LET o == [unixOp EXCEPT !.at = step]
            IN  DOMAIN o = OpFields /\ o.kind = unixOp.kind /\ o.at = step /\ o.before = unixOp.before
         /\ LET o == [unixOp EXCEPT !.at = step, !.plan = plan]
            IN  DOMAIN o = OpFields /\ o.kind = unixOp.kind /\ o.at = step /\ o.before = unixOp.before
         /\ LET o == [unixOp EXCEPT !.plan = plan, !.at = step]
            IN  DOMAIN o = OpFields /\ o.kind = unixOp.kind /\ o.at = step /\ o.before = unixOp.before
BY DEF UnixInv, OpFields

(* What an operation may become in a step that leaves the snapshot alone.    *)
OpBecomes ==
  \/ unixOp' = UP!Idle
  \/ /\ DOMAIN unixOp' = OpFields /\ unixOp'.kind = unixOp.kind
     /\ unixOp.kind = "auto" => unixOp'.at \in AutoSteps \ {"enable"}

(* Such a step keeps the invariant.                                         *)
LEMMA UnixBecomes ==
  ASSUME UnixInv, OpBecomes
  PROVE  UnixInv'
BY UnixIdle DEF UnixInv, OpBecomes

(* A failure of an automatic operation releases; it never rolls back.        *)
LEMMA UnixFails ==
  ASSUME UnixInv, UP!Failed
  PROVE  OpBecomes
BY UnixGoesOn DEF UP!Failed, OpBecomes, AutoSteps

(* One command of a plan.                                                   *)
LEMMA UnixCommand ==
  ASSUME UnixInv, NEW step, NEW next, UP!Command(step, next),
         unixOp.kind = "auto" => step # "enable" /\ next \in AutoSteps \ {"enable"}
  PROVE  OpBecomes /\ unixSaved' = unixSaved
<1>1. unixOp' = [unixOp EXCEPT !.plan = Tail(@), !.at = IF Len(unixOp.plan) = 1 THEN next ELSE @]
      /\ unixOp.at = step /\ unixSaved' = unixSaved
  BY DEF UP!Command, UP!At
<1>2. PICK at, plan : /\ unixOp' = [unixOp EXCEPT !.plan = plan, !.at = at]
                      /\ at = IF Len(unixOp.plan) = 1 THEN next ELSE unixOp.at
  BY <1>1
<1>3. DOMAIN unixOp' = OpFields /\ unixOp'.kind = unixOp.kind /\ unixOp'.at = at
  BY <1>2, UnixGoesOn
<1> QED BY <1>1, <1>2, <1>3 DEF OpBecomes, UnixInv

(* Every step: an automatic resume takes the System Proxy from nobody.       *)
LEMMA UnixSteps ==
  ASSUME UnixInv, UP!UnixNext
  PROVE  UnixInv' /\ UP!ResumeIsWelcome
<1>b. ASSUME OpBecomes, unixSaved' = unixSaved \/ unixSaved' = UP!Nothing \/ unixOp.kind # "auto"
      PROVE  UnixInv' /\ UP!ResumeIsWelcome
  BY <1>b, UnixBecomes DEF UP!ResumeIsWelcome
<1>n. ASSUME unixSaved' = unixSaved PROVE UP!ResumeIsWelcome
  BY <1>n DEF UP!ResumeIsWelcome
<1>1. CASE UP!BeginTransaction
  <2>1. PICK kind \in {"start", "switch", "leave"} :
          unixOp' = [kind |-> kind, at |-> IF kind = "leave" THEN "release" ELSE "enable",
                     plan |-> <<>>, before |-> UP!Capture, lease |-> unixSaved]
    BY <1>1 DEF UP!BeginTransaction
  <2>2. DOMAIN unixOp' = OpFields /\ unixOp'.kind = kind
    BY <2>1, UnixIdle
  <2>3. unixSaved' = unixSaved
    BY <1>1 DEF UP!BeginTransaction
  <2> QED BY <1>n, <2>2, <2>3 DEF UnixInv
<1>2. CASE UP!PrepareAuto
  <2>1. unixOp' = [UP!Idle EXCEPT !.kind = "auto", !.at = "recheck", !.before = UP!Capture]
        /\ unixSaved' = unixSaved
    BY <1>2 DEF UP!PrepareAuto
  <2>2. DOMAIN unixOp' = OpFields /\ unixOp'.kind = "auto" /\ unixOp'.at = "recheck"
    BY <2>1 DEF UP!Idle, OpFields
  <2> QED BY <1>n, <2>1, <2>2 DEF UnixInv, AutoSteps
<1>3. CASE UP!RecheckAuto
  <2>1. unixSaved' = unixSaved
    BY <1>3 DEF UP!RecheckAuto
  <2>2. CASE unixOp' = UP!Idle
    BY <1>b, <2>1, <2>2 DEF OpBecomes
  <2>3. CASE /\ UP!Available /\ UP!Capture = unixOp.before
             /\ unixOp' = [unixOp EXCEPT !.at = "enable"]
    <3>1. /\ DOMAIN unixOp' = OpFields /\ unixOp'.kind = unixOp.kind /\ unixOp'.at = "enable"
          /\ unixOp'.before = unixOp.before
      BY <2>3, UnixGoesOn
    <3>2. NobodyOn(UP!Capture)
      BY <2>3 DEF UP!Available, UP!Capture, NobodyOn
    <3>3. NobodyOn(unixOp'.before)
      BY <2>3, <3>1, <3>2
    <3> QED BY <1>n, <2>1, <3>1, <3>3 DEF UnixInv, AutoSteps, NobodyOn
  <2> QED BY <1>3, <2>2, <2>3 DEF UP!RecheckAuto
<1>4. CASE UP!TakeSnapshot
  <2>1. CASE unixOp' = UP!Idle /\ unixSaved' = unixSaved
    BY <1>b, <2>1 DEF OpBecomes
  <2>2. CASE /\ ~(unixOp.kind = "auto" /\ UP!Capture # unixOp.before)
             /\ unixSaved' = IF unixOp.kind = "auto" \/ unixSaved = UP!Nothing THEN UP!Capture
                             ELSE unixSaved
             /\ unixOp' = [unixOp EXCEPT !.at = "apply"]
    <3>1. OpBecomes
      BY <2>2, UnixGoesOn DEF OpBecomes, AutoSteps
    <3>2. ASSUME unixOp.kind = "auto"
          PROVE  /\ unixSaved' = UP!Capture /\ NobodyOn(UP!Capture)
      BY <1>4, <2>2, <3>2 DEF UnixInv, UP!TakeSnapshot, UP!At
    <3>3. ASSUME unixOp.kind = "auto", NEW s \in unixActive, NEW p \in Protocols
          PROVE  ~unixSettings[s].on[p] /\ ~unixSaved'[s].on[p]
      <4>1. DOMAIN UP!Capture = unixActive /\ UP!Capture[s] = unixSettings[s]
        BY DEF UP!Capture
      <4> QED BY <3>2, <3>3, <4>1 DEF NobodyOn
    <3> QED BY <3>1, <3>3, UnixBecomes DEF UP!ResumeIsWelcome
  <2> QED BY <1>4, <2>1, <2>2 DEF UP!TakeSnapshot, UP!Ends
<1>5. CASE UP!Apply
  <2>1. PICK plan : UP!Failed \/ unixOp' = [unixOp EXCEPT !.at = "write", !.plan = plan]
    BY <1>5 DEF UP!Apply
  <2>2. CASE UP!Failed
    BY <1>5, <1>b, <2>2, UnixFails DEF UP!Apply
  <2>3. CASE unixOp' = [unixOp EXCEPT !.at = "write", !.plan = plan]
    <3>1. DOMAIN unixOp' = OpFields /\ unixOp'.kind = unixOp.kind /\ unixOp'.at = "write"
      BY <2>3, UnixGoesOn
    <3>2. OpBecomes
      BY <3>1 DEF OpBecomes, AutoSteps
    <3> QED BY <1>5, <1>b, <3>2 DEF UP!Apply
  <2> QED BY <2>1, <2>2, <2>3
<1>6. CASE UP!Write
  <2>1. OpBecomes /\ unixSaved' = unixSaved
    BY <1>6, UnixCommand DEF UP!Write, AutoSteps
  <2> QED BY <1>b, <2>1
<1>7. CASE UP!Verify
  <2>1. UP!Failed \/ unixOp' = UP!Idle
        \/ (unixOp.kind = "switch" /\ unixOp' = [unixOp EXCEPT !.at = "save"])
    BY <1>7 DEF UP!Verify
  <2>2. CASE unixOp.kind = "switch" /\ unixOp' = [unixOp EXCEPT !.at = "save"]
    <3>1. DOMAIN unixOp' = OpFields /\ unixOp'.kind = unixOp.kind
      BY <2>2, UnixGoesOn
    <3>2. unixOp.kind # "auto"
      BY <2>2
    <3>3. OpBecomes
      BY <3>1, <3>2 DEF OpBecomes
    <3> QED BY <1>7, <1>b, <3>3 DEF UP!Verify
  <2>3. CASE UP!Failed
    BY <1>7, <1>b, <2>3, UnixFails DEF UP!Verify
  <2>4. CASE unixOp' = UP!Idle
    BY <1>7, <1>b, <2>4 DEF UP!Verify, OpBecomes
  <2> QED BY <2>1, <2>2, <2>3, <2>4
<1>8. CASE UP!Save
  BY <1>8, <1>b DEF UP!Save, UP!Ends, OpBecomes
<1>9. CASE UP!BeginRelease
  <2>1. PICK kind \in {"stop", "delete"} :
          unixOp' = [UP!Idle EXCEPT !.kind = kind, !.at = "release"]
    BY <1>9 DEF UP!BeginRelease
  <2>2. DOMAIN unixOp' = OpFields /\ unixOp'.kind = kind
    BY <2>1 DEF UP!Idle, OpFields
  <2>3. unixSaved' = unixSaved
    BY <1>9 DEF UP!BeginRelease
  <2> QED BY <1>n, <2>2, <2>3 DEF UnixInv
<1>r. ASSUME UP!Released PROVE OpBecomes
  <2>1. CASE unixOp.kind = "leave" /\ unixOp' = [unixOp EXCEPT !.at = "save"]
    BY <2>1, UnixGoesOn DEF OpBecomes
  <2> QED BY <1>r, <2>1 DEF UP!Released, UP!Ends, OpBecomes
<1>10. CASE UP!Release
  <2>1. PICK plan, step :
          /\ step \in {"remove", "restore"}
          /\ UP!Released \/ unixOp' = [unixOp EXCEPT !.plan = plan, !.at = step]
    BY <1>10 DEF UP!Release
  <2>2. CASE unixOp' = [unixOp EXCEPT !.plan = plan, !.at = step]
    <3>1. DOMAIN unixOp' = OpFields /\ unixOp'.kind = unixOp.kind /\ unixOp'.at = step
      BY <2>2, UnixGoesOn
    <3>2. OpBecomes
      BY <2>1, <3>1 DEF OpBecomes, AutoSteps
    <3> QED BY <1>10, <1>b, <3>2 DEF UP!Release
  <2> QED BY <1>10, <1>b, <1>r, <2>1, <2>2 DEF UP!Release
<1>11. CASE UP!Restore
  <2>1. OpBecomes /\ unixSaved' = unixSaved
    BY <1>11, UnixCommand DEF UP!Restore, AutoSteps
  <2> QED BY <1>b, <2>1
<1>12. CASE UP!Discard
  BY <1>12, <1>b, <1>r DEF UP!Discard
<1>13. CASE UP!Rollback \/ UP!Back
  <2>0. unixOp.at \in {"rollback", "back"}
    BY <1>13 DEF UP!Rollback, UP!Back, UP!Command, UP!At
  <2>1. unixOp.kind # "auto"
    BY <2>0 DEF UnixInv, AutoSteps
  <2>2. CASE UP!Rollback
    <3>1. PICK plan, step : unixOp' = [unixOp EXCEPT !.plan = plan, !.at = step]
      BY <2>2 DEF UP!Rollback
    <3>2. OpBecomes
      BY <2>1, <3>1, UnixGoesOn DEF OpBecomes
    <3> QED BY <1>b, <2>1, <3>2
  <2>3. CASE UP!Back
    <3>1. OpBecomes
      BY <2>1, <2>3, UnixCommand DEF UP!Back
    <3> QED BY <1>b, <2>1, <3>1
  <2> QED BY <1>13, <2>2, <2>3
<1>14. CASE UP!Compare \/ UP!RollbackFails
  <2>1. unixOp.at \in {"back", "compare"} /\ unixOp' = UP!Idle
    BY <1>14 DEF UP!Compare, UP!RollbackFails, UP!At, UP!Ends
  <2>2. unixOp.kind # "auto"
    BY <2>1 DEF UnixInv, AutoSteps
  <2> QED BY <1>b, <2>1, <2>2 DEF OpBecomes
<1>15. CASE UP!SnapshotFails
  <2>1. unixOp' = UP!Idle \/ (unixOp.kind # "auto" /\ unixOp' = [unixOp EXCEPT !.at = "rollback"])
    BY <1>15 DEF UP!SnapshotFails
  <2>2. CASE unixOp.kind # "auto" /\ unixOp' = [unixOp EXCEPT !.at = "rollback"]
    <3>1. DOMAIN unixOp' = OpFields /\ unixOp'.kind = unixOp.kind
      BY <2>2, UnixGoesOn
    <3>2. unixOp.kind # "auto"
      BY <2>2
    <3>3. OpBecomes
      BY <3>1, <3>2 DEF OpBecomes
    <3> QED BY <1>15, <1>b, <3>3 DEF UP!SnapshotFails
  <2>3. CASE unixOp' = UP!Idle
    BY <1>15, <1>b, <2>3 DEF UP!SnapshotFails, OpBecomes
  <2> QED BY <2>1, <2>2, <2>3
<1>16. CASE UP!CommandFails
  BY <1>16, <1>b, UnixFails DEF UP!CommandFails
<1>17. CASE UP!RestoreFails
  <2>1. OpBecomes
    BY <1>17, UnixFails DEF UP!RestoreFails, UP!Ends, OpBecomes
  <2> QED BY <1>17, <1>b, <2>1 DEF UP!RestoreFails
<1>18. CASE UP!Crash
  <2>1. unixOp' = [UP!Idle EXCEPT !.kind = "recover", !.at = "release"]
        /\ unixSaved' = unixSaved
    BY <1>18 DEF UP!Crash
  <2>2. DOMAIN unixOp' = OpFields /\ unixOp'.kind = "recover"
    BY <2>1 DEF UP!Idle, OpFields
  <2> QED BY <1>n, <2>1, <2>2 DEF UnixInv
<1>19. CASE UP!Edit \/ UP!Move
  <2>1. unixOp' = unixOp /\ unixSaved' = unixSaved
    BY <1>19 DEF UP!Edit, UP!Move
  <2> QED BY <1>n, <2>1 DEF UnixInv
<1> QED BY <1>1, <1>2, <1>3, <1>4, <1>5, <1>6, <1>7, <1>8, <1>9, <1>10, <1>11, <1>12, <1>13,
           <1>14, <1>15, <1>16, <1>17, <1>18, <1>19
        DEF UP!UnixNext

(* Before the first operation.                                              *)
LEMMA UnixStarts == UP!UnixInit => UnixInv
BY UnixIdle DEF UP!UnixInit, UnixInv

(* A stutter.                                                               *)
LEMMA UnixStutters ==
  ASSUME UnixInv, UNCHANGED <<v1, v2, v3, v4, v5, v6, v7, v8, v9, v10, v11>>
  PROVE  UnixInv'
BY DEF UnixInv, NobodyOn

HIDE DEF unixSettings, unixActive, unixSaved, unixOp

-----------------------------------------------------------------------------
(* The sum: one invariant for every focus.                                 *)

ProvedInv ==
  /\ focus = "login" => LoginInv
  /\ focus = "fetch" => FetchInv
  /\ focus = "route" => RouteInv
  /\ focus = "policy" => PolicyInv /\ BenchInv
  /\ focus = "stability" => RoundInv /\ HealthInv
  /\ focus = "tunstart" => TunInv
  /\ focus = "staging" => StagingInv
  /\ focus = "unixproxy" => UnixInv
  /\ focus = "corerun" => CoreInv
  /\ focus = "coreprobe" => ProbeInv
  /\ focus = "programs" => ProgInv

(* The steps of the eleven components, as the sum takes them.                 *)
ProvedStep ==
  /\ focus = "login" => LE!LoginNext
  /\ focus = "fetch" => SF!FetchNext
  /\ focus = "route" => LR!RouteNext
  /\ focus = "policy" => PT!PolicyNext
  /\ focus = "stability" => SR!StabilityNext
  /\ focus = "tunstart" => TS!TunStartNext
  /\ focus = "staging" => HS!StagingNext
  /\ focus = "unixproxy" => UP!UnixNext
  /\ focus = "corerun" => CR!CoreRunNext
  /\ focus = "coreprobe" => CP!ProbeNext
  /\ focus = "programs" => PP!ProgramNext

(* A step of the sum keeps the focus, and is one of the component in focus. *)
LEMMA StepOfFocus == ServicesNext => focus' = focus /\ ProvedStep
BY DEF ServicesNext, Only, ProvedStep

(* The first state of each.                                                *)
LEMMA ServicesStart == ServicesInit => ProvedInv
BY LoginStarts, FetchStarts, RouteStarts, PolicyStarts, BenchStarts, RoundStarts, HealthStarts,
   TunStarts, StagingStarts, UnixStarts, CoreStarts, ProbeStarts, ProgStarts, ProgramAssumption
   DEF ServicesInit, ProvedInv

(* What the step of a component does: it keeps its invariant, and is a      *)
(* careful one.                                                            *)
StepHolds ==
  /\ focus = "login" => LE!LoginStepOK
  /\ focus = "fetch" => SF!NothingSentLate
  /\ focus = "route" => LR!OnlyOurKeys
  /\ focus = "policy" => PT!RankingIsCurrent
  /\ focus = "stability" => SR!SwitchIsCurrent /\ SR!CooldownIsKept
  /\ focus = "tunstart" => TS!RetriesAreCareful
  /\ focus = "staging" => HS!StagingStepOK
  /\ focus = "unixproxy" => UP!ResumeIsWelcome
  /\ focus = "corerun" => CR!OnlyCheckedCoresRun
  /\ focus = "coreprobe" => CP!AnswersAreOfTheCall
  /\ focus = "programs" => PP!ProgramStepOK

(* Each step, by its component.                                            *)
LEMMA ServicesStep ==
  ASSUME ProvedInv, ServicesNext
  PROVE  ProvedInv' /\ StepHolds
<1>0. focus' = focus /\ ProvedStep
  BY StepOfFocus
<1>1. focus = "login" => LoginInv' /\ LE!LoginStepOK
  BY <1>0, LoginSteps, LoginIsCareful DEF ProvedInv, ProvedStep
<1>2. focus = "fetch" => FetchInv' /\ SF!NothingSentLate
  BY <1>0, FetchSteps DEF ProvedInv, ProvedStep
<1>3. focus = "route" => RouteInv' /\ LR!OnlyOurKeys
  BY <1>0, RouteStepsHold, RouteIsCareful DEF ProvedInv, ProvedStep
<1>4. focus = "policy" => PolicyInv' /\ BenchInv' /\ PT!RankingIsCurrent
  BY <1>0, PolicySteps, BenchSteps DEF ProvedInv, ProvedStep
<1>5. focus = "stability" =>
        RoundInv' /\ HealthInv' /\ SR!SwitchIsCurrent /\ SR!CooldownIsKept
  BY <1>0, RoundKept, RoundIsCurrent, HealthSteps DEF ProvedInv, ProvedStep
<1>6. focus = "tunstart" => TunInv' /\ TS!RetriesAreCareful
  BY <1>0, TunSteps, TunIsCareful DEF ProvedInv, ProvedStep
<1>7. focus = "staging" => StagingInv' /\ HS!StagingStepOK
  BY <1>0, StagingStepsHold DEF ProvedInv, ProvedStep
<1>8. focus = "corerun" => CoreInv' /\ CR!OnlyCheckedCoresRun
  BY <1>0, CoreSteps, CoreIsCareful DEF ProvedInv, ProvedStep
<1>9. focus = "coreprobe" => ProbeInv' /\ CP!AnswersAreOfTheCall
  BY <1>0, ProbeSteps, ProbeIsCareful DEF ProvedInv, ProvedStep
<1>10. focus = "programs" => ProgInv' /\ PP!ProgramStepOK
  BY <1>0, ProgSteps, ProgIsCareful, ProgramAssumption DEF ProvedInv, ProvedStep
<1>11. focus = "unixproxy" => UnixInv' /\ UP!ResumeIsWelcome
  BY <1>0, UnixSteps DEF ProvedInv, ProvedStep
<1> QED BY <1>0, <1>1, <1>2, <1>3, <1>4, <1>5, <1>6, <1>7, <1>8, <1>9, <1>10, <1>11
        DEF ProvedInv, StepHolds

(* A step of nothing.                                                      *)
LEMMA ServicesStutter ==
  ASSUME ProvedInv, UNCHANGED servicesVars
  PROVE  ProvedInv'
<1>0. focus' = focus /\ UNCHANGED <<v1, v2, v3, v4, v5, v6, v7, v8, v9, v10, v11, v12, v13>>
  BY DEF servicesVars, From1, From5, From7, From8, From9, From10, From12
<1> QED BY <1>0, LoginStutters, FetchStutters, RouteStutters, PolicyStutters, BenchStutters,
           RoundStutters, HealthStutters, TunStutters, StagingStutters, UnixStutters, CoreStutters, ProbeStutters,
           ProgStutters
        DEF ProvedInv

(* The inductive invariant of the sum: that of each component, over the     *)
(* constants of MCServices without their bounds on the world.              *)
THEOREM ServicesInductive == ServicesSpec => []ProvedInv
<1>1. ProvedInv /\ [ServicesNext]_servicesVars => ProvedInv'
  BY ServicesStep, ServicesStutter
<1> QED BY <1>1, ServicesStart, PTL DEF ServicesSpec

(* What is changed outside the application can be given back: the login     *)
(* entry by a command that fails and by a migration, the configuration of   *)
(* the other program by the local route; no request is cut off, each is      *)
(* counted once.                                                           *)
THEOREM TakenIsGivenBack == ServicesSpec => []TakenIsReversible
<1>1. ProvedInv => TakenIsReversible
  BY LoginHolds, RouteHolds DEF ProvedInv, TakenIsReversible
<1> QED BY <1>1, ServicesInductive, PTL

(* A core is run that was checked, none is lost, its phase and version are   *)
(* true, a TUN start is accepted on what was seen of one adapter; a program  *)
(* runs once for an entry, whose handle is its own.                         *)
THEOREM RunsStaySound == ServicesSpec => []RunsAreSound
<1>1. ProvedInv => RunsAreSound
  BY TunHolds, CoreHolds, ProbeHolds, ProgHolds DEF ProvedInv, RunsAreSound, StagingInv
<1> QED BY <1>1, ServicesInductive, PTL

(* No step of these components does what the stores, permits and histories  *)
(* it works on forbid.                                                     *)
THEOREM StepsStayCareful == ServicesSpec => StepsAreCareful
<1>1. ProvedInv /\ [ServicesNext]_servicesVars => [StepHolds]_servicesVars
  BY ServicesStep
<1> QED BY <1>1, ServicesInductive, PTL DEF ServicesSpec, StepsAreCareful, StepHolds

(* The types of the components among these that keep one; a core that        *)
(* measures nodes has its task, and none is left while a ranking is applied. *)
THEOREM ServicesTypesHold ==
  ServicesSpec => [](/\ focus = "login" => LE!LoginTypeOK
                     /\ focus = "route" => LR!RouteTypeOK
                     /\ focus = "policy" => PT!PolicyTypeOK /\ PT!BenchmarkHasTask
                     /\ focus = "corerun" => CR!CoreRunTypeOK
                     /\ focus = "coreprobe" => CP!ProbeTypeOK
                     /\ focus = "programs" => PP!ProgramTypeOK)
<1>1. ProvedInv => /\ focus = "login" => LE!LoginTypeOK
                   /\ focus = "route" => LR!RouteTypeOK
                   /\ focus = "policy" => PT!PolicyTypeOK /\ PT!BenchmarkHasTask
                   /\ focus = "corerun" => CR!CoreRunTypeOK
                   /\ focus = "coreprobe" => CP!ProbeTypeOK
                   /\ focus = "programs" => PP!ProgramTypeOK
  BY LoginHolds, RouteHolds, BenchHolds, CoreHolds, ProbeHolds, ProgHolds DEF ProvedInv
<1> QED BY <1>1, ServicesInductive, PTL

(* The deletion of a profile in the sum is the deletion by itself: whatever  *)
(* else is in focus leaves it alone, so that its theorems hold of the sum.   *)
THEOREM ServicesAreProfiles == ServicesSpec => Spec
<1>1. ServicesInit => Init
  BY DEF ServicesInit, ProfilesOff
<1>2. [ServicesNext]_servicesVars => [Next]_vars
  BY DEF ServicesNext, servicesVars, Only
<1> QED BY <1>1, <1>2, PTL DEF ServicesSpec, Spec

=============================================================================
