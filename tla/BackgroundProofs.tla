---------------------------- MODULE BackgroundProofs ----------------------------
(***************************************************************************)
(* Proofs about the components that run in the background, for every value *)
(* of their bounds and sets, one section each: its inductive invariant,    *)
(* one lemma per action or group of actions, and what the invariant says.  *)
(* The last section puts them together.  Inside a section the variables    *)
(* that the components share have the names of that component.             *)
(***************************************************************************)
EXTENDS MCBackground, Integers, Sequences, FiniteSetTheorems, TLAPS

-----------------------------------------------------------------------------
(* AtomicFile                                                              *)

(* As long as no query has met the gap, only the holder of the permit      *)
(* writes.                                                                 *)
OneWriter ==
  /\ \A q \in Queries : At(q, "idle")
  /\ \A c \in Commands : At(c, "idle") \/ permit = c
  /\ permit # NoOne => answer = "none"

(* What the position of the writer says about the files.                   *)
Positions ==
  \A c \in Commands :
    /\ pc[c] \in {"create", "exists"} => file = before
    /\ pc[c] \in {"stale", "aside"} => file = before /\ file # Missing
    /\ pc[c] \in {"swap", "putback"} => file = Missing
    /\ At(c, "clean") => file = latest

FileInv ==
  /\ TypeOK
  /\ "gap" \notin faults => OneWriter /\ Positions
  /\ LatestIsThere
  /\ AnswersAreKnown

(* Every step keeps the types.                                             *)
LEMMA FileTypeStep == TypeOK /\ [Next]_vars => TypeOK'
<1> SUFFICES ASSUME TypeOK, [Next]_vars PROVE TypeOK'
  OBVIOUS
<1> USE DEF TypeOK, Actors, Stored, Calls, Faults, Goto
<1>1. ASSUME NEW c \in Commands, NEW v \in Contents, Save(c, v) PROVE TypeOK'
  BY <1>1 DEF Save
<1>2. ASSUME NEW q \in Queries, SaveDefaults(q) PROVE TypeOK'
  BY <1>2, ContentsAssumption DEF SaveDefaults
<1>3. ASSUME NEW a \in Actors, Write(a) PROVE TypeOK'
  <2> USE DEF Proceeds, Returns
  <2>1. CASE Create(a) BY <2>1 DEF Create
  <2>2. CASE Exists(a) BY <2>2 DEF Exists
  <2>3. CASE RemoveStale(a) BY <2>3 DEF RemoveStale
  <2>4. CASE Aside(a) BY <2>4 DEF Aside
  <2>5. CASE Swap(a)
    <3>1. file' \in Stored /\ latest' \in Contents
      BY <2>5 DEF Swap
    <3>2. pc' \in [Actors -> Calls \union {"idle"}]
      BY <2>5 DEF Swap
    <3> QED BY <2>5, <3>1, <3>2 DEF Swap
  <2>6. CASE PutBack(a) BY <2>6 DEF PutBack
  <2>7. CASE Clean(a) BY <2>7 DEF Clean
  <2> QED BY <1>3, <2>1, <2>2, <2>3, <2>4, <2>5, <2>6, <2>7 DEF Write
<1>4. CASE Die BY <1>4 DEF Die
<1>5. CASE UNCHANGED vars BY <1>5 DEF vars
<1> QED BY <1>1, <1>2, <1>3, <1>4, <1>5 DEF Next

(* An idle file with its default content satisfies the invariant.          *)
LEMMA FileStarts == Init => FileInv
BY ActorsAssumption, ContentsAssumption
   DEF Init, FileInv, TypeOK, OneWriter, Positions, LatestIsThere,
       AnswersAreKnown, At, Actors, Stored, Calls, Faults

(* A query that acts has met the gap; otherwise the writer has the permit. *)
LEMMA WriterHasPermit ==
  ASSUME FileInv, "gap" \notin faults, NEW a \in Actors, Write(a)
  PROVE  a \in Commands /\ a # NoOne /\ permit = a /\ answer = "none"
BY ActorsAssumption
   DEF FileInv, OneWriter, At, Actors, Write, Create, Exists, RemoveStale, Aside,
       Swap, PutBack, Clean

(* The steps of a write, while no query has met the gap.                   *)
LEMMA WriteStep ==
  ASSUME FileInv, "gap" \notin faults, NEW a \in Actors, Write(a), TypeOK'
  PROVE  OneWriter' /\ Positions' /\ LatestIsThere' /\ AnswersAreKnown'
<1> USE ActorsAssumption, ContentsAssumption, WriterHasPermit
    DEF FileInv, TypeOK, Actors, At, Goto, Proceeds, Returns, OneWriter,
        Positions, LatestIsThere, AnswersAreKnown
<1>1. CASE Create(a) BY <1>1 DEF Create
<1>2. CASE Exists(a) BY <1>2 DEF Exists
<1>3. CASE RemoveStale(a) BY <1>3 DEF RemoveStale
<1>4. CASE Aside(a) BY <1>4 DEF Aside
<1>5. CASE Swap(a) BY <1>5 DEF Swap, Stored
<1>6. CASE PutBack(a) BY <1>6 DEF PutBack
<1>7. CASE Clean(a) BY <1>7 DEF Clean
<1> QED BY <1>1, <1>2, <1>3, <1>4, <1>5, <1>6, <1>7 DEF Write

(* Nothing is claimed after the gap, and no step forgets it.               *)
LEMMA GapStays == "gap" \in faults /\ [Next]_vars => "gap" \in faults'
BY DEF Next, vars, Save, SaveDefaults, Write, Create, Exists, RemoveStale,
       Aside, Swap, PutBack, Clean, Die, Proceeds, Returns

(* Every step of the file keeps its invariant.                             *)
LEMMA FileSteps == FileInv /\ [Next]_vars => FileInv'
<1> SUFFICES ASSUME FileInv, [Next]_vars, "gap" \notin faults,
                    "gap" \notin faults'
             PROVE  OneWriter' /\ Positions' /\ LatestIsThere'
                    /\ AnswersAreKnown'
  BY FileTypeStep, GapStays DEF FileInv, LatestIsThere, AnswersAreKnown
<1> TypeOK'
  BY FileTypeStep DEF FileInv
<1> USE DEF FileInv, TypeOK, Actors, At, Goto, OneWriter, Positions,
            LatestIsThere, AnswersAreKnown
<1>1. ASSUME NEW c \in Commands, NEW v \in Contents, Save(c, v)
      PROVE  OneWriter' /\ Positions' /\ LatestIsThere' /\ AnswersAreKnown'
  BY <1>1, ActorsAssumption DEF Save
<1>2. ASSUME NEW q \in Queries, SaveDefaults(q) PROVE FALSE
  BY <1>2 DEF SaveDefaults
<1>3. ASSUME NEW a \in Actors, Write(a)
      PROVE  OneWriter' /\ Positions' /\ LatestIsThere' /\ AnswersAreKnown'
  BY <1>3, WriteStep
<1>4. CASE Die BY <1>4, ActorsAssumption DEF Die
<1>5. CASE UNCHANGED vars BY <1>5 DEF vars
<1> QED BY <1>1, <1>2, <1>3, <1>4, <1>5 DEF Next

(* The invariant of the file alone, in every behaviour of AtomicFile.      *)
LEMMA FileInvariant == Spec => []FileInv
BY FileStarts, FileSteps, PTL DEF Spec

(* The variables of a write keep their types in every behaviour.           *)
THEOREM FileTypeCorrect == Spec => []TypeOK
BY FileInvariant, PTL DEF FileInv

(* Whatever write_private_atomic meets, the content that was saved last is *)
(* in the file, or in its backup while the file is missing.                *)
THEOREM LatestIsKept == Spec => []LatestIsThere
BY FileInvariant, PTL DEF FileInv

(* The answers of write_private_atomic are the outcomes that the undo of   *)
(* its callers covers.                                                     *)
THEOREM AnswersHold == Spec => []AnswersAreKnown
BY FileInvariant, PTL DEF FileInv

-----------------------------------------------------------------------------
(* NodeTest                                                                *)

nodeWorld == v1
nodeStarting == v2
nodeTests == v3
USE DEF nodeWorld, nodeStarting, nodeTests

(* What the constants must be; the theorems assume it.                     *)
NodesParameters ==
  /\ IsFiniteSet(Nodes) /\ Concurrency \in Nat /\ MaxTests \in Nat
  /\ "Pending" \notin Outcomes /\ "Testing" \notin Outcomes

NodeStates == Outcomes \union {"Pending", "Testing"}
WorkerPlaces == {"spawned", "loop", "left", "ended", "gone"}
NodeResults == UNION {[S -> NodeStates] : S \in SUBSET Nodes}
Tests ==
  [scope : NT!Scopes, phase : NT!Phases, valid : BOOLEAN, active : BOOLEAN, signal : BOOLEAN,
   nodes : NodeResults, todo : SUBSET Nodes, flying : SUBSET Nodes, at : WorkerPlaces]

(* What is true of a task wherever its worker is: probes fly only while    *)
(* the worker lives, and as long as nobody has cancelled the test every    *)
(* node that is neither to do nor in flight has its result.                *)
Sane(t) ==
  /\ t \in Tests /\ t.todo \union t.flying \subseteq DOMAIN t.nodes
  /\ t.active <=> t.at # "gone"
  /\ t.at \notin {"loop", "left"} => t.flying = {}
  /\ Cardinality(t.flying) <= Concurrency
  /\ t.at \in {"spawned", "loop"} =>
       /\ t.phase \in {"Running", "Cancelling"}
       /\ t.phase = "Running" =>
            t.valid /\ \A n \in DOMAIN t.nodes \ (t.todo \union t.flying) : t.nodes[n] \in Outcomes
  /\ t.phase = "Completed" => \A n \in DOMAIN t.nodes : t.nodes[n] \in Outcomes

(* Only the last worker is still there: a test begins when the slot is     *)
(* free, and a worker frees it last.                                       *)
NodesInv ==
  /\ nodeWorld \in Worlds /\ nodeStarting \in NT!Scopes \union {NT!NoScope}
  /\ nodeTests \in Seq(Tests) /\ Len(nodeTests) <= MaxTests
  /\ \A i \in 1..Len(nodeTests) :
       Sane(nodeTests[i]) /\ (i < Len(nodeTests) => nodeTests[i].at = "gone")

-----------------------------------------------------------------------------
(* What is done to one task keeps it sane.                                 *)

(* NodeTest counts with the operator of its own module.                    *)
LEMMA Counts ==
  ASSUME NEW S
  PROVE  NT!Cardinality(S) = Cardinality(S)
BY DEF NT!Cardinality, Cardinality

(* The fields of a task.                                                   *)
LEMMA TestFields ==
  ASSUME NEW t \in Tests
  PROVE  /\ t.scope \in NT!Scopes /\ t.phase \in NT!Phases
         /\ t.valid \in BOOLEAN /\ t.active \in BOOLEAN /\ t.signal \in BOOLEAN
         /\ t.nodes \in NodeResults /\ t.todo \subseteq Nodes /\ t.flying \subseteq Nodes
         /\ t.at \in WorkerPlaces
BY DEF Tests

(* The results of a test are those of some of the nodes.                   *)
LEMMA TestResultsType ==
  ASSUME NEW f
  PROVE  f \in NodeResults <=> DOMAIN f \subseteq Nodes /\ f \in [DOMAIN f -> NodeStates]
<1>1. ASSUME f \in NodeResults PROVE DOMAIN f \subseteq Nodes /\ f \in [DOMAIN f -> NodeStates]
  <2>1. PICK S \in SUBSET Nodes : f \in [S -> NodeStates]
    BY <1>1 DEF NodeResults
  <2> QED BY <2>1
<1>2. ASSUME DOMAIN f \subseteq Nodes, f \in [DOMAIN f -> NodeStates] PROVE f \in NodeResults
  BY <1>2 DEF NodeResults
<1> QED BY <1>1, <1>2

(* A task that has just begun.                                             *)
LEMMA FreshIsSane ==
  ASSUME NodesParameters, NEW s \in NT!Scopes, NEW names \in SUBSET Nodes
  PROVE  Sane(NT!NewTask(s, names))
<1>1. NT!NewTask(s, names) \in Tests
  <2>1. [n \in names |-> "Pending"] \in [names -> NodeStates]
    BY DEF NodeStates
  <2>2. [n \in names |-> "Pending"] \in NodeResults
    BY <2>1 DEF NodeResults
  <2> QED BY <2>2 DEF NT!NewTask, Tests, NT!Phases, WorkerPlaces
<1>2. Cardinality({}) = 0
  BY FS_EmptySet
<1> QED BY <1>1, <1>2 DEF NT!NewTask, Sane, NodesParameters

(* Cancelling changes no result and moves no worker.                       *)
LEMMA CancelledIsSane ==
  ASSUME NEW t, Sane(t), NEW invalidate \in BOOLEAN
  PROVE  Sane(NT!Cancelled(t, invalidate)) /\ NT!Cancelled(t, invalidate).at = t.at
BY DEF Sane, NT!Cancelled, Tests, NT!Phases

(* A worker may leave its loop at any point.                               *)
LEMMA LeftIsSane ==
  ASSUME NEW t, Sane(t), t.at \in {"spawned", "loop"}
  PROVE  Sane([t EXCEPT !.at = "left"])
BY DEF Sane, Tests, WorkerPlaces

(* A worker enters its loop with all its nodes to do.                      *)
LEMMA EnteredIsSane ==
  ASSUME NEW t, Sane(t), t.at = "spawned"
  PROVE  Sane([t EXCEPT !.at = "loop"])
BY DEF Sane, Tests, WorkerPlaces

(* A result is written only while the test runs and is valid.              *)
LEMMA ResultIsSane ==
  ASSUME NodesParameters, NEW t, Sane(t), t.at = "loop",
         NEW n \in DOMAIN t.nodes, NEW state \in NodeStates
  PROVE  LET u == NT!WithResult(t, n, state)
         IN /\ u \in Tests /\ u.at = t.at /\ u.phase = t.phase /\ u.valid = t.valid
            /\ u.active = t.active /\ u.todo = t.todo /\ u.flying = t.flying
            /\ DOMAIN u.nodes = DOMAIN t.nodes
            /\ \A m \in DOMAIN t.nodes \ {n} : u.nodes[m] = t.nodes[m]
            /\ t.phase = "Running" => u.nodes[n] = state
<1> DEFINE f == [t.nodes EXCEPT ![n] = state]
           u == NT!WithResult(t, n, state)
<1>1. t \in Tests /\ t.nodes \in NodeResults
  BY TestFields DEF Sane
<1>2. t.nodes \in [DOMAIN t.nodes -> NodeStates] /\ DOMAIN t.nodes \subseteq Nodes
  BY <1>1, TestResultsType
<1>3. f \in [DOMAIN t.nodes -> NodeStates] /\ DOMAIN f = DOMAIN t.nodes
  BY <1>2
<1>4. f \in NodeResults
  BY <1>2, <1>3, TestResultsType
<1>5. CASE t.phase = "Running" /\ t.valid
  <2>1. u = [t EXCEPT !.nodes = f]
    BY <1>1, <1>5 DEF NT!WithResult, Tests
  <2>2. u \in Tests
    BY <1>1, <1>4, <2>1 DEF Tests
  <2>3. \A m \in DOMAIN t.nodes \ {n} : u.nodes[m] = t.nodes[m]
    BY <1>1, <1>2, <2>1 DEF Tests
  <2> QED BY <1>1, <1>2, <1>3, <2>1, <2>2, <2>3 DEF Tests
<1>6. CASE ~(t.phase = "Running" /\ t.valid)
  <2>1. u = t /\ t.phase # "Running"
    BY <1>6 DEF NT!WithResult, Sane
  <2> QED BY <1>1, <2>1
<1> QED BY <1>5, <1>6

(* A node leaves the queue as its probe takes flight.                      *)
LEMMA DispatchedIsSane ==
  ASSUME NodesParameters, NEW t, Sane(t), t.at = "loop", NEW n \in t.todo,
         Cardinality(t.flying) < Concurrency
  PROVE  Sane([NT!WithResult(t, n, "Testing") EXCEPT !.todo = @ \ {n}, !.flying = @ \union {n}])
<1> DEFINE u == NT!WithResult(t, n, "Testing")
           v == [u EXCEPT !.todo = @ \ {n}, !.flying = @ \union {n}]
<1>1. t \in Tests /\ n \in DOMAIN t.nodes /\ t.flying \subseteq Nodes /\ IsFiniteSet(Nodes)
  BY TestFields DEF Sane, NodesParameters
<1>2. /\ u \in Tests /\ u.at = "loop" /\ u.phase = t.phase /\ u.valid = t.valid
      /\ u.active = t.active /\ u.todo = t.todo /\ u.flying = t.flying
      /\ DOMAIN u.nodes = DOMAIN t.nodes
      /\ \A m \in DOMAIN t.nodes \ {n} : u.nodes[m] = t.nodes[m]
  BY <1>1, ResultIsSane DEF NodeStates
<1>3. /\ v \in Tests /\ v.at = "loop" /\ v.phase = t.phase /\ v.valid = t.valid
      /\ v.active = t.active /\ v.todo = t.todo \ {n} /\ v.flying = t.flying \union {n}
      /\ v.nodes = u.nodes
  <2>1. n \in Nodes
    BY <1>1, TestFields, TestResultsType
  <2> QED BY <1>1, <1>2, <2>1 DEF Tests
<1>4. Cardinality(v.flying) <= Concurrency
  <2>1. IsFiniteSet(t.flying)
    BY <1>1, FS_Subset
  <2>2. Cardinality(t.flying) \in Nat /\ Cardinality(t.flying \union {n}) <= Cardinality(t.flying) + 1
    <3>1. Cardinality(t.flying) \in Nat
      BY <2>1, FS_CardinalityType
    <3>2. Cardinality(t.flying \union {n}) =
            IF n \in t.flying THEN Cardinality(t.flying) ELSE Cardinality(t.flying) + 1
      BY <2>1, FS_AddElement
    <3> QED BY <3>1, <3>2
  <2>3. Cardinality(t.flying \union {n}) \in Nat
    BY <2>1, FS_AddElement, FS_CardinalityType
  <2>4. Cardinality(v.flying) <= Cardinality(t.flying) + 1
    BY <1>3, <2>2
  <2> HIDE DEF v
  <2> QED BY <1>3, <2>2, <2>3, <2>4 DEF NodesParameters
<1>5. v.phase = "Running" =>
        v.valid /\ \A m \in DOMAIN v.nodes \ (v.todo \union v.flying) : v.nodes[m] \in Outcomes
  BY <1>2, <1>3 DEF Sane
<1>6. /\ v.phase \in {"Running", "Cancelling"} /\ v.active
      /\ v.todo \union v.flying \subseteq DOMAIN v.nodes
  BY <1>1, <1>2, <1>3 DEF Sane
<1> QED BY <1>3, <1>4, <1>5, <1>6 DEF Sane

(* An answer lands one probe.                                              *)
LEMMA AnsweredIsSane ==
  ASSUME NodesParameters, NEW t, Sane(t), t.at = "loop", NEW n \in t.flying, NEW state \in Outcomes
  PROVE  Sane([NT!WithResult(t, n, state) EXCEPT !.flying = @ \ {n}])
<1> DEFINE u == NT!WithResult(t, n, state)
           v == [u EXCEPT !.flying = @ \ {n}]
<1>1. t \in Tests /\ n \in DOMAIN t.nodes /\ t.flying \subseteq Nodes /\ IsFiniteSet(Nodes)
  BY TestFields DEF Sane, NodesParameters
<1>2. /\ u \in Tests /\ u.at = "loop" /\ u.phase = t.phase /\ u.valid = t.valid
      /\ u.active = t.active /\ u.todo = t.todo /\ u.flying = t.flying
      /\ DOMAIN u.nodes = DOMAIN t.nodes
      /\ \A m \in DOMAIN t.nodes \ {n} : u.nodes[m] = t.nodes[m]
      /\ t.phase = "Running" => u.nodes[n] = state
  BY <1>1, ResultIsSane DEF NodeStates
<1>3. /\ v \in Tests /\ v.at = "loop" /\ v.phase = t.phase /\ v.valid = t.valid
      /\ v.active = t.active /\ v.todo = t.todo /\ v.flying = t.flying \ {n}
      /\ v.nodes = u.nodes
  <2>1. n \in Nodes
    BY <1>1, TestFields, TestResultsType
  <2> QED BY <1>1, <1>2, <2>1 DEF Tests
<1>4. Cardinality(v.flying) <= Concurrency
  <2>1. IsFiniteSet(t.flying)
    BY <1>1, FS_Subset
  <2>2. IsFiniteSet(v.flying) /\ Cardinality(v.flying) <= Cardinality(t.flying)
    BY <1>3, <2>1, FS_Subset
  <2>3. Cardinality(t.flying) \in Nat /\ Cardinality(v.flying) \in Nat
    BY <2>1, <2>2, FS_CardinalityType
  <2> QED BY <2>2, <2>3 DEF NodesParameters, Sane
<1>5. v.phase = "Running" =>
        v.valid /\ \A m \in DOMAIN v.nodes \ (v.todo \union v.flying) : v.nodes[m] \in Outcomes
  BY <1>2, <1>3 DEF Sane
<1>6. /\ v.phase \in {"Running", "Cancelling"} /\ v.active
      /\ v.todo \union v.flying \subseteq DOMAIN v.nodes
  BY <1>1, <1>2, <1>3 DEF Sane
<1> QED BY <1>3, <1>4, <1>5, <1>6 DEF Sane

(* Without a node to do or a probe in flight every node has a result.      *)
LEMMA FinishedIsSane ==
  ASSUME NEW t, Sane(t), NT!Exhausted(t)
  PROVE  Sane([t EXCEPT !.phase = IF @ = "Running" THEN "Completed" ELSE @, !.at = "left"])
<1>1. t.at = "loop" /\ t.todo = {} /\ t.flying = {} /\ t \in Tests
  BY DEF NT!Exhausted, Sane
<1>2. t.phase = "Running" => \A n \in DOMAIN t.nodes : t.nodes[n] \in Outcomes
  BY <1>1 DEF Sane
<1> QED BY <1>1, <1>2 DEF Sane, Tests, NT!Phases, WorkerPlaces

(* The drop guard takes back the nodes in flight.                          *)
LEMMA DroppedIsSane ==
  ASSUME NodesParameters, NEW t, Sane(t), t.at = "left", NEW final \in NT!Phases,
         final = "Completed" => t.phase = "Completed"
  PROVE  Sane([t EXCEPT !.phase = final, !.at = "ended", !.flying = {},
                        !.nodes = [n \in DOMAIN @ |-> IF @[n] = "Testing" THEN "Pending" ELSE @[n]]])
<1> DEFINE u == [t EXCEPT !.phase = final, !.at = "ended", !.flying = {},
                          !.nodes = [n \in DOMAIN @ |-> IF @[n] = "Testing" THEN "Pending" ELSE @[n]]]
<1>1. t \in Tests
  BY DEF Sane
<1> DEFINE f == [n \in DOMAIN t.nodes |-> IF t.nodes[n] = "Testing" THEN "Pending" ELSE t.nodes[n]]
<1>2. f \in NodeResults /\ DOMAIN f = DOMAIN t.nodes
  <2>1. t.nodes \in [DOMAIN t.nodes -> NodeStates] /\ DOMAIN t.nodes \subseteq Nodes
    BY <1>1, TestFields, TestResultsType
  <2>2. f \in [DOMAIN t.nodes -> NodeStates]
    BY <2>1 DEF NodeStates
  <2> QED BY <2>1, <2>2, TestResultsType
<1>3. u = [t EXCEPT !.phase = final, !.at = "ended", !.flying = {}, !.nodes = f]
  BY <1>1 DEF Tests
<1>4. /\ u \in Tests /\ u.at = "ended" /\ u.phase = final /\ u.flying = {} /\ u.active = t.active
      /\ u.todo = t.todo /\ u.nodes = f
  BY <1>1, <1>2, <1>3 DEF Tests, WorkerPlaces
<1>5. Cardinality({}) = 0
  BY FS_EmptySet
<1>6. final = "Completed" => \A n \in DOMAIN u.nodes : u.nodes[n] \in Outcomes
  BY <1>2, <1>4 DEF Sane, NodesParameters
<1>7. u.active /\ u.todo \union u.flying \subseteq DOMAIN u.nodes
  BY <1>2, <1>4 DEF Sane
<1>8. Sane(u)
  <2> HIDE DEF u, f
  <2> QED BY <1>4, <1>5, <1>6, <1>7 DEF Sane, NodesParameters
<1> QED BY <1>8

(* The slot is freed last.                                                 *)
LEMMA GoneIsSane ==
  ASSUME NEW t, Sane(t), t.at = "ended"
  PROVE  Sane([t EXCEPT !.active = FALSE, !.at = "gone"])
BY DEF Sane, Tests, WorkerPlaces

-----------------------------------------------------------------------------
(* The steps of the invariant.                                             *)

(* A step of one task keeps the invariant if the task stays sane.          *)
LEMMA TestMoving ==
  ASSUME NodesInv, NEW i \in 1..Len(nodeTests), NEW u, Sane(u),
         nodeTests[i].at = "gone" => u.at = "gone",
         NT!Move(i, u)
  PROVE  NodesInv'
<1>1. nodeTests' = [nodeTests EXCEPT ![i] = u] /\ nodeWorld' = nodeWorld /\ nodeStarting' = nodeStarting
  BY DEF NT!Move
<1>2. nodeTests \in Seq(Tests) /\ u \in Tests
  BY DEF NodesInv, Sane
<1>3. nodeTests' \in Seq(Tests) /\ Len(nodeTests') = Len(nodeTests)
  BY <1>1, <1>2
<1>4. \A j \in 1..Len(nodeTests) : nodeTests'[j] = IF j = i THEN u ELSE nodeTests[j]
  BY <1>1, <1>2
<1> QED BY <1>1, <1>3, <1>4 DEF NodesInv

(* The steps of a worker.                                                  *)
LEMMA TestWorkerSteps ==
  ASSUME NodesParameters, NodesInv, NEW i \in 1..Len(nodeTests), NT!WorkerStep(i)
  PROVE  NodesInv'
<1> DEFINE t == nodeTests[i]
<1>1. Sane(t) /\ t \in Tests
  BY DEF NodesInv, Sane
<1>2. CASE NT!Enter(i)
  <2>1. t.at = "spawned" /\ NT!Move(i, [t EXCEPT !.at = IF t.signal THEN "left" ELSE "loop"])
    BY <1>2 DEF NT!Enter
  <2>2. Sane([t EXCEPT !.at = IF t.signal THEN "left" ELSE "loop"])
    BY <1>1, <2>1, LeftIsSane, EnteredIsSane
  <2> QED BY <2>1, <2>2, TestMoving
<1>3. CASE NT!Finish(i)
  <2>1. /\ NT!Exhausted(t) /\ t.at = "loop"
        /\ NT!Move(i, [t EXCEPT !.phase = IF @ = "Running" THEN "Completed" ELSE @, !.at = "left"])
    BY <1>3 DEF NT!Finish, NT!Exhausted
  <2> QED BY <1>1, <2>1, FinishedIsSane, TestMoving
<1>4. CASE NT!HearSignal(i) \/ NT!Abort(i)
  <2>1. t.at \in {"spawned", "loop"} /\ NT!Move(i, [t EXCEPT !.at = "left"])
    BY <1>4 DEF NT!HearSignal, NT!Abort
  <2> QED BY <1>1, <2>1, LeftIsSane, TestMoving
<1>5. ASSUME NEW invalidate \in BOOLEAN, t.at = "loop",
             NT!Move(i, [NT!Cancelled(t, invalidate) EXCEPT !.at = "left"])
      PROVE  NodesInv'
  <2>1. Sane([NT!Cancelled(t, invalidate) EXCEPT !.at = "left"])
    BY <1>1, <1>5, CancelledIsSane, LeftIsSane
  <2> QED BY <1>5, <2>1, TestMoving
<1>6. CASE NT!Monitor(i) \/ NT!Deadline(i)
  BY <1>5, <1>6 DEF NT!Monitor, NT!Deadline
<1>7. CASE NT!DropPhase(i)
  <2>1. PICK final \in {"Cancelled", "Failed", t.phase} :
          /\ t.at = "left"
          /\ NT!Move(i, [t EXCEPT !.phase = final, !.at = "ended", !.flying = {},
                        !.nodes = [n \in DOMAIN @ |-> IF @[n] = "Testing" THEN "Pending" ELSE @[n]]])
    BY <1>7 DEF NT!DropPhase
  <2>2. final \in NT!Phases /\ (final = "Completed" => t.phase = "Completed")
    BY <1>1, <2>1, TestFields DEF NT!Phases
  <2> QED BY <1>1, <2>1, <2>2, DroppedIsSane, TestMoving
<1>8. CASE NT!DropSlot(i)
  <2>1. t.at = "ended" /\ NT!Move(i, [t EXCEPT !.active = FALSE, !.at = "gone"])
    BY <1>8 DEF NT!DropSlot
  <2>2. Sane([t EXCEPT !.active = FALSE, !.at = "gone"])
    BY <1>1, <2>1, GoneIsSane
  <2> QED BY <2>1, <2>2, TestMoving
<1>9. ASSUME NEW n \in Nodes, NT!Dispatch(i, n) PROVE NodesInv'
  <2>1. /\ t.at = "loop" /\ n \in t.todo /\ Cardinality(t.flying) < Concurrency
        /\ NT!Move(i, [NT!WithResult(t, n, "Testing") EXCEPT !.todo = @ \ {n}, !.flying = @ \union {n}])
    BY <1>9, Counts DEF NT!Dispatch
  <2> QED BY <1>1, <2>1, DispatchedIsSane, TestMoving
<1>10. ASSUME NEW n \in Nodes, NEW o \in Outcomes, NT!Answer(i, n, o) PROVE NodesInv'
  <2>1. CASE NT!Current(t.scope)
    <3>1. /\ t.at = "loop" /\ n \in t.flying
          /\ NT!Move(i, [NT!WithResult(t, n, o) EXCEPT !.flying = @ \ {n}])
      BY <1>10, <2>1 DEF NT!Answer
    <3> QED BY <1>1, <3>1, AnsweredIsSane, TestMoving
  <2>2. CASE ~NT!Current(t.scope)
    BY <1>5, <1>10, <2>2 DEF NT!Answer
  <2> QED BY <2>1, <2>2
<1> QED BY <1>2, <1>3, <1>4, <1>6, <1>7, <1>8, <1>9, <1>10 DEF NT!WorkerStep

(* The commands that cancel a test.                                        *)
LEMMA TestCancels ==
  ASSUME NodesInv, NT!UserCancels \/ NT!Invalidate \/ NT!StatusReads
  PROVE  NodesInv'
<1>1. PICK invalidate \in BOOLEAN :
        NT!Slot > 0 /\ NT!Move(NT!Slot, NT!Cancelled(nodeTests[NT!Slot], invalidate))
  BY DEF NT!UserCancels, NT!Invalidate, NT!StatusReads, NT!Occupied
<1>2. NT!Slot \in 1..Len(nodeTests)
  BY <1>1 DEF NT!Slot, NodesInv
<1> QED BY <1>1, <1>2, CancelledIsSane, TestMoving DEF NodesInv

(* The steps of a start, from the request to the listing.                  *)
LEMMA TestStarts ==
  ASSUME NodesParameters, NodesInv, NT!StartAsked \/ NT!StartListed \/ NT!StartFails
  PROVE  NodesInv'
<1>1. CASE NT!StartAsked
  <2>1. nodeStarting' \in NT!Scopes
    BY <1>1 DEF NT!StartAsked, NT!Scopes, NodesInv
  <2> QED BY <1>1, <2>1 DEF NT!StartAsked, NodesInv
<1>2. CASE NT!StartFails
  BY <1>2 DEF NT!StartFails, NodesInv
<1>3. CASE NT!StartListed
  <2>1. nodeWorld' = nodeWorld /\ nodeStarting' = NT!NoScope /\ nodeStarting \in NT!Scopes
    BY <1>3 DEF NT!StartListed, NodesInv
  <2>9. \A listing \in Listings : NT!Collected(nodeStarting, listing) \subseteq Nodes
    BY DEF NT!Collected
  <2>2. CASE UNCHANGED nodeTests
    BY <2>1, <2>2 DEF NodesInv, NodesParameters
  <2>3. ASSUME NEW names \in SUBSET Nodes, ~NT!Occupied, NT!Slot < MaxTests,
               nodeTests' = Append(nodeTests, NT!NewTask(nodeStarting, names))
        PROVE  NodesInv'
    <3>1. Sane(NT!NewTask(nodeStarting, names)) /\ NT!NewTask(nodeStarting, names) \in Tests
      BY <2>1, FreshIsSane DEF Sane
    <3>2. /\ nodeTests' \in Seq(Tests) /\ Len(nodeTests') = Len(nodeTests) + 1
          /\ \A i \in 1..Len(nodeTests) : nodeTests'[i] = nodeTests[i]
          /\ nodeTests'[Len(nodeTests) + 1] = NT!NewTask(nodeStarting, names)
      BY <2>3, <3>1 DEF NodesInv
    <3>3. \A i \in 1..Len(nodeTests) : nodeTests[i].at = "gone"
      BY <2>3 DEF NodesInv, NT!Occupied, NT!Slot, Sane
    <3>4. Len(nodeTests) \in Nat /\ Len(nodeTests) + 1 <= MaxTests
      BY <2>3 DEF NodesInv, NT!Slot, NodesParameters
    <3>5. \A i \in 1..(Len(nodeTests) + 1) :
            Sane(nodeTests'[i]) /\ (i < Len(nodeTests) + 1 => nodeTests'[i].at = "gone")
      <4>1. \A i \in 1..(Len(nodeTests) + 1) : i \in 1..Len(nodeTests) \/ i = Len(nodeTests) + 1
        BY <3>4
      <4> QED BY <3>1, <3>2, <3>3, <3>4, <4>1 DEF NodesInv
    <3> QED BY <2>1, <3>2, <3>4, <3>5 DEF NodesInv, NodesParameters
  <2> QED BY <1>3, <2>2, <2>3, <2>9 DEF NT!StartListed, NT!BeginFresh
<1> QED BY <1>1, <1>2, <1>3

(* It is about these three variables only.                                 *)
LEMMA NodesStutter ==
  ASSUME NodesInv, UNCHANGED <<v1, v2, v3>>
  PROVE  NodesInv'
BY DEF NodesInv

(* Every step of a node test keeps the invariant.                          *)
LEMMA NodesStep ==
  ASSUME NodesParameters, NodesInv, NT!NodeTestNext
  PROVE  NodesInv'
<1>1. CASE NT!StartAsked \/ NT!StartListed \/ NT!StartFails
  BY <1>1, TestStarts
<1>2. CASE NT!UserCancels \/ NT!Invalidate \/ NT!StatusReads
  BY <1>2, TestCancels
<1>3. CASE NT!ScopeChanges
  BY <1>3 DEF NT!ScopeChanges, NodesInv, Sane
<1>4. CASE \E i \in DOMAIN nodeTests : NT!WorkerStep(i)
  <2>1. DOMAIN nodeTests = 1..Len(nodeTests)
    BY DEF NodesInv
  <2> QED BY <1>4, <2>1, TestWorkerSteps
<1> QED BY <1>1, <1>2, <1>3, <1>4 DEF NT!NodeTestNext

(* The manager starts without tests.                                       *)
LEMMA NodesStart ==
  ASSUME NodesParameters, NT!NodeTestInit
  PROVE  NodesInv
BY SMTT(30) DEF NT!NodeTestInit, NodesInv, NodesParameters

-----------------------------------------------------------------------------
(* What the invariant says of every state.                                 *)

(* The types.                                                              *)
LEMMA NodesTyped ==
  ASSUME NodesInv
  PROVE  NT!NodeTestTypeOK
<1>1. DOMAIN nodeTests = 1..Len(nodeTests)
  BY DEF NodesInv
<1>2. \A i \in DOMAIN nodeTests : nodeTests[i] \in Tests
  BY <1>1 DEF NodesInv
<1>3. \A i \in DOMAIN nodeTests :
        /\ DOMAIN nodeTests[i].nodes \subseteq Nodes
        /\ nodeTests[i].nodes \in [DOMAIN nodeTests[i].nodes -> NodeStates]
        /\ nodeTests[i].todo \union nodeTests[i].flying \subseteq DOMAIN nodeTests[i].nodes
  BY <1>1, <1>2, TestFields, TestResultsType DEF NodesInv, Sane
<1>4. \A i \in DOMAIN nodeTests :
        /\ nodeTests[i].scope \in NT!Scopes /\ nodeTests[i].phase \in NT!Phases
        /\ nodeTests[i].valid \in BOOLEAN /\ nodeTests[i].active \in BOOLEAN
        /\ nodeTests[i].signal \in BOOLEAN /\ nodeTests[i].at \in WorkerPlaces
  BY <1>2, TestFields
<1>5. \A i \in DOMAIN nodeTests : \A n \in DOMAIN nodeTests[i].nodes :
        nodeTests[i].nodes[n] \in NodeStates
  BY <1>3
<1> QED BY <1>3, <1>4, <1>5 DEF NodesInv, NT!NodeTestTypeOK, NodeStates, WorkerPlaces

(* Only the last worker has probes in flight.                              *)
LEMMA NodesBounded ==
  ASSUME NodesParameters, NodesInv
  PROVE  NT!ProbesBounded
<1> DEFINE Flying == {p \in (1..MaxTests) \X Nodes :
                        p[1] <= Len(nodeTests) /\ p[2] \in nodeTests[p[1]].flying}
<1>1. \A p \in Flying : p[1] = Len(nodeTests) /\ p[2] \in nodeTests[Len(nodeTests)].flying
  BY DEF NodesInv, Sane, NodesParameters
<1>0. NT!Cardinality(Flying) = Cardinality(Flying)
  BY Counts
<1>2. CASE Flying = {}
  <2>1. Cardinality(Flying) = 0
    BY <1>2, FS_EmptySet
  <2> QED BY <1>0, <2>1 DEF NT!ProbesBounded, NodesParameters
<1>3. CASE Flying # {}
  <2> DEFINE last == nodeTests[Len(nodeTests)].flying
             F == [p \in Flying |-> p[2]]
  <2>1. Sane(nodeTests[Len(nodeTests)])
    BY <1>1, <1>3 DEF NodesInv, NodesParameters
  <2>2. IsFiniteSet(last) /\ Cardinality(last) \in Nat /\ Cardinality(last) <= Concurrency
    <3>1. last \subseteq Nodes
      BY <2>1, TestFields DEF Sane
    <3>2. IsFiniteSet(last)
      BY <3>1, FS_Subset DEF NodesParameters
    <3> QED BY <2>1, <3>2, FS_CardinalityType DEF Sane
  <2>3. F \in Injection(Flying, last)
    <3>1. F \in [Flying -> last]
      BY <1>1
    <3>2. \A p, q \in Flying : F[p] = F[q] => p = q
      BY <1>1
    <3> QED BY <3>1, <3>2 DEF Injection, IsInjective
  <2>4. IsFiniteSet(Flying) /\ Cardinality(Flying) <= Cardinality(last)
    BY <2>2, <2>3, FS_Injection
  <2>5. Cardinality(Flying) \in Nat
    BY <2>4, FS_CardinalityType
  <2> QED BY <1>0, <2>2, <2>4, <2>5 DEF NT!ProbesBounded, NodesParameters
<1> QED BY <1>2, <1>3

(* A completed test has all its results.                                   *)
LEMMA NodesComplete ==
  ASSUME NodesInv
  PROVE  NT!CompletedIsComplete
<1>1. DOMAIN nodeTests = 1..Len(nodeTests)
  BY DEF NodesInv
<1> QED BY <1>1 DEF NodesInv, Sane, NT!CompletedIsComplete

(* What the invariant says of a node test.                                 *)
LEMMA NodesHold ==
  ASSUME NodesParameters, NodesInv
  PROVE  NT!NodeTestTypeOK /\ NT!ProbesBounded /\ NT!CompletedIsComplete
BY NodesTyped, NodesBounded, NodesComplete

HIDE DEF nodeWorld, nodeStarting, nodeTests

-----------------------------------------------------------------------------
(* UpdateInstall                                                           *)

upAt == v1
step == v2
running == v3
session == v4
disk == v5
touched == v6
wanted == v7
USE DEF upAt, step, running, session, disk, touched, wanted

Sessions ==
  [phase : {"idle", "checking", "available", "current", "downloading", "ready", "installing",
            "failed", "cancelled"},
   stage : UP!Stages \union {"", "download", "verified"}, info : BOOLEAN, ready : BOOLEAN,
   retry : BOOLEAN, cancelled : BOOLEAN]
Receipts ==
  [stage : UP!Stages \union {"none", "failed", "confirmed"},
   failedAt : UP!Stages \union {"none"}, backup : BOOLEAN]
Markers == [tun : BOOLEAN, login : BOOLEAN, there : BOOLEAN]
Disks ==
  [bundle : UP!Versions \union {"none", "broken"}, backup : {"none", "old"}, receipt : Receipts,
   marker : Markers, tun : UP!Versions \union {"off"}, login : BOOLEAN, loginSetting : BOOLEAN]
Disturbing ==
  {"stop", "toServices", "prepare", "detachTun", "detachLogin", "toReplacing", "replace"}
AllForward ==
  {"toPreflight", "verify", "backup", "toStopping", "toRestarting", "restart"} \union Disturbing

UpdateTypes ==
  /\ upAt \in {"down", "idle", "checking", "downloading", "confirming", "install", "boot"}
  /\ step \in {"none", "undoFiles", "failed", "login", "tun", "marker"} \union AllForward
  /\ running \in UP!Versions /\ session \in Sessions /\ disk \in Disks
  /\ touched \in BOOLEAN /\ wanted \in [tun : BOOLEAN, login : BOOLEAN]

(* The stage that the window shows is ahead of what the install has done.  *)
InstallInv ==
  /\ upAt = "downloading" => session.stage = "download"
  /\ upAt = "install" =>
       /\ session.stage \in UP!Stages /\ ~session.retry
       /\ session.stage = "preflight" \/ step = "toPreflight" => ~touched
       /\ step \in Disturbing => session.stage # "preflight"
       /\ step \in AllForward \ {"toPreflight"} => disk.receipt.failedAt # "preflight"
       /\ step \in Disturbing \union {"toStopping", "undoFiles"} => disk.backup = "old"

(* The marker owes a service until the moment it is registered again.      *)
MarkerInv ==
  /\ wanted.login => disk.loginSetting
  /\ step \in {"detachTun", "detachLogin"} =>
       (wanted.tun => disk.marker.tun) /\ (wanted.login => disk.marker.login)
  /\ step \in {"tun", "marker"} => (wanted.login => disk.login)
  /\ step = "marker" => (wanted.tun => disk.tun # "off")

StepsInv ==
  /\ step \in {"login", "tun", "marker"} => upAt \in {"install", "boot"}
  /\ step \in {"undoFiles", "failed"} \union AllForward => upAt = "install"
  /\ upAt = "boot" => step \in {"login", "tun", "marker"}

UpdateInv ==
  /\ UpdateTypes /\ InstallInv /\ MarkerInv /\ StepsInv
  /\ UP!AppSurvives /\ UP!ServicesSurvive /\ UP!UndisturbedIsTrue

(* What a step leaves alone on disk.                                       *)
SameFiles == disk'.bundle = disk.bundle /\ disk'.backup = disk.backup
SameServices ==
  /\ disk'.marker = disk.marker /\ disk'.tun = disk.tun /\ disk'.login = disk.login
  /\ disk'.loginSetting = disk.loginSetting
SameReceipt == disk'.receipt = disk.receipt

(* The steps of an install before it is committed, as one set.             *)
LEMMA ForwardSteps == UP!Forward = AllForward
BY DEF UP!Forward, UP!StageOf, AllForward, Disturbing

(* The steps that register the services again.                             *)
LEMMA Recoverable == UP!Recovery = {"login", "tun", "marker"}
BY DEF UP!Recovery

(* A step of the session outside an install.                               *)
LEMMA SessionStep ==
  ASSUME UpdateInv, UP!Quiet, session' \in Sessions,
         upAt' \in {"down", "idle", "checking", "downloading", "confirming", "install", "boot"},
         session'.retry => session.retry,
         upAt' = "downloading" => session'.stage = "download",
         \/ upAt' \notin {"install", "boot"} /\ upAt \notin {"install", "boot"}
         \/ upAt' = upAt /\ session'.stage = session.stage
  PROVE  UpdateInv'
<1>1. step' = step /\ running' = running /\ disk' = disk /\ touched' = touched /\ wanted' = wanted
  BY DEF UP!Quiet
<1>2. UpdateTypes'
  BY <1>1 DEF UpdateInv, UpdateTypes
<1>3. InstallInv' /\ StepsInv'
  <2>1. session.retry \in BOOLEAN /\ session'.retry \in BOOLEAN
    BY DEF UpdateInv, UpdateTypes, Sessions
  <2> QED BY <1>1, <2>1 DEF UpdateInv, InstallInv, StepsInv
<1>4. MarkerInv' /\ UP!AppSurvives' /\ UP!ServicesSurvive' /\ UP!UndisturbedIsTrue'
  BY <1>1 DEF UpdateInv, MarkerInv, UP!AppSurvives, UP!ServicesSurvive, UP!UndisturbedIsTrue
<1> QED BY <1>2, <1>3, <1>4 DEF UpdateInv

(* Looking for an update, downloading it, and cancelling the download.     *)
LEMMA SessionMoves ==
  ASSUME UpdateInv,
         UP!CheckBegins \/ UP!CheckEnds \/ UP!DownloadBegins \/ UP!DownloadDone
           \/ UP!DownloadFails \/ UP!CancelDownload
  PROVE  UpdateInv'
<1>1. session \in Sessions /\ running \in UP!Versions /\ session.ready \in BOOLEAN
  BY DEF UpdateInv, UpdateTypes, Sessions
<1>2. CASE UP!CheckBegins
  <2>1. session' \in Sessions /\ ~session'.retry
    BY <1>2 DEF UP!CheckBegins, UP!FreshSession, Sessions
  <2> QED BY <1>2, <2>1, SessionStep DEF UP!CheckBegins
<1>3. CASE UP!CheckEnds
  <2>1. session' \in Sessions /\ session'.retry = session.retry
    BY <1>1, <1>3 DEF UP!CheckEnds, Sessions
  <2> QED BY <1>3, <2>1, SessionStep DEF UP!CheckEnds
<1>4. CASE UP!DownloadBegins
  <2>1. session' \in Sessions /\ ~session'.retry /\ session'.stage = "download"
    BY <1>1, <1>4 DEF UP!DownloadBegins, Sessions
  <2> QED BY <1>4, <2>1, SessionStep DEF UP!DownloadBegins
<1>5. CASE UP!DownloadDone
  <2>1. session' \in Sessions /\ session'.retry = session.retry
    BY <1>1, <1>5 DEF UP!DownloadDone, Sessions
  <2> QED BY <1>5, <2>1, SessionStep DEF UP!DownloadDone
<1>6. CASE UP!DownloadFails
  <2>1. session.stage = "download"
    BY <1>6 DEF UP!DownloadFails, UpdateInv, InstallInv
  <2>2. session' \in Sessions /\ ~session'.retry
    BY <1>1, <1>6, <2>1 DEF UP!DownloadFails, Sessions
  <2> QED BY <1>6, <2>2, SessionStep DEF UP!DownloadFails
<1>7. CASE UP!CancelDownload
  <2>1. session' \in Sessions /\ session'.retry = session.retry /\ session'.stage = session.stage
    BY <1>1, <1>7 DEF UP!CancelDownload, Sessions
  <2>2. upAt \in {"down", "idle", "checking", "downloading", "confirming", "install", "boot"}
        /\ (upAt = "downloading" => session.stage = "download")
    BY DEF UpdateInv, UpdateTypes, InstallInv
  <2> QED BY <1>7, <2>1, <2>2, SessionStep DEF UP!CancelDownload
<1> QED BY <1>2, <1>3, <1>4, <1>5, <1>6, <1>7

(* An install begins with its first stage and nothing touched.             *)
LEMMA InstallStarts ==
  ASSUME UpdateInv, UP!InstallBegins
  PROVE  UpdateInv'
<1>1. /\ upAt' = "install" /\ step' = "toPreflight" /\ touched' = FALSE
      /\ running' = running /\ disk' = disk /\ wanted' = wanted
      /\ session' = [session EXCEPT !.phase = "installing", !.stage = "preflight", !.retry = FALSE]
  BY DEF UP!InstallBegins
<1>2. session' \in Sessions /\ session'.stage = "preflight" /\ session'.retry = FALSE
  BY <1>1 DEF UpdateInv, UpdateTypes, Sessions, UP!Stages
<1>3. UpdateTypes'
  BY <1>1, <1>2 DEF UpdateInv, UpdateTypes, AllForward
<1>4. InstallInv' /\ StepsInv'
  BY <1>1, <1>2 DEF InstallInv, StepsInv, Disturbing, UP!Stages
<1>5. MarkerInv' /\ UP!AppSurvives' /\ UP!ServicesSurvive' /\ UP!UndisturbedIsTrue'
  BY <1>1, <1>2
     DEF UpdateInv, MarkerInv, UP!AppSurvives, UP!ServicesSurvive, UP!UndisturbedIsTrue
<1> QED BY <1>3, <1>4, <1>5 DEF UpdateInv

(* A stage is entered in the receipt and in the session.                   *)
LEMMA StageEntered ==
  ASSUME UpdateInv, NEW to \in DOMAIN UP!StageOf, UP!EnterStage(to)
  PROVE  UpdateInv'
<1> DEFINE stage == UP!StageOf[to]
<1>1. to \in {"toPreflight", "toStopping", "toServices", "toReplacing", "toRestarting"}
  BY DEF UP!StageOf
<1>2. /\ stage \in UP!Stages
      /\ stage = "preflight" => to = "toPreflight"
      /\ UP!NextOf[to] \in {"verify", "stop", "prepare", "replace", "restart"}
      /\ to = "toPreflight" => UP!NextOf[to] = "verify"
      /\ UP!NextOf[to] = "stop" => to = "toStopping"
      /\ UP!NextOf[to] = "prepare" => to = "toServices"
      /\ UP!NextOf[to] = "replace" => to = "toReplacing"
  BY <1>1 DEF UP!StageOf, UP!NextOf, UP!Stages
<1> HIDE DEF stage
<1>3. /\ upAt = "install" /\ upAt' = "install" /\ step = to /\ step' = UP!NextOf[to]
      /\ running' = running /\ wanted' = wanted /\ touched' = touched
      /\ disk' = [disk EXCEPT !.receipt = UP!Written(stage)]
      /\ session' = [session EXCEPT !.stage = stage]
  BY DEF UP!EnterStage, UP!Go, stage
<1>4. UP!Written(stage) \in Receipts /\ UP!Written(stage).failedAt = "none"
  BY <1>2 DEF UP!Written, UpdateInv, UpdateTypes, Disks, Receipts
<1>5. disk' \in Disks /\ SameFiles /\ SameServices /\ disk'.receipt.failedAt = "none"
  BY <1>3, <1>4 DEF UpdateInv, UpdateTypes, Disks, SameFiles, SameServices
<1>6. session' \in Sessions /\ session'.stage = stage /\ session'.retry = session.retry
  BY <1>2, <1>3 DEF UpdateInv, UpdateTypes, Sessions
<1>7. UpdateTypes'
  BY <1>2, <1>3, <1>5, <1>6 DEF UpdateInv, UpdateTypes, AllForward, Disturbing
<1>8. InstallInv' /\ StepsInv'
  BY <1>1, <1>2, <1>3, <1>5, <1>6
     DEF UpdateInv, InstallInv, StepsInv, Disturbing, AllForward, SameFiles
<1>9. MarkerInv' /\ UP!AppSurvives' /\ UP!ServicesSurvive' /\ UP!UndisturbedIsTrue'
  BY <1>1, <1>2, <1>3, <1>5, <1>6
     DEF UpdateInv, InstallInv, MarkerInv, UP!AppSurvives, UP!ServicesSurvive,
         UP!UndisturbedIsTrue, SameFiles, SameServices
<1> QED BY <1>7, <1>8, <1>9 DEF UpdateInv

(* Where a failure leads depends on whether anything was disturbed.        *)
LEMMA FailureGoes ==
  ASSUME UpdateInv, step \in AllForward
  PROVE  /\ UP!AfterFailure \in {"failed", "login"}
         /\ UP!AfterFailure = "login" => step \notin {"toPreflight", "verify"}
BY DEF UP!AfterFailure, UP!UndoFrom

(* The last step of a failed install writes the receipt.                   *)
LEMMA FailedStep ==
  ASSUME UpdateInv, UP!StepFails
  PROVE  UpdateInv'
<1>1. /\ step \in AllForward /\ upAt = "install" /\ upAt' = "install"
      /\ running' = running /\ wanted' = wanted /\ step' = UP!AfterFailure
      /\ session' = [session EXCEPT !.ready = @ /\ step \notin {"verify", "stop"}]
      /\ touched' = (touched \/ step \in {"stop", "prepare", "detachTun", "detachLogin", "replace"})
      /\ \/ step = "detachTun" /\ disk' = [disk EXCEPT !.tun = "off"]
         \/ step = "detachLogin" /\ disk' = [disk EXCEPT !.login = FALSE]
         \/ disk' = disk
  BY ForwardSteps DEF UP!StepFails, UP!Go
<1>2. step' \in {"failed", "login"}
  BY <1>1, FailureGoes
<1>3. session' \in Sessions /\ session'.stage = session.stage /\ session'.retry = session.retry
  BY <1>1 DEF UpdateInv, UpdateTypes, Sessions
<1>4. /\ disk' \in Disks /\ SameFiles /\ SameReceipt /\ disk'.marker = disk.marker
      /\ disk'.loginSetting = disk.loginSetting
      /\ disk'.tun = disk.tun \/ step = "detachTun"
      /\ disk'.login = disk.login \/ step = "detachLogin"
  BY <1>1 DEF UpdateInv, UpdateTypes, Disks, SameFiles, SameReceipt
<1>5. UpdateTypes'
  BY <1>1, <1>2, <1>3, <1>4 DEF UpdateInv, UpdateTypes
<1>6. InstallInv' /\ StepsInv'
  BY <1>1, <1>2, <1>3, <1>4
     DEF UpdateInv, InstallInv, StepsInv, Disturbing, AllForward, SameFiles, SameReceipt
<1>7. MarkerInv' /\ UP!ServicesSurvive'
  BY <1>1, <1>2, <1>4 DEF UpdateInv, MarkerInv, UP!ServicesSurvive
<1>8. UP!AppSurvives' /\ UP!UndisturbedIsTrue'
  BY <1>1, <1>3, <1>4
     DEF UpdateInv, InstallInv, UP!AppSurvives, UP!UndisturbedIsTrue, SameFiles, SameReceipt,
         AllForward
<1> QED BY <1>5, <1>6, <1>7, <1>8 DEF UpdateInv

(* The steps of a running install.                                         *)
LEMMA InstallMoves ==
  ASSUME UpdateInv,
         UP!VerifyReady \/ UP!MakeBackup \/ UP!StopAll \/ UP!PrepareServices
           \/ UP!DetachTun \/ UP!DetachLogin
  PROVE  UpdateInv'
<1>1. /\ upAt = "install" /\ upAt' = "install" /\ running' = running /\ wanted' = wanted
  BY DEF UP!VerifyReady, UP!MakeBackup, UP!StopAll, UP!PrepareServices, UP!DetachTun,
         UP!DetachLogin, UP!Go
<1>2. /\ session \in Sessions /\ disk \in Disks /\ disk.receipt \in Receipts
      /\ disk.marker \in Markers /\ disk.loginSetting \in BOOLEAN /\ disk.login \in BOOLEAN
      /\ disk.marker.tun \in BOOLEAN /\ disk.marker.login \in BOOLEAN
  BY DEF UpdateInv, UpdateTypes, Disks, Markers
<1>3. CASE UP!VerifyReady
  <2>1. /\ step = "verify" /\ step' = "backup" /\ session' = session /\ disk' = disk
        /\ touched' = touched
    BY <1>3 DEF UP!VerifyReady, UP!Go
  <2> QED
    BY <1>1, <2>1
       DEF UpdateInv, UpdateTypes, InstallInv, MarkerInv, StepsInv, UP!AppSurvives,
           UP!ServicesSurvive, UP!UndisturbedIsTrue, AllForward, Disturbing
<1>4. CASE UP!MakeBackup
  <2>1. /\ step = "backup" /\ step' = "toStopping" /\ session' = session /\ touched' = touched
        /\ disk' = [disk EXCEPT !.backup = "old", !.receipt.backup = TRUE]
    BY <1>4 DEF UP!MakeBackup, UP!Go
  <2>2. /\ disk' \in Disks /\ SameServices /\ disk'.bundle = disk.bundle /\ disk'.backup = "old"
        /\ disk'.receipt.failedAt = disk.receipt.failedAt
    BY <1>2, <2>1 DEF Disks, Receipts, SameServices
  <2>3. UpdateTypes' /\ InstallInv' /\ StepsInv'
    BY <1>1, <2>1, <2>2
       DEF UpdateInv, UpdateTypes, InstallInv, StepsInv, AllForward, Disturbing
  <2>4. MarkerInv' /\ UP!AppSurvives' /\ UP!ServicesSurvive' /\ UP!UndisturbedIsTrue'
    BY <1>1, <2>1, <2>2
       DEF UpdateInv, MarkerInv, UP!AppSurvives, UP!ServicesSurvive, UP!UndisturbedIsTrue,
           SameServices
  <2> QED BY <2>3, <2>4 DEF UpdateInv
<1>5. CASE UP!StopAll
  <2>1. /\ step = "stop" /\ step' = "toServices" /\ touched' = TRUE /\ disk' = disk
        /\ session' = [session EXCEPT !.ready = FALSE]
    BY <1>5 DEF UP!StopAll, UP!Go
  <2>2. session' \in Sessions /\ session'.stage = session.stage /\ session'.retry = session.retry
    BY <1>2, <2>1 DEF Sessions
  <2>3. UpdateTypes' /\ InstallInv' /\ StepsInv'
    BY <1>1, <2>1, <2>2
       DEF UpdateInv, UpdateTypes, InstallInv, StepsInv, AllForward, Disturbing
  <2>4. MarkerInv' /\ UP!AppSurvives' /\ UP!ServicesSurvive' /\ UP!UndisturbedIsTrue'
    BY <1>1, <2>1, <2>2
       DEF UpdateInv, InstallInv, MarkerInv, UP!AppSurvives, UP!ServicesSurvive,
           UP!UndisturbedIsTrue, AllForward, Disturbing
  <2> QED BY <2>3, <2>4 DEF UpdateInv
<1>6. CASE UP!PrepareServices
  <2>1. /\ step = "prepare" /\ touched' = TRUE /\ session' = session
        /\ \/ step' = "detachTun" /\ disk' = [disk EXCEPT !.marker = UP!IntentNow]
           \/ step' = "toReplacing" /\ disk' = disk
    BY <1>6 DEF UP!PrepareServices, UP!PersistIntent, UP!Go
  <2>2. /\ UP!IntentNow \in Markers
        /\ UP!IntentNow.tun = (disk.tun # "off" \/ disk.marker.tun)
        /\ UP!IntentNow.login = (disk.loginSetting /\ (disk.login \/ disk.marker.login))
    BY <1>2 DEF UP!IntentNow, Markers
  <2>3. /\ disk' \in Disks /\ SameFiles /\ SameReceipt
        /\ disk'.tun = disk.tun /\ disk'.login = disk.login
        /\ disk'.loginSetting = disk.loginSetting
        /\ \/ step' = "detachTun" /\ disk'.marker = UP!IntentNow
           \/ step' = "toReplacing" /\ disk'.marker = disk.marker
    BY <1>2, <2>1, <2>2 DEF Disks, SameFiles, SameReceipt
  <2>4. UpdateTypes' /\ InstallInv' /\ StepsInv'
    BY <1>1, <2>1, <2>3
       DEF UpdateInv, UpdateTypes, InstallInv, StepsInv, AllForward, Disturbing, SameFiles,
           SameReceipt
  <2>5. MarkerInv' /\ UP!ServicesSurvive'
    BY <1>1, <2>1, <2>2, <2>3 DEF UpdateInv, MarkerInv, UP!ServicesSurvive
  <2>6. UP!AppSurvives' /\ UP!UndisturbedIsTrue'
    BY <1>1, <2>1, <2>3
       DEF UpdateInv, InstallInv, UP!AppSurvives, UP!UndisturbedIsTrue, SameFiles, SameReceipt,
           AllForward, Disturbing
  <2> QED BY <2>4, <2>5, <2>6 DEF UpdateInv
<1>7. CASE UP!DetachTun \/ UP!DetachLogin
  <2>1. /\ touched' = touched /\ session' = session
        /\ \/ /\ step = "detachTun" /\ step' = "detachLogin"
              /\ disk' = [disk EXCEPT !.tun = "off"]
           \/ /\ step = "detachLogin" /\ step' = "toReplacing"
              /\ disk' = [disk EXCEPT !.login = @ /\ ~disk.marker.login]
    BY <1>7 DEF UP!DetachTun, UP!DetachLogin, UP!Go
  <2>2. /\ disk' \in Disks /\ SameFiles /\ SameReceipt /\ disk'.marker = disk.marker
        /\ disk'.loginSetting = disk.loginSetting
        /\ disk'.tun = disk.tun \/ step = "detachTun"
        /\ disk'.login = disk.login \/ step = "detachLogin"
    BY <1>2, <2>1 DEF Disks, SameFiles, SameReceipt
  <2>3. UpdateTypes' /\ InstallInv' /\ StepsInv'
    BY <1>1, <2>1, <2>2
       DEF UpdateInv, UpdateTypes, InstallInv, StepsInv, AllForward, Disturbing, SameFiles,
           SameReceipt
  <2>4. MarkerInv' /\ UP!ServicesSurvive'
    BY <1>1, <2>1, <2>2 DEF UpdateInv, MarkerInv, UP!ServicesSurvive
  <2>5. UP!AppSurvives' /\ UP!UndisturbedIsTrue'
    BY <1>1, <2>1, <2>2
       DEF UpdateInv, UP!AppSurvives, UP!UndisturbedIsTrue, SameFiles, SameReceipt
  <2> QED BY <2>3, <2>4, <2>5 DEF UpdateInv
<1> QED BY <1>3, <1>4, <1>5, <1>6, <1>7

(* The bundle may be lost only while there is a backup of it.              *)
LEMMA FilesMove ==
  ASSUME UpdateInv, UP!Replace \/ UP!UndoFiles
  PROVE  UpdateInv'
<1>1. /\ upAt = "install" /\ upAt' = "install" /\ running' = running /\ wanted' = wanted
      /\ session' = session
  BY DEF UP!Replace, UP!UndoFiles, UP!Go
<1>2. CASE UP!Replace
  <2>1. PICK b \in {"old", "new", "none", "broken"} :
          /\ disk' = [disk EXCEPT !.bundle = b] /\ step = "replace"
          /\ step' \in {"toRestarting", "undoFiles"} /\ touched' = TRUE
    BY <1>2 DEF UP!Replace, UP!Go
  <2>2. /\ disk' \in Disks /\ disk'.backup = disk.backup /\ SameServices /\ SameReceipt
    BY <2>1 DEF UpdateInv, UpdateTypes, Disks, UP!Versions, SameServices, SameReceipt
  <2>3. UpdateTypes' /\ InstallInv' /\ StepsInv'
    BY <1>1, <2>1, <2>2
       DEF UpdateInv, UpdateTypes, InstallInv, StepsInv, AllForward, Disturbing, SameReceipt
  <2>4. MarkerInv' /\ UP!ServicesSurvive'
    BY <1>1, <2>1, <2>2 DEF UpdateInv, MarkerInv, UP!ServicesSurvive, SameServices
  <2>5. UP!AppSurvives' /\ UP!UndisturbedIsTrue'
    BY <1>1, <2>1, <2>2
       DEF UpdateInv, InstallInv, UP!AppSurvives, UP!UndisturbedIsTrue, SameReceipt, AllForward,
           Disturbing
  <2> QED BY <2>3, <2>4, <2>5 DEF UpdateInv
<1>3. CASE UP!UndoFiles
  <2>1. /\ step = "undoFiles" /\ step' \in {"login", "failed"} /\ touched' = touched
        /\ \/ disk' = [disk EXCEPT !.bundle = "old", !.backup = "none"]
           \/ disk' = [disk EXCEPT !.bundle = "none"]
           \/ disk' = disk
    BY <1>3 DEF UP!UndoFiles, UP!Go, UP!UndoFrom
  <2>2. /\ disk' \in Disks /\ SameServices /\ SameReceipt
        /\ disk'.bundle = "old" \/ disk'.backup = disk.backup
    BY <2>1 DEF UpdateInv, UpdateTypes, Disks, UP!Versions, SameServices, SameReceipt
  <2>3. UpdateTypes' /\ InstallInv' /\ StepsInv'
    BY <1>1, <2>1, <2>2
       DEF UpdateInv, UpdateTypes, InstallInv, StepsInv, AllForward, Disturbing, SameReceipt
  <2>4. MarkerInv' /\ UP!ServicesSurvive'
    BY <1>1, <2>1, <2>2 DEF UpdateInv, MarkerInv, UP!ServicesSurvive, SameServices
  <2>5. UP!AppSurvives' /\ UP!UndisturbedIsTrue'
    BY <1>1, <2>1, <2>2
       DEF UpdateInv, InstallInv, UP!AppSurvives, UP!UndisturbedIsTrue, SameReceipt, UP!Versions
  <2> QED BY <2>3, <2>4, <2>5 DEF UpdateInv
<1> QED BY <1>2, <1>3

(* The end of the process, and of an install.                              *)
LEMMA InstallLeaves ==
  ASSUME UpdateInv, UP!Restart \/ UP!Crash \/ UP!FailInstall
  PROVE  UpdateInv'
<1>1. running' = running /\ touched' = touched /\ wanted' = wanted /\ step' = "none"
  BY DEF UP!Restart, UP!Crash, UP!FailInstall
<1>2. CASE UP!Restart \/ UP!Crash
  <2>1. upAt' = "down" /\ disk' = disk /\ session' = UP!FreshSession
    BY <1>2 DEF UP!Restart, UP!Crash
  <2>2. session' \in Sessions /\ session'.retry = FALSE
    BY <2>1 DEF UP!FreshSession, Sessions
  <2> QED
    BY <1>1, <2>1, <2>2
       DEF UpdateInv, UpdateTypes, InstallInv, MarkerInv, StepsInv, UP!AppSurvives,
           UP!ServicesSurvive, UP!UndisturbedIsTrue, AllForward, Disturbing
<1>3. CASE UP!FailInstall
  <2>1. /\ upAt = "install" /\ upAt' = "idle"
        /\ session' = [session EXCEPT !.phase = "failed", !.retry = UP!RetryOffered]
        /\ \/ disk' = disk
           \/ disk' = [disk EXCEPT !.receipt.stage = "failed", !.receipt.failedAt = session.stage]
    BY <1>3 DEF UP!FailInstall
  <2>2. session \in Sessions /\ disk \in Disks /\ disk.receipt \in Receipts
        /\ session.stage \in UP!Stages /\ UP!RetryOffered \in BOOLEAN
    BY <2>1 DEF UpdateInv, UpdateTypes, InstallInv, Disks, Sessions, UP!RetryOffered
  <2>3. session' \in Sessions /\ session'.retry = UP!RetryOffered
    BY <2>1, <2>2 DEF Sessions
  <2>4. /\ disk' \in Disks /\ SameFiles /\ SameServices
        /\ disk'.receipt.failedAt \in {disk.receipt.failedAt, session.stage}
    <3>1. CASE disk' = disk
      BY <2>2, <3>1 DEF SameFiles, SameServices
    <3>2. CASE disk' = [disk EXCEPT !.receipt.stage = "failed", !.receipt.failedAt = session.stage]
      <4>1. /\ disk' \in Disks /\ disk'.receipt.failedAt = session.stage
        BY <2>2, <3>2 DEF Disks, Receipts
      <4>2. SameFiles /\ SameServices
        BY <2>2, <3>2 DEF Disks, SameFiles, SameServices
      <4> QED BY <4>1, <4>2
    <3> QED BY <2>1, <3>1, <3>2
  <2>5. UpdateTypes' /\ InstallInv' /\ StepsInv'
    BY <1>1, <2>1, <2>3, <2>4
       DEF UpdateInv, UpdateTypes, InstallInv, StepsInv, AllForward, Disturbing
  <2>6. MarkerInv' /\ UP!AppSurvives' /\ UP!ServicesSurvive'
    BY <1>1, <2>4
       DEF UpdateInv, MarkerInv, UP!AppSurvives, UP!ServicesSurvive, SameFiles, SameServices
  <2>7. UP!UndisturbedIsTrue'
    BY <1>1, <2>1, <2>3, <2>4
       DEF UpdateInv, InstallInv, UP!UndisturbedIsTrue, UP!RetryOffered
  <2> QED BY <2>5, <2>6, <2>7 DEF UpdateInv
<1> QED BY <1>2, <1>3

(* Registering the services again, in an install or at the next start.     *)
LEMMA RecoveryMoves ==
  ASSUME UpdateInv,
         UP!RecoverFails \/ UP!RecoverLogin \/ UP!RecoverTun \/ UP!RecoverMarker
  PROVE  UpdateInv'
<1>1. /\ running' = running /\ session' = session /\ touched' = touched /\ wanted' = wanted
      /\ step \in {"login", "tun", "marker"} /\ upAt \in {"install", "boot"}
  BY Recoverable
     DEF UP!RecoverFails, UP!RecoverLogin, UP!RecoverTun, UP!RecoverMarker, UP!Recovers,
         UpdateInv, StepsInv
<1>2. /\ disk \in Disks /\ disk.marker \in Markers /\ disk.marker.login \in BOOLEAN
      /\ disk.marker.tun \in BOOLEAN /\ disk.login \in BOOLEAN /\ disk.loginSetting \in BOOLEAN
      /\ running \in UP!Versions
  BY DEF UpdateInv, UpdateTypes, Disks, Markers
<1>3. UP!Leave => \/ upAt = "install" /\ upAt' = upAt /\ step' = "failed"
                  \/ upAt = "boot" /\ upAt' = "idle" /\ step' = "none"
  BY <1>1 DEF UP!Leave
(* Whatever it does to the services, it goes on to the next step or leaves. *)
<1>4. ASSUME disk' \in Disks, SameFiles, SameReceipt,
             \/ upAt' = upAt /\ step' \in {"tun", "marker"}
             \/ UP!Leave
      PROVE  /\ UpdateTypes' /\ InstallInv' /\ StepsInv'
             /\ UP!AppSurvives' /\ UP!UndisturbedIsTrue'
  <2>1. \/ upAt' = upAt /\ step' \in {"tun", "marker", "failed"} /\ (step' = "failed" => upAt = "install")
        \/ upAt' = "idle" /\ step' = "none"
    BY <1>3, <1>4
  <2>2. UpdateTypes' /\ InstallInv' /\ StepsInv'
    BY <1>1, <1>4, <2>1
       DEF UpdateInv, UpdateTypes, InstallInv, StepsInv, AllForward, Disturbing, SameFiles,
           SameReceipt
  <2>3. UP!AppSurvives' /\ UP!UndisturbedIsTrue'
    BY <1>1, <1>4
       DEF UpdateInv, UP!AppSurvives, UP!UndisturbedIsTrue, SameFiles, SameReceipt
  <2> QED BY <2>2, <2>3
<1>5. CASE UP!RecoverFails
  <2>1. /\ UP!Leave
        /\ \/ /\ step = "tun" /\ disk.bundle \in UP!Versions
              /\ disk' = [disk EXCEPT !.tun = disk.bundle]
           \/ disk' = disk
    BY <1>5 DEF UP!RecoverFails, UP!BundleValid
  <2>2. /\ disk' \in Disks /\ SameFiles /\ SameReceipt /\ disk'.marker = disk.marker
        /\ disk'.login = disk.login /\ disk'.loginSetting = disk.loginSetting
        /\ disk'.tun = disk.tun \/ disk'.tun # "off"
    BY <1>2, <2>1 DEF Disks, SameFiles, SameReceipt, UP!Versions
  <2>3. MarkerInv' /\ UP!ServicesSurvive'
    BY <1>1, <1>3, <2>1, <2>2 DEF UpdateInv, MarkerInv, UP!ServicesSurvive
  <2> QED BY <1>4, <2>1, <2>2, <2>3 DEF UpdateInv
<1>6. CASE UP!RecoverLogin
  <2>1. /\ step' = "tun" /\ upAt' = upAt
        /\ disk' = [disk EXCEPT !.login = @ \/ (disk.marker.login /\ disk.loginSetting),
                                !.marker.login = FALSE]
    BY <1>6 DEF UP!RecoverLogin, UP!Proceed
  <2>2. /\ disk' \in Disks /\ SameFiles /\ SameReceipt
        /\ disk'.marker.tun = disk.marker.tun /\ disk'.tun = disk.tun
        /\ disk'.login = (disk.login \/ (disk.marker.login /\ disk.loginSetting))
        /\ disk'.loginSetting = disk.loginSetting
    BY <1>2, <2>1 DEF Disks, Markers, SameFiles, SameReceipt
  <2>3. MarkerInv' /\ UP!ServicesSurvive'
    BY <1>1, <2>1, <2>2 DEF UpdateInv, MarkerInv, UP!ServicesSurvive
  <2> QED BY <1>4, <2>1, <2>2, <2>3 DEF UpdateInv
<1>7. CASE UP!RecoverTun
  <2>1. /\ step = "tun" /\ step' = "marker" /\ upAt' = upAt
        /\ disk' = IF disk.marker.tun THEN [disk EXCEPT !.tun = running] ELSE disk
    BY <1>7 DEF UP!RecoverTun, UP!Recovers, UP!Proceed
  <2>2. /\ disk' \in Disks /\ SameFiles /\ SameReceipt /\ disk'.marker = disk.marker
        /\ disk'.login = disk.login /\ disk'.loginSetting = disk.loginSetting
        /\ disk.marker.tun => disk'.tun # "off"
        /\ ~disk.marker.tun => disk'.tun = disk.tun
    BY <1>2, <2>1 DEF Disks, SameFiles, SameReceipt, UP!Versions
  <2>3. MarkerInv' /\ UP!ServicesSurvive'
    BY <1>1, <2>1, <2>2 DEF UpdateInv, MarkerInv, UP!ServicesSurvive
  <2> QED BY <1>4, <2>1, <2>2, <2>3 DEF UpdateInv
<1>8. CASE UP!RecoverMarker
  <2>1. step = "marker" /\ UP!Leave /\ disk' = [disk EXCEPT !.marker = UP!NoMarker]
    BY <1>8 DEF UP!RecoverMarker, UP!Recovers
  <2>2. UP!NoMarker \in Markers
    BY DEF UP!NoMarker, Markers
  <2>3. /\ disk' \in Disks /\ SameFiles /\ SameReceipt /\ disk'.tun = disk.tun
        /\ disk'.login = disk.login /\ disk'.loginSetting = disk.loginSetting
    BY <1>2, <2>1, <2>2 DEF Disks, SameFiles, SameReceipt
  <2>4. MarkerInv' /\ UP!ServicesSurvive'
    BY <1>1, <1>3, <2>1, <2>3 DEF UpdateInv, MarkerInv, UP!ServicesSurvive
  <2> QED BY <1>4, <2>1, <2>3, <2>4 DEF UpdateInv
<1> QED BY <1>5, <1>6, <1>7, <1>8

(* The application is launched, or its installer runs while it is down.    *)
LEMMA LaunchMoves ==
  ASSUME UpdateInv, UP!Launch \/ UP!InstallerRuns
  PROVE  UpdateInv'
<1>1. upAt = "down" /\ session' = session /\ wanted' = wanted
  BY DEF UP!Launch, UP!InstallerRuns
<1>2. CASE UP!Launch
  <2>1. /\ disk' = disk /\ running' = disk.bundle /\ disk.bundle \in UP!Versions
        /\ touched' = FALSE
        /\ \/ upAt' = "boot" /\ step' = "login"
           \/ upAt' = "idle" /\ step' = "none"
    BY <1>2 DEF UP!Launch, UP!BundleValid
  <2> QED
    BY <1>1, <2>1
       DEF UpdateInv, UpdateTypes, InstallInv, MarkerInv, StepsInv, UP!AppSurvives,
           UP!ServicesSurvive, UP!UndisturbedIsTrue, AllForward, Disturbing
<1>3. CASE UP!InstallerRuns
  <2>1. PICK b \in UP!Versions : disk' = [disk EXCEPT !.bundle = b]
    BY <1>3 DEF UP!InstallerRuns
  <2>2. upAt' = upAt /\ step' = step /\ running' = running /\ touched' = touched
    BY <1>3 DEF UP!InstallerRuns
  <2>3. disk' \in Disks /\ disk'.bundle \in UP!Versions /\ SameServices /\ SameReceipt
    BY <2>1 DEF UpdateInv, UpdateTypes, Disks, SameServices, SameReceipt
  <2> QED
    BY <1>1, <2>2, <2>3
       DEF UpdateInv, UpdateTypes, InstallInv, MarkerInv, StepsInv, UP!AppSurvives,
           UP!ServicesSurvive, UP!UndisturbedIsTrue, SameServices, SameReceipt
<1> QED BY <1>2, <1>3

(* What an idle process does to the disk.                                  *)
LEMMA IdleMoves ==
  ASSUME UpdateInv,
         UP!ConfirmBackup \/ UP!ConfirmReceipt \/ UP!UserUninstallsTun \/ UP!UserTurnsLoginOff
  PROVE  UpdateInv'
<1>1. /\ step' = step /\ running' = running /\ session' = session /\ touched' = touched
      /\ upAt \in {"idle", "confirming"} /\ upAt' \in {"idle", "confirming"}
  BY DEF UP!ConfirmBackup, UP!ConfirmReceipt, UP!UserUninstallsTun, UP!UserTurnsLoginOff
<1>2. /\ disk \in Disks /\ disk.marker \in Markers /\ disk.receipt \in Receipts
      /\ wanted \in [tun : BOOLEAN, login : BOOLEAN]
      /\ step \notin {"login", "tun", "marker", "undoFiles", "failed"} \union AllForward
  BY <1>1 DEF UpdateInv, UpdateTypes, StepsInv, Disks
<1>3. ASSUME disk' \in Disks, wanted' \in [tun : BOOLEAN, login : BOOLEAN]
      PROVE  UpdateTypes' /\ InstallInv' /\ StepsInv'
  BY <1>1, <1>2, <1>3 DEF UpdateInv, UpdateTypes, InstallInv, StepsInv
<1>4. CASE UP!ConfirmBackup
  <2>1. /\ disk' = [disk EXCEPT !.backup = IF disk.receipt.backup THEN "none" ELSE @]
        /\ disk.bundle = "new" /\ wanted' = wanted
    BY <1>4 DEF UP!ConfirmBackup
  <2>2. disk' \in Disks /\ disk'.bundle = "new" /\ SameServices /\ SameReceipt
    BY <1>2, <2>1 DEF Disks, SameServices, SameReceipt
  <2>3. MarkerInv' /\ UP!AppSurvives' /\ UP!ServicesSurvive' /\ UP!UndisturbedIsTrue'
    BY <1>1, <1>2, <2>1, <2>2
       DEF UpdateInv, MarkerInv, UP!AppSurvives, UP!ServicesSurvive, UP!UndisturbedIsTrue,
           SameServices, SameReceipt, UP!Versions
  <2> QED BY <1>2, <1>3, <2>1, <2>2, <2>3 DEF UpdateInv
<1>5. CASE UP!ConfirmReceipt
  <2> DEFINE confirmed == [UP!NoReceipt EXCEPT !.stage = "confirmed"]
  <2>1. /\ disk' = [disk EXCEPT !.receipt = confirmed] \/ disk' = disk
        /\ wanted' = wanted
    BY <1>5 DEF UP!ConfirmReceipt
  <2>2. confirmed \in Receipts /\ confirmed.failedAt = "none"
    BY DEF UP!NoReceipt, Receipts
  <2> HIDE DEF confirmed
  <2>3. /\ disk' \in Disks /\ SameFiles /\ SameServices
        /\ disk'.receipt.failedAt \in {"none", disk.receipt.failedAt}
    BY <1>2, <2>1, <2>2 DEF Disks, SameFiles, SameServices
  <2>4. MarkerInv' /\ UP!AppSurvives' /\ UP!ServicesSurvive' /\ UP!UndisturbedIsTrue'
    BY <1>1, <1>2, <2>1, <2>3
       DEF UpdateInv, MarkerInv, UP!AppSurvives, UP!ServicesSurvive, UP!UndisturbedIsTrue,
           SameServices, SameFiles
  <2> QED BY <1>2, <1>3, <2>1, <2>3, <2>4 DEF UpdateInv
<1>6. CASE UP!UserUninstallsTun
  <2> DEFINE rest == IF disk.marker.login THEN [disk.marker EXCEPT !.tun = FALSE]
                                          ELSE UP!NoMarker
  <2>1. /\ disk' = [disk EXCEPT !.tun = "off", !.marker = rest]
        /\ wanted' = [wanted EXCEPT !.tun = FALSE]
    BY <1>6 DEF UP!UserUninstallsTun
  <2>2. rest \in Markers /\ rest.login = disk.marker.login
    BY <1>2 DEF UP!NoMarker, Markers
  <2> HIDE DEF rest
  <2>3. /\ disk' \in Disks /\ SameFiles /\ SameReceipt /\ disk'.login = disk.login
        /\ disk'.loginSetting = disk.loginSetting /\ disk'.marker.login = disk.marker.login
    BY <1>2, <2>1, <2>2 DEF Disks, SameFiles, SameReceipt
  <2>4. wanted' \in [tun : BOOLEAN, login : BOOLEAN] /\ ~wanted'.tun /\ wanted'.login = wanted.login
    BY <1>2, <2>1
  <2>5. MarkerInv' /\ UP!AppSurvives' /\ UP!ServicesSurvive' /\ UP!UndisturbedIsTrue'
    BY <1>1, <1>2, <2>3, <2>4
       DEF UpdateInv, MarkerInv, UP!AppSurvives, UP!ServicesSurvive, UP!UndisturbedIsTrue,
           SameFiles, SameReceipt, AllForward, Disturbing
  <2> QED BY <1>3, <2>3, <2>4, <2>5 DEF UpdateInv
<1>7. CASE UP!UserTurnsLoginOff
  <2>1. /\ disk' = [disk EXCEPT !.login = FALSE, !.loginSetting = FALSE]
        /\ wanted' = [wanted EXCEPT !.login = FALSE]
    BY <1>7 DEF UP!UserTurnsLoginOff
  <2>2. /\ disk' \in Disks /\ SameFiles /\ SameReceipt /\ disk'.marker = disk.marker
        /\ disk'.tun = disk.tun
    BY <1>2, <2>1 DEF Disks, SameFiles, SameReceipt
  <2>3. wanted' \in [tun : BOOLEAN, login : BOOLEAN] /\ ~wanted'.login /\ wanted'.tun = wanted.tun
    BY <1>2, <2>1
  <2>4. MarkerInv' /\ UP!AppSurvives' /\ UP!ServicesSurvive' /\ UP!UndisturbedIsTrue'
    BY <1>1, <1>2, <2>2, <2>3
       DEF UpdateInv, MarkerInv, UP!AppSurvives, UP!ServicesSurvive, UP!UndisturbedIsTrue,
           SameFiles, SameReceipt
  <2> QED BY <1>3, <2>2, <2>3, <2>4 DEF UpdateInv
<1> QED BY <1>4, <1>5, <1>6, <1>7

(* The initial states satisfy the invariant.                               *)
LEMMA UpdateStarts ==
  ASSUME UP!UpdateInit
  PROVE  UpdateInv
<1>1. /\ upAt = "idle" /\ step = "none" /\ running = "old" /\ session = UP!FreshSession
      /\ touched = FALSE
  BY DEF UP!UpdateInit
<1>2. PICK t \in {"off", "old"}, l \in BOOLEAN :
        /\ disk = [bundle |-> "old", backup |-> "none", receipt |-> UP!NoReceipt,
                   marker |-> UP!NoMarker, tun |-> t, login |-> l, loginSetting |-> l]
        /\ wanted = [tun |-> t = "old", login |-> l]
  BY DEF UP!UpdateInit
<1>3. session \in Sessions /\ ~session.retry
  BY <1>1 DEF UP!FreshSession, Sessions
<1>4. UP!NoReceipt \in Receipts /\ UP!NoMarker \in Markers /\ UP!NoReceipt.failedAt = "none"
  BY DEF UP!NoReceipt, UP!NoMarker, Receipts, Markers
<1>5. /\ disk \in Disks /\ disk.bundle = "old" /\ disk.receipt.failedAt = "none"
      /\ disk.tun = t /\ disk.login = l /\ disk.loginSetting = l
  BY <1>2, <1>4 DEF Disks, UP!Versions
<1>6. /\ wanted \in [tun : BOOLEAN, login : BOOLEAN]
      /\ wanted.tun => t # "off"
      /\ wanted.login = l
  BY <1>2
<1> QED
  BY <1>1, <1>3, <1>5, <1>6
     DEF UpdateInv, UpdateTypes, InstallInv, MarkerInv, StepsInv, UP!AppSurvives,
         UP!ServicesSurvive, UP!UndisturbedIsTrue, AllForward, Disturbing, UP!Versions

(* Every step of an update keeps the invariant.                            *)
LEMMA UpdateSteps ==
  ASSUME UpdateInv, UP!UpdateNext
  PROVE  UpdateInv'
BY SessionMoves, InstallStarts, FailedStep, StageEntered, InstallMoves, FilesMove, InstallLeaves,
   RecoveryMoves, LaunchMoves, IdleMoves
   DEF UP!UpdateNext

(* What the invariant says of an update.                                   *)
LEMMA UpdateHolds ==
  ASSUME UpdateInv
  PROVE  /\ UP!UpdateTypeOK /\ UP!AppSurvives /\ UP!ServicesSurvive /\ UP!UndisturbedIsTrue
<1>1. step \in {"none", "undoFiles", "failed"} \union UP!Forward \union UP!Recovery
  BY ForwardSteps, Recoverable DEF UpdateInv, UpdateTypes
<1>2. session \in Sessions /\ disk \in Disks
  BY DEF UpdateInv, UpdateTypes
<1> QED
  BY <1>1, <1>2
     DEF UpdateInv, UpdateTypes, UP!UpdateTypeOK, Sessions, Disks, Receipts, Markers

(* The invariant is about these variables only.                            *)
LEMMA UpdateStutters ==
  ASSUME UpdateInv, UNCHANGED <<v1, v2, v3, v4, v5, v6, v7>>
  PROVE  UpdateInv'
BY DEF UpdateInv, UpdateTypes, InstallInv, MarkerInv, StepsInv, UP!AppSurvives,
       UP!ServicesSurvive, UP!UndisturbedIsTrue

HIDE DEF upAt, step, running, session, disk, touched, wanted

-----------------------------------------------------------------------------
(* HelperProbe                                                             *)

service == v1
generation == v2
flight == v3
requests == v4
reader == v5
mutation == v6
gone == v7
USE DEF service, generation, flight, requests, reader, mutation, gone

Requests == [gen : Nat, seen : -1..MaxEpoch, done : BOOLEAN]
Mutations ==
  [op : {"none", "register", "unregister", "repair"},
   at : {"idle", "enable", "remove", "wait", "removed", "handshake"}]

ServiceStates ==
  [helper : 0..MaxEpoch, last : 0..MaxEpoch, approval : BOOLEAN, pending : BOOLEAN,
   removing : {"no", "asked", "removed", "refused"}]
Readings == [at : {"idle", "checked", "waiting"}, on : Nat, told : -1..MaxEpoch]

HelperTypes ==
  /\ service \in ServiceStates
  /\ generation \in Nat /\ requests \in Seq(Requests) /\ flight \in 0..Len(requests)
  /\ reader \in [HP!AllReaders -> Readings]
  /\ \A r \in HP!AllReaders : /\ reader[r].on <= Len(requests)
                              /\ reader[r].at = "waiting" => reader[r].on # 0
  /\ mutation \in Mutations /\ gone \in 0..MaxEpoch

(* The helper that runs is the last one and no mutation has removed it; a  *)
(* mutation that has seen the removal through finds none.                  *)
ServiceInv ==
  /\ service.helper # 0 => service.helper = service.last /\ gone < service.helper
  /\ gone <= service.last
  /\ service.removing = "asked" => service.pending
  /\ mutation.at = "wait" /\ service.removing = "removed" => service.helper = 0
  /\ mutation.at = "removed" => service.helper = 0

(* A request of this generation was not answered by a helper that is gone. *)
RequestsInv ==
  \A i \in 1..Len(requests) :
    /\ requests[i].gen <= generation
    /\ requests[i].gen = generation /\ requests[i].seen > 0 => requests[i].seen > gone

HelperInv == HelperTypes /\ ServiceInv /\ RequestsInv

HelperParameters == MaxEpoch \in Nat \ {0}

USE DEF ServiceStates, Readings

(* The types that the lemmas about the helper keep needing.                *)
LEMMA HelperFacts ==
  ASSUME HelperParameters, HelperInv
  PROVE  /\ service \in ServiceStates
         /\ generation \in Nat /\ requests \in Seq(Requests) /\ flight \in 0..Len(requests)
         /\ Len(requests) \in Nat /\ MaxEpoch \in Nat /\ mutation \in Mutations
         /\ gone \in 0..MaxEpoch /\ service.helper \in 0..MaxEpoch /\ service.last \in 0..MaxEpoch
         /\ \A i \in 1..Len(requests) : requests[i] \in Requests
BY DEF HelperInv, HelperTypes, HelperParameters

(* Reading changes nothing but the reader, and the list when it starts.    *)
LEMMA ReadersMove ==
  ASSUME HelperParameters, HelperInv, NEW r \in HP!AllReaders,
         HP!StatusChecks(r) \/ HP!ReadJoins(r) \/ HP!ReadStarts(r) \/ HP!ReadEnds(r)
  PROVE  HelperInv'
<1> USE HelperFacts
<1>1. /\ service' = service /\ mutation' = mutation /\ gone' = gone /\ generation' = generation
  BY DEF HP!StatusChecks, HP!ReadJoins, HP!ReadStarts, HP!ReadEnds, HP!ProbeVars
<1>2. ServiceInv'
  BY <1>1 DEF HelperInv, ServiceInv
<1>3. reader \in [HP!AllReaders -> Readings]
      /\ \A s \in HP!AllReaders : /\ reader[s].on <= Len(requests)
                                  /\ reader[s].at = "waiting" => reader[s].on # 0
  BY DEF HelperInv, HelperTypes
<1>4. 0 \in -1..MaxEpoch
  BY DEF HelperParameters
<1>5. CASE HP!StatusChecks(r) \/ HP!ReadJoins(r)
  <2>1. /\ flight' = flight /\ requests' = requests
        /\ \/ reader' = [reader EXCEPT ![r] = [at |-> "checked", on |-> 0, told |-> 0]]
           \/ flight # 0 /\ reader' = [reader EXCEPT ![r].at = "waiting", ![r].on = flight]
    BY <1>5 DEF HP!StatusChecks, HP!ReadJoins, HP!Reusable
  <2>2. /\ reader' \in [HP!AllReaders -> Readings]
        /\ \A s \in HP!AllReaders : /\ reader'[s].on <= Len(requests)
                                    /\ reader'[s].at = "waiting" => reader'[s].on # 0
    <3>1. CASE reader' = [reader EXCEPT ![r] = [at |-> "checked", on |-> 0, told |-> 0]]
      BY <1>3, <1>4, <3>1
    <3>2. CASE flight # 0 /\ reader' = [reader EXCEPT ![r].at = "waiting", ![r].on = flight]
      <4>1. flight \in Nat /\ flight # 0 /\ flight <= Len(requests)
        BY <3>2
      <4> QED BY <1>3, <3>2, <4>1
    <3> QED BY <2>1, <3>1, <3>2
  <2>3. HelperTypes' /\ RequestsInv'
    BY <1>1, <2>1, <2>2 DEF HelperInv, HelperTypes, RequestsInv
  <2> QED BY <1>2, <2>3 DEF HelperInv
<1>6. CASE HP!ReadStarts(r)
  <2> DEFINE q == [gen |-> generation, seen |-> 0, done |-> FALSE]
  <2>1. /\ requests' = Append(requests, q) /\ flight' = Len(requests')
        /\ reader' = [reader EXCEPT ![r].at = "waiting", ![r].on = flight']
    BY <1>6 DEF HP!ReadStarts
  <2>2. q \in Requests /\ q.seen = 0 /\ q.gen = generation
    BY <1>4 DEF Requests
  <2> HIDE DEF q
  <2>3. /\ requests' \in Seq(Requests) /\ Len(requests') = Len(requests) + 1
        /\ \A i \in 1..Len(requests) : requests'[i] = requests[i]
        /\ requests'[Len(requests) + 1] = q
    BY <2>1, <2>2
  <2>4. /\ reader' \in [HP!AllReaders -> Readings]
        /\ \A s \in HP!AllReaders : /\ reader'[s].on <= Len(requests')
                                    /\ reader'[s].at = "waiting" => reader'[s].on # 0
    BY <1>3, <2>1, <2>3
  <2>5. HelperTypes'
    BY <1>1, <2>1, <2>3, <2>4 DEF HelperInv, HelperTypes
  <2>6. RequestsInv'
    BY <1>1, <2>2, <2>3 DEF HelperInv, RequestsInv
  <2> QED BY <1>2, <2>5, <2>6 DEF HelperInv
<1>7. CASE HP!ReadEnds(r)
  <2>1. /\ flight' = flight /\ requests' = requests /\ reader[r].at = "waiting"
        /\ reader' = [reader EXCEPT ![r].at = "idle", ![r].told = HP!Outcome(r)]
    BY <1>7 DEF HP!ReadEnds
  <2>2. reader[r].on \in 1..Len(requests)
    BY <1>3, <2>1
  <2>3. HP!Outcome(r) \in -1..MaxEpoch
    BY <1>4, <2>2 DEF HP!Outcome, Requests
  <2>4. /\ reader' \in [HP!AllReaders -> Readings]
        /\ \A s \in HP!AllReaders : /\ reader'[s].on <= Len(requests)
                                    /\ reader'[s].at = "waiting" => reader'[s].on # 0
    BY <1>3, <2>1, <2>3
  <2>5. HelperTypes' /\ RequestsInv'
    BY <1>1, <2>1, <2>4 DEF HelperInv, HelperTypes, RequestsInv
  <2> QED BY <1>2, <2>5 DEF HelperInv
<1> QED BY <1>5, <1>6, <1>7

(* An answer is that of the helper that runs, which nobody has removed.    *)
LEMMA WorkersMove ==
  ASSUME HelperParameters, HelperInv, NEW i \in DOMAIN requests,
         HP!HelperAnswers(i) \/ HP!WorkerStores(i)
  PROVE  HelperInv'
<1> USE HelperFacts
<1>1. /\ service' = service /\ mutation' = mutation /\ gone' = gone /\ generation' = generation
      /\ flight' = flight /\ reader' = reader /\ i \in 1..Len(requests)
  BY DEF HP!HelperAnswers, HP!WorkerStores, HP!ProbeVars
<1>2. PICK q \in Requests :
        /\ requests' = [requests EXCEPT ![i] = q] /\ q.gen = requests[i].gen
        /\ \/ q.seen = requests[i].seen \/ q.seen = -1
           \/ q.seen = service.helper /\ service.helper # 0
  <2>1. requests[i] \in Requests /\ -1 \in -1..MaxEpoch
    BY <1>1 DEF HelperParameters
  <2>2. CASE HP!HelperAnswers(i)
    <3> DEFINE seen == IF service.helper # 0 /\ ~service.approval THEN service.helper ELSE -1
               q == [requests[i] EXCEPT !.seen = seen]
    <3>1. requests' = [requests EXCEPT ![i] = q]
      BY <2>2 DEF HP!HelperAnswers
    <3>2. seen \in -1..MaxEpoch
      BY <2>1
    <3>3. q \in Requests /\ q.gen = requests[i].gen /\ q.seen = seen
      BY <2>1, <3>2 DEF Requests
    <3> HIDE DEF q
    <3> QED BY <3>1, <3>3
  <2>3. CASE HP!WorkerStores(i)
    <3> DEFINE q == [requests[i] EXCEPT !.done = TRUE]
    <3>1. requests' = [requests EXCEPT ![i] = q]
      BY <2>3 DEF HP!WorkerStores
    <3>2. q \in Requests /\ q.gen = requests[i].gen /\ q.seen = requests[i].seen
      BY <2>1 DEF Requests
    <3> HIDE DEF q
    <3> QED BY <3>1, <3>2
  <2> QED BY <2>2, <2>3
<1>3. /\ requests' \in Seq(Requests) /\ Len(requests') = Len(requests)
      /\ requests'[i] = q
      /\ \A k \in 1..Len(requests) : k # i => requests'[k] = requests[k]
  BY <1>1, <1>2
<1>4. HelperTypes' /\ ServiceInv'
  BY <1>1, <1>3 DEF HelperInv, HelperTypes, ServiceInv
<1>5. RequestsInv'
  BY <1>1, <1>2, <1>3 DEF HelperInv, ServiceInv, RequestsInv, Requests
<1> QED BY <1>4, <1>5 DEF HelperInv

(* A new generation: no request is of it.                                  *)
LEMMA ResetForgets ==
  ASSUME HelperParameters, HelperInv, HP!Reset, requests' = requests
  PROVE  RequestsInv' /\ generation' \in Nat /\ flight' \in 0..Len(requests')
<1> USE HelperFacts
<1>1. generation' = generation + 1 /\ flight' = 0
  BY DEF HP!Reset
<1>2. \A i \in 1..Len(requests) : requests[i].gen \in Nat /\ requests[i].gen <= generation
  BY DEF HelperInv, RequestsInv, Requests
<1> QED BY <1>1, <1>2 DEF RequestsInv

(* A registration, a removal or a repair begins and forgets the answers.   *)
LEMMA MutationsBegin ==
  ASSUME HelperParameters, HelperInv,
         HP!BeginRegister \/ (\E op \in {"unregister", "repair"} : HP!BeginRemoval(op))
  PROVE  HelperInv'
<1> USE HelperFacts
<1>1. /\ HP!Reset /\ service' = service /\ requests' = requests /\ reader' = reader
      /\ gone' = gone /\ mutation' \in Mutations /\ mutation'.at \in {"enable", "remove"}
  BY DEF HP!BeginRegister, HP!BeginRemoval, HP!AdminVars, Mutations
<1>2. RequestsInv' /\ generation' \in Nat /\ flight' \in 0..Len(requests')
  BY <1>1, ResetForgets
<1> QED BY <1>1, <1>2 DEF HelperInv, HelperTypes, ServiceInv

(* The steps between the system and a mutation that waits for a removal.   *)
LEMMA RemovalMoves ==
  ASSUME HelperParameters, HelperInv,
         HP!AskRemoval \/ HP!SystemCompletes \/ HP!RemovalDone \/ HP!RemovalTimesOut
           \/ HP!LateCompletionIsDropped \/ HP!EnableFails \/ HP!UserApproves
  PROVE  HelperInv'
<1> USE HelperFacts
<1>1. /\ generation' = generation /\ flight' = flight /\ requests' = requests /\ reader' = reader
      /\ gone' = gone
  BY DEF HP!AskRemoval, HP!SystemCompletes, HP!RemovalDone, HP!RemovalTimesOut,
         HP!LateCompletionIsDropped, HP!EnableFails, HP!UserApproves, HP!AdminVars
<1>2. HP!Idle \in Mutations /\ HP!Idle.at = "idle"
  BY DEF HP!Idle, Mutations
<1>3. \A at \in {"wait", "removed"} : [mutation EXCEPT !.at = at] \in Mutations
                                      /\ [mutation EXCEPT !.at = at].at = at
  BY DEF Mutations
<1>4. SUFFICES
        /\ service' \in ServiceStates
        /\ mutation' \in Mutations /\ ServiceInv'
  BY <1>1 DEF HelperInv, HelperTypes, RequestsInv
<1>5. CASE HP!AskRemoval
  <2>1. CASE mutation' = HP!Idle /\ service' = service
    BY <1>1, <1>2, <2>1 DEF HelperInv, ServiceInv
  <2>2. CASE /\ service.helper = 0 /\ mutation' = [mutation EXCEPT !.at = "removed"]
             /\ service' = service
    BY <1>1, <1>3, <2>2 DEF HelperInv, ServiceInv
  <2>3. CASE /\ mutation' = [mutation EXCEPT !.at = "wait"]
             /\ service' = [service EXCEPT !.pending = TRUE, !.removing = "asked"]
    <3>1. /\ service' \in ServiceStates
          /\ service'.helper = service.helper /\ service'.last = service.last
          /\ service'.pending = TRUE /\ service'.removing = "asked"
      BY <2>3
    <3> QED BY <1>1, <1>3, <2>3, <3>1 DEF HelperInv, ServiceInv
  <2> QED BY <1>5, <2>1, <2>2, <2>3 DEF HP!AskRemoval
<1>6. CASE HP!SystemCompletes
  <2>1. /\ mutation' = mutation
        /\ \/ service' = [service EXCEPT !.helper = 0, !.pending = FALSE, !.removing = "removed"]
           \/ service' = [service EXCEPT !.pending = FALSE, !.removing = "refused"]
    BY <1>6 DEF HP!SystemCompletes
  <2>2. /\ service' \in ServiceStates
        /\ service'.last = service.last /\ service'.removing \in {"removed", "refused"}
        /\ service'.helper = service.helper \/ service'.helper = 0
        /\ service'.removing = "removed" => service'.helper = 0
    <3>1. CASE service' = [service EXCEPT !.helper = 0, !.pending = FALSE, !.removing = "removed"]
      <4>1. 0 \in 0..MaxEpoch
        OBVIOUS
      <4> QED BY <3>1, <4>1
    <3>2. CASE service' = [service EXCEPT !.pending = FALSE, !.removing = "refused"]
      BY <3>2
    <3> QED BY <2>1, <3>1, <3>2
  <2> QED BY <1>1, <2>1, <2>2 DEF HelperInv, ServiceInv
<1>7. CASE HP!RemovalDone
  <2>1. /\ mutation.at = "wait" /\ service' = [service EXCEPT !.removing = "no"]
        /\ \/ service.removing = "removed" /\ mutation' = [mutation EXCEPT !.at = "removed"]
           \/ mutation' = HP!Idle
    BY <1>7 DEF HP!RemovalDone
  <2>2. /\ service' \in ServiceStates
        /\ service'.helper = service.helper /\ service'.last = service.last
        /\ service'.removing = "no"
    BY <2>1
  <2> QED BY <1>1, <1>2, <1>3, <2>1, <2>2 DEF HelperInv, ServiceInv
<1>8. CASE HP!RemovalTimesOut \/ HP!EnableFails
  <2>1. service' = service /\ mutation' = HP!Idle
    BY <1>8 DEF HP!RemovalTimesOut, HP!EnableFails
  <2> QED BY <1>1, <1>2, <2>1 DEF HelperInv, ServiceInv
<1>9. CASE HP!LateCompletionIsDropped \/ HP!UserApproves
  <2>1. /\ mutation' = mutation
        /\ \/ service' = [service EXCEPT !.removing = "no"]
           \/ service' = [service EXCEPT !.approval = FALSE]
    BY <1>9 DEF HP!LateCompletionIsDropped, HP!UserApproves
  <2>2. /\ service' \in ServiceStates
        /\ service'.helper = service.helper /\ service'.last = service.last
        /\ service'.pending = service.pending
        /\ service'.removing = "no" \/ service'.removing = service.removing
    BY <2>1
  <2> QED BY <1>1, <2>1, <2>2 DEF HelperInv, ServiceInv
<1> QED BY <1>5, <1>6, <1>7, <1>8, <1>9

(* What a mutation does once it holds the result, always with a reset.     *)
LEMMA MutationMoves ==
  ASSUME HelperParameters, HelperInv,
         HP!AfterRemoval \/ HP!Enable \/ HP!HandshakeReads \/ HP!HandshakeEnds
  PROVE  HelperInv'
<1> USE HelperFacts
<1>1. requests' = requests
  BY DEF HP!AfterRemoval, HP!Enable, HP!HandshakeReads, HP!HandshakeEnds
<1>2. HP!Idle \in Mutations /\ HP!Idle.at = "idle"
  BY DEF HP!Idle, Mutations
<1>3. \A at \in {"enable", "handshake"} : [mutation EXCEPT !.at = at] \in Mutations
                                          /\ [mutation EXCEPT !.at = at].at = at
  BY DEF Mutations
<1>4. /\ reader \in [HP!AllReaders -> Readings]
      /\ \A s \in HP!AllReaders : /\ reader[s].on <= Len(requests)
                                  /\ reader[s].at = "waiting" => reader[s].on # 0
  BY DEF HelperInv, HelperTypes
<1>5. Admin \in HP!AllReaders /\ 0 \in -1..MaxEpoch
  BY DEF HP!AllReaders, HelperParameters
<1>6. CASE HP!AfterRemoval
  <2>1. /\ HP!Reset /\ gone' = service.last /\ service' = service /\ reader' = reader
        /\ mutation.at = "removed"
        /\ mutation' = [mutation EXCEPT !.at = "enable"] \/ mutation' = HP!Idle
    BY <1>6 DEF HP!AfterRemoval
  <2>2. RequestsInv' /\ generation' \in Nat /\ flight' \in 0..Len(requests')
    BY <1>1, <2>1, ResetForgets
  <2>3. HelperTypes' /\ ServiceInv'
    BY <1>1, <1>2, <1>3, <2>1, <2>2 DEF HelperInv, HelperTypes, ServiceInv
  <2> QED BY <2>2, <2>3 DEF HelperInv
<1>7. CASE HP!Enable
  <2>1. /\ HP!Reset /\ reader' = reader /\ mutation' = [mutation EXCEPT !.at = "handshake"]
    BY <1>7 DEF HP!Enable
  <2>2. RequestsInv' /\ generation' \in Nat /\ flight' \in 0..Len(requests')
    BY <1>1, <2>1, ResetForgets
  <2>3. CASE service' = service /\ gone' = gone
    BY <1>1, <1>3, <2>1, <2>2, <2>3 DEF HelperInv, HelperTypes, ServiceInv
  <2>4. CASE ~(service' = service /\ gone' = gone)
    <3>1. PICK a \in BOOLEAN :
            service' = [service EXCEPT !.helper = service.last + 1, !.last = @ + 1, !.approval = a]
      BY <1>7, <2>4 DEF HP!Enable
    <3>2. service.last < MaxEpoch /\ gone' = service.last
      BY <1>7, <2>4 DEF HP!Enable
    <3>3. service.last + 1 \in 0..MaxEpoch
      BY <3>2
    <3>4. /\ service' \in ServiceStates
          /\ service'.helper = service.last + 1 /\ service'.last = service.last + 1
          /\ service'.removing = service.removing /\ service'.pending = service.pending
      BY <3>1, <3>3
    <3>5. HelperTypes' /\ ServiceInv'
      BY <1>1, <1>3, <2>1, <2>2, <3>2, <3>4 DEF HelperInv, HelperTypes, ServiceInv
    <3> QED BY <2>2, <3>5 DEF HelperInv
  <2> QED BY <2>3, <2>4
<1>8. CASE HP!HandshakeReads
  <2>1. /\ service' = service /\ mutation' = mutation /\ gone' = gone
        /\ generation' = generation /\ flight' = flight
        /\ reader' = [reader EXCEPT ![Admin] = [at |-> "checked", on |-> 0, told |-> 0]]
    BY <1>8 DEF HP!HandshakeReads, HP!ProbeVars
  <2>2. /\ reader' \in [HP!AllReaders -> Readings]
        /\ \A s \in HP!AllReaders : /\ reader'[s].on <= Len(requests)
                                    /\ reader'[s].at = "waiting" => reader'[s].on # 0
    BY <1>4, <1>5, <2>1
  <2> QED BY <1>1, <2>1, <2>2 DEF HelperInv, HelperTypes, ServiceInv, RequestsInv
<1>9. CASE HP!HandshakeEnds
  <2>1. /\ HP!Reset /\ service' = service /\ mutation' = HP!Idle /\ gone' = gone
        /\ reader' = [reader EXCEPT ![Admin].told = 0]
    BY <1>9 DEF HP!HandshakeEnds
  <2>2. RequestsInv' /\ generation' \in Nat /\ flight' \in 0..Len(requests')
    BY <1>1, <2>1, ResetForgets
  <2>3. /\ reader' \in [HP!AllReaders -> Readings]
        /\ \A s \in HP!AllReaders : /\ reader'[s].on <= Len(requests)
                                    /\ reader'[s].at = "waiting" => reader'[s].on # 0
    BY <1>4, <1>5, <2>1
  <2>4. HelperTypes' /\ ServiceInv'
    BY <1>1, <1>2, <2>1, <2>2, <2>3 DEF HelperInv, HelperTypes, ServiceInv
  <2> QED BY <2>2, <2>4 DEF HelperInv
<1> QED BY <1>6, <1>7, <1>8, <1>9

(* The first helper runs and nobody has asked for it.                      *)
LEMMA HelperStarts ==
  ASSUME HelperParameters, HP!HelperInit
  PROVE  HelperInv
<1>1. /\ service = [helper |-> 1, last |-> 1, approval |-> FALSE, pending |-> FALSE,
                    removing |-> "no"]
      /\ generation = 0 /\ flight = 0 /\ requests = <<>> /\ mutation = HP!Idle /\ gone = 0
      /\ reader = [r \in HP!AllReaders |-> [at |-> "idle", on |-> 0, told |-> 0]]
  BY DEF HP!HelperInit
<1>2. 0 \in 0..MaxEpoch /\ 1 \in 0..MaxEpoch /\ 0 \in -1..MaxEpoch
  BY DEF HelperParameters
<1>3. requests \in Seq(Requests) /\ Len(requests) = 0
  BY <1>1
<1>4. HP!Idle \in Mutations /\ HP!Idle.at = "idle"
  BY DEF HP!Idle, Mutations
<1>5. /\ reader \in [HP!AllReaders -> Readings]
      /\ \A s \in HP!AllReaders : reader[s].on = 0 /\ reader[s].at = "idle"
  BY <1>1, <1>2
<1>6. HelperTypes
  BY <1>1, <1>2, <1>3, <1>4, <1>5 DEF HelperTypes
<1>7. ServiceInv /\ RequestsInv
  BY <1>1, <1>3, <1>4 DEF ServiceInv, RequestsInv
<1> QED BY <1>6, <1>7 DEF HelperInv

(* Every step about the helper keeps the invariant.                        *)
LEMMA HelperSteps ==
  ASSUME HelperParameters, HelperInv, HP!HelperNext
  PROVE  HelperInv'
BY ReadersMove, WorkersMove, MutationsBegin, RemovalMoves, MutationMoves DEF HP!HelperNext

(* The invariant includes the types.                                       *)
LEMMA HelperHolds ==
  ASSUME HelperParameters, HelperInv
  PROVE  HP!HelperTypeOK
<1> USE HelperFacts
<1>1. DOMAIN requests = 1..Len(requests)
  OBVIOUS
<1> QED BY <1>1 DEF HP!HelperTypeOK, HelperInv, HelperTypes, Requests, Mutations

(* A reader is told of a helper by a request of its generation only.       *)
LEMMA AnswersFollow ==
  ASSUME HelperParameters, HelperInv, HP!HelperNext
  PROVE  HP!AnswerFollowsRepair
<1> USE HelperFacts
<1>1. SUFFICES ASSUME NEW r \in HP!AllReaders, reader'[r].told > 0, reader[r].at = "waiting",
                      reader'[r].at = "idle"
               PROVE  reader'[r].told > gone
  BY DEF HP!AnswerFollowsRepair
<1>2. reader \in [HP!AllReaders -> Readings]
      /\ reader[r].on \in 1..Len(requests)
  BY <1>1 DEF HelperInv, HelperTypes
<1>3. reader' # reader /\ Admin \in HP!AllReaders
  BY <1>1 DEF HP!AllReaders
<1>4. PICK s \in HP!AllReaders :
        HP!StatusChecks(s) \/ HP!ReadJoins(s) \/ HP!ReadStarts(s) \/ HP!ReadEnds(s)
          \/ (s = Admin /\ (HP!HandshakeReads \/ HP!HandshakeEnds))
  BY <1>3 DEF HP!HelperNext, HP!HelperAnswers, HP!WorkerStores, HP!BeginRegister, HP!BeginRemoval,
              HP!AskRemoval, HP!SystemCompletes, HP!RemovalDone, HP!RemovalTimesOut,
              HP!LateCompletionIsDropped, HP!AfterRemoval, HP!Enable, HP!EnableFails,
              HP!UserApproves, HP!AdminVars
<1>5. HP!ReadEnds(r)
  BY <1>1, <1>2, <1>4
     DEF HP!StatusChecks, HP!ReadJoins, HP!ReadStarts, HP!ReadEnds, HP!HandshakeReads,
         HP!HandshakeEnds
<1>6. reader'[r].told = HP!Outcome(r)
  BY <1>2, <1>5 DEF HP!ReadEnds
<1>7. /\ generation = requests[reader[r].on].gen
      /\ reader'[r].told = requests[reader[r].on].seen
  BY <1>1, <1>6 DEF HP!Outcome
<1> QED BY <1>1, <1>2, <1>7 DEF HelperInv, RequestsInv

(* The invariant is about these variables only.                            *)
LEMMA HelperStutters ==
  ASSUME HelperInv, UNCHANGED <<v1, v2, v3, v4, v5, v6, v7>>
  PROVE  HelperInv'
BY DEF HelperInv, HelperTypes, ServiceInv, RequestsInv

HIDE DEF ServiceStates, Readings, service, generation, flight, requests, reader, mutation, gone

-----------------------------------------------------------------------------
(* SubscriptionTask                                                        *)

clock == v1
profiles == v2
status == v3
task == v4
job == v5
taskPermit == v6
team == v7
USE DEF clock, profiles, status, task, job, taskPermit, team

Moments == 0..MaxClock
Profiles ==
  [url : Urls \union {"none"}, source : Moments, body : Bodies \union {"none"}, fresh : BOOLEAN]
Stations ==
  {"idle", "loaded", "listed", "fetching", "waiting", "checking", "found", "validating", "ready",
   "writing", "undo", "over", "observing", "observed"}
Jobs ==
  [at : Stations,
   source : Moments, fresh : BOOLEAN, url : Urls \union {"none"}, started : Moments,
   got : Bodies \union {"none", "same"}, ok : BOOLEAN, wrote : BOOLEAN]
Tasks == [phase : ST!Terminal \union {"live", "committing"}, flag : BOOLEAN, can : BOOLEAN]

SubscriptionTypes ==
  /\ clock \in Moments /\ profiles \in [p : Profiles, q : Profiles]
  /\ status \in [config : Moments, quota : Moments, summary : Moments, usage : Moments,
                 usageOf : Moments]
  /\ task \in [ST!Ops -> Tasks] /\ job \in [ST!Ops -> Jobs]
  /\ taskPermit \in ST!Ops \union {"free"}

(* The permit is with the task that is between the check and the write.    *)
PermitInv ==
  \A o \in ST!Ops :
    /\ job[o].at \in {"checking", "validating", "ready", "writing", "undo"} => taskPermit = o
    /\ job[o].at \in {"validating", "ready", "writing"} => job[o].got # "same"
    /\ o # "refresh" => job[o].got # "same"
    /\ job[o].at \in {"validating", "ready", "writing", "undo"} => o # "quota"

(* What is committed cannot be cancelled any more.                         *)
CommitInv ==
  \A o \in {"refresh", "import"} :
    /\ job[o].at = "writing" \/ job[o].ok \/ job[o].wrote => ~task[o].flag /\ ~task[o].can
    /\ job[o].at = "writing" => task[o].phase = "committing"
    /\ job[o].wrote => task[o].phase # "cancelled"
    /\ task[o].phase = "completed" => ~task[o].flag

SourceInv ==
  /\ job["refresh"].at \in {"validating", "ready", "writing"} =>
       job["refresh"].source = profiles.p.source
  /\ profiles.p.url # "none"
  /\ status.usage <= status.summary

SubscriptionInv ==
  SubscriptionTypes /\ PermitInv /\ CommitInv /\ SourceInv /\ ST!UniqueUrls

SubscriptionParameters ==
  MaxClock \in Nat /\ Urls # {} /\ "none" \notin Urls /\ Bodies # {}


(* The types that the lemmas about the tasks keep needing.                 *)
LEMMA SubscriptionFacts ==
  ASSUME SubscriptionParameters, SubscriptionInv
  PROVE  /\ clock \in Moments /\ clock \in Nat /\ MaxClock \in Nat
         /\ profiles \in [p : Profiles, q : Profiles] /\ profiles.p \in Profiles
         /\ profiles.q \in Profiles
         /\ task \in [ST!Ops -> Tasks] /\ job \in [ST!Ops -> Jobs]
         /\ taskPermit \in ST!Ops \union {"free"}
         /\ "refresh" \in ST!Ops /\ "import" \in ST!Ops /\ "quota" \in ST!Ops
         /\ \A o \in ST!Ops : o # "free"
         /\ status \in [config : Moments, quota : Moments, summary : Moments, usage : Moments,
                        usageOf : Moments]
BY DEF SubscriptionParameters, SubscriptionInv, SubscriptionTypes, Moments, ST!Ops

(* The position of one task changes, and with it what the rest depends on. *)
Moved(o, j) ==
  /\ job' \in [ST!Ops -> Jobs] /\ job'[o] = j
  /\ \A x \in ST!Ops : x # o => job'[x] = job[x]
Switched(o, t) ==
  /\ task' \in [ST!Ops -> Tasks] /\ task'[o] = t
  /\ \A x \in ST!Ops : x # o => task'[x] = task[x]

(* A job that is replaced by one of its type has moved.                    *)
LEMMA JobMoves ==
  ASSUME SubscriptionParameters, SubscriptionInv, NEW o \in ST!Ops, NEW j \in Jobs,
         job' = [job EXCEPT ![o] = j]
  PROVE  Moved(o, j)
BY SubscriptionFacts DEF Moved

(* A snapshot that is replaced by one of its type has switched.            *)
LEMMA TaskSwitches ==
  ASSUME SubscriptionParameters, SubscriptionInv, NEW o \in ST!Ops, NEW t \in Tasks,
         task' = [task EXCEPT ![o] = t]
  PROVE  Switched(o, t)
BY SubscriptionFacts DEF Switched

(* What holds of the position of a task: PermitInv, CommitInv and the part *)
(* of SourceInv that is about a refresh.                                   *)
Placed(o, j, t, held, source) ==
  /\ j.at \in {"checking", "validating", "ready", "writing", "undo"} => held = o
  /\ j.at \in {"validating", "ready", "writing"} => j.got # "same"
  /\ o # "refresh" => j.got # "same"
  /\ j.at \in {"validating", "ready", "writing", "undo"} => o # "quota"
  /\ o # "quota" =>
       /\ j.at = "writing" \/ j.ok \/ j.wrote => ~t.flag /\ ~t.can
       /\ j.at = "writing" => t.phase = "committing"
       /\ j.wrote => t.phase # "cancelled"
       /\ t.phase = "completed" => ~t.flag
  /\ o = "refresh" /\ j.at \in {"validating", "ready", "writing"} => j.source = source

(* The invariant, read for one task.                                       *)
LEMMA PlacedNow ==
  ASSUME SubscriptionParameters, SubscriptionInv, NEW o \in ST!Ops
  PROVE  Placed(o, job[o], task[o], taskPermit, profiles.p.source)
BY DEF Placed, SubscriptionInv, PermitInv, CommitInv, SourceInv, ST!Ops

(* The invariant, put together again from its parts for each task.         *)
LEMMA PlacedNext ==
  ASSUME \A o \in ST!Ops : Placed(o, job'[o], task'[o], taskPermit', profiles'.p.source),
         SubscriptionTypes', profiles'.p.url # "none", status'.usage <= status'.summary,
         profiles'.p.url # profiles'.q.url
  PROVE  SubscriptionInv'
BY DEF Placed, SubscriptionInv, PermitInv, CommitInv, SourceInv, ST!UniqueUrls, ST!Ops

(* Files whose source is the old one and that keep what SourceInv asks.    *)
FilesKept ==
  /\ profiles' \in [p : Profiles, q : Profiles] /\ profiles'.p.source = profiles.p.source
  /\ profiles'.p.url # "none" /\ profiles'.p.url # profiles'.q.url
  /\ status' \in [config : Moments, quota : Moments, summary : Moments, usage : Moments,
                  usageOf : Moments]
  /\ status'.usage <= status'.summary

(* Files that are left alone are kept.                                     *)
LEMMA FilesStay ==
  ASSUME SubscriptionParameters, SubscriptionInv, profiles' = profiles, status' = status
  PROVE  FilesKept
BY SubscriptionFacts DEF FilesKept, SubscriptionInv, SourceInv, ST!UniqueUrls

(* One task goes on while the source stays: the others keep their places,  *)
(* as the permit leaves no task but the one that moves.                    *)
LEMMA TaskGoesOn ==
  ASSUME SubscriptionParameters, SubscriptionInv, NEW o \in ST!Ops, NEW j \in Jobs, NEW t \in Tasks,
         Moved(o, j), Switched(o, t), FilesKept,
         clock' \in Moments, taskPermit' \in ST!Ops \union {"free"},
         \/ taskPermit' = taskPermit
         \/ taskPermit = "free" /\ taskPermit' = o
         \/ taskPermit = o /\ taskPermit' = "free",
         Placed(o, j, t, taskPermit', profiles.p.source)
  PROVE  SubscriptionInv'
<1> USE SubscriptionFacts
<1>1. ASSUME NEW x \in ST!Ops
      PROVE  Placed(x, job'[x], task'[x], taskPermit', profiles'.p.source)
  <2>1. CASE x = o
    BY <2>1 DEF Moved, Switched, FilesKept
  <2>2. CASE x # o
    <3>1. job'[x] = job[x] /\ task'[x] = task[x]
      BY <2>2 DEF Moved, Switched
    <3>2. Placed(x, job[x], task[x], taskPermit, profiles.p.source)
      BY PlacedNow
    <3> QED BY <2>2, <3>1, <3>2 DEF Placed, FilesKept
  <2> QED BY <2>1, <2>2
<1>2. SubscriptionTypes'
  BY DEF SubscriptionTypes, Moved, Switched, FilesKept
<1> QED BY <1>1, <1>2, PlacedNext DEF FilesKept

(* A snapshot that is left alone is one it may switch to.                  *)
LEMMA TaskStays ==
  ASSUME SubscriptionParameters, SubscriptionInv, NEW o \in ST!Ops, task' = task
  PROVE  task[o] \in Tasks /\ Switched(o, task[o])
BY SubscriptionFacts DEF Switched

(* A job that is left alone is one it may move to.                         *)
LEMMA JobStays ==
  ASSUME SubscriptionParameters, SubscriptionInv, NEW o \in ST!Ops, job' = job
  PROVE  job[o] \in Jobs /\ Moved(o, job[o])
BY SubscriptionFacts DEF Moved

(* How a task leaves, and drops the permit if it has it.                   *)
LEMMA Leaving ==
  ASSUME SubscriptionParameters, SubscriptionInv, NEW o \in ST!Ops, NEW ok \in BOOLEAN,
         ST!Leave(o, ok)
  PROVE  \E j \in Jobs : /\ Moved(o, j) /\ j.at = "over" /\ j.ok = ok
                         /\ j.wrote = job[o].wrote /\ j.got = "none"
<1> DEFINE j == [job[o] EXCEPT !.at = "over", !.ok = ok, !.got = "none", !.url = "none"]
<1>1. job' = [job EXCEPT ![o] = j]
  BY DEF ST!Leave
<1>2. job[o] \in Jobs
  BY SubscriptionFacts
<1>3. j \in Jobs /\ j.at = "over" /\ j.ok = ok /\ j.wrote = job[o].wrote /\ j.got = "none"
  BY <1>2 DEF Jobs, Stations
<1> HIDE DEF j
<1> QED BY <1>1, <1>3, JobMoves

(* A release frees the permit of its task and of no other.                 *)
LEMMA Releasing ==
  ASSUME SubscriptionParameters, SubscriptionInv, NEW o \in ST!Ops, ST!Release(o)
  PROVE  /\ taskPermit' \in ST!Ops \union {"free"}
         /\ taskPermit' = taskPermit \/ (taskPermit = o /\ taskPermit' = "free")
BY SubscriptionFacts DEF ST!Release

(* A step to a place that asks for nothing but what the task has.          *)
Places == {"checking", "found", "validating", "ready", "writing", "undo", "over", "observing",
           "observed"}

(* A step to a place that asks for nothing but what the task has.          *)
LEMMA JobAt ==
  ASSUME SubscriptionParameters, SubscriptionInv, NEW o \in ST!Ops,
         NEW at \in Places,
         job' = [job EXCEPT ![o].at = at]
  PROVE  \E j \in Jobs : /\ Moved(o, j) /\ j.at = at /\ j.ok = job[o].ok
                         /\ j.wrote = job[o].wrote /\ j.got = job[o].got
                         /\ j.source = job[o].source
<1> DEFINE j == [job[o] EXCEPT !.at = at]
<1>1. job' = [job EXCEPT ![o] = j]
  OBVIOUS
<1>2. job[o] \in Jobs
  BY SubscriptionFacts
<1>3. /\ j \in Jobs /\ j.at = at /\ j.ok = job[o].ok /\ j.wrote = job[o].wrote
      /\ j.got = job[o].got /\ j.source = job[o].source
  <2>1. at \in Stations
    BY DEF Places, Stations
  <2> QED BY <1>2, <2>1 DEF Jobs
<1> HIDE DEF j
<1> QED BY <1>1, <1>3, JobMoves

(* The values that stand for no job and no task have their types.          *)
LEMMA NoJobs ==
  ASSUME SubscriptionParameters
  PROVE  /\ ST!NoJob \in Jobs /\ ST!NewTask \in Tasks /\ ST!NoTask \in Tasks
         /\ 0 \in Moments
<1>1. 0 \in Moments
  BY DEF SubscriptionParameters, Moments
<1>2. ST!NoJob \in Jobs
  BY <1>1 DEF ST!NoJob, Jobs, Stations
<1> QED BY <1>1, <1>2 DEF ST!NewTask, ST!NoTask, Tasks, ST!Terminal

(* Only a task that can be cancelled is, and so none that has committed.   *)
LEMMA CancelKeeps ==
  ASSUME SubscriptionParameters, SubscriptionInv, NEW o \in ST!Ops, ST!Cancel(o)
  PROVE  SubscriptionInv'
<1> USE SubscriptionFacts
<1> DEFINE t == [task[o] EXCEPT !.flag = TRUE, !.can = FALSE]
<1>1. /\ task[o].can /\ task[o].phase \notin ST!Terminal /\ task' = [task EXCEPT ![o] = t]
      /\ clock' = clock /\ profiles' = profiles /\ status' = status /\ job' = job
      /\ taskPermit' = taskPermit
  BY DEF ST!Cancel
<1>2. t \in Tasks /\ t.phase = task[o].phase
  BY DEF Tasks
<1> HIDE DEF t
<1>3. Switched(o, t) /\ job[o] \in Jobs /\ Moved(o, job[o]) /\ FilesKept
  BY <1>1, <1>2, TaskSwitches, JobStays, FilesStay
<1>4. Placed(o, job[o], t, taskPermit, profiles.p.source)
  BY <1>1, <1>2, PlacedNow DEF Placed, ST!Terminal
<1> QED BY <1>1, <1>2, <1>3, <1>4, TaskGoesOn

(* A download ends, and the places that lead to the permit and past it.    *)
LEMMA FetchedKeeps ==
  ASSUME SubscriptionParameters, SubscriptionInv, NEW o \in ST!Ops, ST!Fetched(o)
  PROVE  SubscriptionInv'
<1> USE SubscriptionFacts
<1>1. PICK b \in Bodies \union {"same"} :
        /\ b = "same" => o = "refresh"
        /\ job' = [job EXCEPT ![o].got = IF o = "quota" THEN "none" ELSE b,
                              ![o].ok = (o = "quota"),
                              ![o].at = IF o = "quota" THEN "over" ELSE "waiting"]
  BY DEF ST!Fetched
<1> DEFINE j == [job[o] EXCEPT !.got = IF o = "quota" THEN "none" ELSE b, !.ok = (o = "quota"),
                               !.at = IF o = "quota" THEN "over" ELSE "waiting"]
<1>2. /\ job[o].at = "fetching" /\ job' = [job EXCEPT ![o] = j] /\ task' = task
      /\ clock' = clock /\ profiles' = profiles /\ status' = status /\ taskPermit' = taskPermit
  BY <1>1 DEF ST!Fetched, ST!Quiet
<1>3. job[o] \in Jobs
  OBVIOUS
<1>4. /\ j \in Jobs /\ j.at \in {"over", "waiting"} /\ (j.ok => o = "quota")
      /\ j.wrote = job[o].wrote /\ (j.got = "same" => o = "refresh")
  BY <1>1, <1>3 DEF Jobs, Stations
<1> HIDE DEF j
<1>5. Moved(o, j) /\ task[o] \in Tasks /\ Switched(o, task[o]) /\ FilesKept
  BY <1>2, <1>4, JobMoves, TaskStays, FilesStay
<1>6. Placed(o, j, task[o], taskPermit, profiles.p.source)
  BY <1>4, PlacedNow DEF Placed
<1> QED BY <1>2, <1>4, <1>5, <1>6, TaskGoesOn

(* A task that fails before the permit leaves with nothing.                *)
LEMMA FailsKeeps ==
  ASSUME SubscriptionParameters, SubscriptionInv, NEW o \in ST!Ops, ST!JobFails(o)
  PROVE  SubscriptionInv'
<1> USE SubscriptionFacts
<1>1. /\ ST!Leave(o, FALSE) /\ task' = task /\ clock' = clock /\ profiles' = profiles
      /\ status' = status /\ taskPermit' = taskPermit
  BY DEF ST!JobFails, ST!Quiet
<1>2. PICK j \in Jobs : /\ Moved(o, j) /\ j.at = "over" /\ ~j.ok
                        /\ j.wrote = job[o].wrote /\ j.got = "none"
  BY <1>1, Leaving
<1>3. task[o] \in Tasks /\ Switched(o, task[o]) /\ FilesKept
  BY <1>1, TaskStays, FilesStay
<1>4. Placed(o, j, task[o], taskPermit, profiles.p.source)
  BY <1>2, PlacedNow DEF Placed
<1> QED BY <1>1, <1>2, <1>3, <1>4, TaskGoesOn

(* The permit is taken when it is free, and kept past the validation.      *)
LEMMA PermitKeeps ==
  ASSUME SubscriptionParameters, SubscriptionInv, NEW o \in ST!Ops,
         ST!TakePermit(o) \/ ST!Validated(o)
  PROVE  SubscriptionInv'
<1> USE SubscriptionFacts
<1>1. PICK at \in {"checking", "ready"} :
        /\ job' = [job EXCEPT ![o].at = at] /\ task' = task /\ clock' = clock
        /\ profiles' = profiles /\ status' = status
        /\ at = "checking" => taskPermit = "free" /\ taskPermit' = o
        /\ at = "ready" => taskPermit' = taskPermit /\ job[o].at = "validating"
  BY DEF ST!TakePermit, ST!Validated, ST!Quiet
<1>2. PICK j \in Jobs : /\ Moved(o, j) /\ j.at = at /\ j.ok = job[o].ok
                        /\ j.wrote = job[o].wrote /\ j.got = job[o].got
                        /\ j.source = job[o].source
  <2>1. job' = [job EXCEPT ![o].at = at]
    BY <1>1
  <2>2. at \in Places
    BY DEF Places
  <2> QED BY <2>1, <2>2, JobAt
<1>3. task[o] \in Tasks /\ Switched(o, task[o]) /\ FilesKept
  BY <1>1, TaskStays, FilesStay
<1>4. Placed(o, j, task[o], taskPermit', profiles.p.source)
  BY <1>1, <1>2, PlacedNow DEF Placed
<1> QED BY <1>1, <1>2, <1>3, <1>4, TaskGoesOn

(* An import that fails late goes to its undo.                             *)
LEMMA Undoing ==
  ASSUME SubscriptionParameters, SubscriptionInv, NEW o \in ST!Ops,
         job' = [job EXCEPT ![o].at = "undo"]
  PROVE  \E j \in Jobs : /\ Moved(o, j) /\ j.at = "undo" /\ j.ok = job[o].ok
                         /\ j.wrote = job[o].wrote /\ j.got = job[o].got
<1> DEFINE at == "undo"
<1>1. at \in Places /\ job' = [job EXCEPT ![o].at = at]
  BY DEF Places
<1>2. \E j \in Jobs : /\ Moved(o, j) /\ j.at = at /\ j.ok = job[o].ok
                      /\ j.wrote = job[o].wrote /\ j.got = job[o].got
                      /\ j.source = job[o].source
  <2> HIDE DEF at
  <2> QED BY <1>1, JobAt
<1> QED BY <1>2

(* An error under the permit frees it, unless an import has an undo to do. *)
LEMMA AbandonKeeps ==
  ASSUME SubscriptionParameters, SubscriptionInv, NEW o \in ST!Ops,
         job[o].at \in {"validating", "ready"}, ST!Abandon(o), ST!Quiet, task' = task
  PROVE  SubscriptionInv'
<1> USE SubscriptionFacts
<1>1. clock' = clock /\ profiles' = profiles /\ status' = status
  BY DEF ST!Quiet
<1>2. taskPermit = o /\ o # "quota"
  BY PlacedNow DEF Placed
<1>3. task[o] \in Tasks /\ Switched(o, task[o]) /\ FilesKept
  BY <1>1, TaskStays, FilesStay
<1>4. CASE o = "import"
  <2>1. job' = [job EXCEPT ![o].at = "undo"] /\ taskPermit' = taskPermit
    BY <1>4 DEF ST!Abandon
  <2>2. PICK j \in Jobs : /\ Moved(o, j) /\ j.at = "undo" /\ j.ok = job[o].ok
                          /\ j.wrote = job[o].wrote /\ j.got = job[o].got
    BY <2>1, Undoing
  <2>3. Placed(o, j, task[o], taskPermit', profiles.p.source)
    BY <1>2, <2>1, <2>2, PlacedNow DEF Placed
  <2> QED BY <1>1, <1>3, <2>1, <2>2, <2>3, TaskGoesOn
<1>5. CASE o # "import"
  <2>1. ST!Leave(o, FALSE) /\ ST!Release(o)
    BY <1>5 DEF ST!Abandon
  <2>2. PICK j \in Jobs : /\ Moved(o, j) /\ j.at = "over" /\ ~j.ok
                          /\ j.wrote = job[o].wrote /\ j.got = "none"
    BY <2>1, Leaving
  <2>3. Placed(o, j, task[o], taskPermit', profiles.p.source)
    BY <2>2, PlacedNow DEF Placed
  <2> QED BY <1>1, <1>3, <2>1, <2>2, <2>3, Releasing, TaskGoesOn
<1> QED BY <1>4, <1>5

(* The flag is read and the cancellation withdrawn in one step.            *)
LEMMA Committing ==
  ASSUME SubscriptionParameters, SubscriptionInv, NEW o \in ST!Ops, ST!Commits(o)
  PROVE  \E t \in Tasks : Switched(o, t) /\ ~t.flag /\ ~t.can /\ t.phase = "committing"
<1> DEFINE t == [task[o] EXCEPT !.phase = "committing", !.can = FALSE]
<1>1. ~task[o].flag /\ task' = [task EXCEPT ![o] = t] /\ task[o] \in Tasks
  BY SubscriptionFacts DEF ST!Commits
<1>2. t \in Tasks /\ ~t.flag /\ ~t.can /\ t.phase = "committing"
  BY <1>1 DEF Tasks
<1> HIDE DEF t
<1> QED BY <1>1, <1>2, TaskSwitches

(* The flag decides the commit: from there the task cannot be cancelled.   *)
LEMMA CommitKeeps ==
  ASSUME SubscriptionParameters, SubscriptionInv, NEW o \in ST!Ops,
         ST!ValidationFails(o) \/ ST!BeginCommit(o) \/ ST!CommitFound(o)
  PROVE  SubscriptionInv'
<1> USE SubscriptionFacts
<1>1. clock' = clock /\ profiles' = profiles /\ status' = status /\ ST!Quiet
  BY DEF ST!ValidationFails, ST!BeginCommit, ST!CommitFound, ST!Quiet
<1>2. FilesKept
  BY <1>1, FilesStay
<1>3. CASE ST!ValidationFails(o)
  BY <1>1, <1>3, AbandonKeeps DEF ST!ValidationFails
<1>4. CASE ST!BeginCommit(o)
  <2>1. CASE ST!Refused(o) /\ ST!Abandon(o)
    BY <1>1, <1>4, <2>1, AbandonKeeps DEF ST!BeginCommit, ST!Refused
  <2>2. CASE ST!Commits(o) /\ job' = [job EXCEPT ![o].at = "writing"] /\ taskPermit' = taskPermit
    <3>1. PICK t \in Tasks : Switched(o, t) /\ ~t.flag /\ ~t.can /\ t.phase = "committing"
      BY <2>2, Committing
    <3>2. PICK j \in Jobs : /\ Moved(o, j) /\ j.at = "writing" /\ j.ok = job[o].ok
                            /\ j.wrote = job[o].wrote /\ j.got = job[o].got
                            /\ j.source = job[o].source
      <4>1. "writing" \in Places
        BY DEF Places
      <4> QED BY <2>2, <4>1, JobAt
    <3>3. job[o].at = "ready"
      BY <1>4 DEF ST!BeginCommit
    <3>4. Placed(o, j, t, taskPermit, profiles.p.source)
      BY <3>1, <3>2, <3>3, PlacedNow DEF Placed
    <3> QED BY <1>1, <1>2, <2>2, <3>1, <3>2, <3>4, TaskGoesOn
  <2> QED BY <1>4, <2>1, <2>2 DEF ST!BeginCommit
<1>5. CASE ST!CommitFound(o)
  <2>1. PICK ok \in BOOLEAN : /\ ST!Leave(o, ok)
                              /\ \/ ok /\ ST!Commits(o)
                                 \/ ~ok /\ task' = task
    BY <1>5 DEF ST!CommitFound, ST!Refused
  <2>2. PICK j \in Jobs : /\ Moved(o, j) /\ j.at = "over" /\ j.ok = ok
                          /\ j.wrote = job[o].wrote /\ j.got = "none"
    BY <2>1, Leaving
  <2>3. PICK t \in Tasks : /\ Switched(o, t)
                           /\ \/ ~t.flag /\ ~t.can /\ t.phase = "committing"
                              \/ ~ok /\ t = task[o]
    BY <2>1, Committing, TaskStays
  <2>4. Placed(o, j, t, taskPermit', profiles.p.source)
    BY <2>2, <2>3, PlacedNow DEF Placed
  <2>5. ST!Release(o)
    BY <1>5 DEF ST!CommitFound
  <2> QED BY <1>1, <1>2, <2>2, <2>3, <2>4, <2>5, Releasing, TaskGoesOn
<1> QED BY <1>3, <1>4, <1>5

(* The write changes the body of one profile.                              *)
LEMMA Writing ==
  ASSUME SubscriptionParameters, SubscriptionInv, NEW p \in {"p", "q"},
         NEW body \in Bodies \union {"none"},
         profiles' = [profiles EXCEPT ![p].body = body, ![p].fresh = TRUE], status' = status
  PROVE  FilesKept
<1> USE SubscriptionFacts
<1> DEFINE new == [profiles[p] EXCEPT !.body = body, !.fresh = TRUE]
<1>1. new \in Profiles /\ new.url = profiles[p].url /\ new.source = profiles[p].source
  BY DEF Profiles
<1>2. profiles' = [profiles EXCEPT ![p] = new]
  OBVIOUS
<1> HIDE DEF new
<1>3. CASE p = "p"
  <2>1. profiles'.p = new /\ profiles'.q = profiles.q /\ profiles' \in [p : Profiles, q : Profiles]
    BY <1>1, <1>2, <1>3
  <2> QED BY <1>1, <1>3, <2>1 DEF FilesKept, SubscriptionInv, SourceInv, ST!UniqueUrls
<1>4. CASE p = "q"
  <2>1. profiles'.q = new /\ profiles'.p = profiles.p /\ profiles' \in [p : Profiles, q : Profiles]
    BY <1>1, <1>2, <1>4
  <2> QED BY <1>1, <1>4, <2>1 DEF FilesKept, SubscriptionInv, SourceInv, ST!UniqueUrls
<1> QED BY <1>3, <1>4

(* The write is of the task that has the permit, whether it fails or not.  *)
LEMMA WriteKeeps ==
  ASSUME SubscriptionParameters, SubscriptionInv, NEW o \in ST!Ops, ST!Write(o)
  PROVE  SubscriptionInv'
<1> USE SubscriptionFacts
<1> DEFINE p == IF o = "import" THEN "q" ELSE "p"
           written == [profiles EXCEPT ![p].body = job[o].got, ![p].fresh = TRUE]
           done == [ST!NoJob EXCEPT !.at = "over", !.ok = TRUE, !.wrote = TRUE,
                                    !.source = job[o].source, !.started = job[o].started]
           failed == [job[o] EXCEPT !.at = IF o = "import" THEN "undo" ELSE "over",
                                    !.wrote = TRUE]
<1>1. /\ job[o].at = "writing" /\ clock' = clock /\ status' = status /\ task' = task
      /\ profiles' = written \/ profiles' = profiles
      /\ \/ job' = [job EXCEPT ![o] = done] /\ ST!Release(o)
         \/ /\ job' = [job EXCEPT ![o] = failed]
            /\ IF o = "import" THEN taskPermit' = taskPermit ELSE ST!Release(o)
  BY DEF ST!Write
<1>2. job[o] \in Jobs /\ taskPermit = o /\ o # "quota" /\ job[o].got # "same"
      /\ ~task[o].flag /\ ~task[o].can /\ task[o].phase = "committing"
  BY <1>1, PlacedNow DEF Placed
<1>3. job[o].got \in Bodies \union {"none"} /\ p \in {"p", "q"}
  BY <1>2 DEF Jobs, Stations
<1>4. FilesKept
  <2>1. CASE profiles' = profiles
    BY <1>1, <2>1, FilesStay
  <2>2. CASE profiles' = written
    <3> HIDE DEF p
    <3> QED BY <1>1, <1>3, <2>2, Writing
  <2> QED BY <1>1, <2>1, <2>2
<1>5. task[o] \in Tasks /\ Switched(o, task[o])
  BY <1>1, TaskStays
<1>6. CASE job' = [job EXCEPT ![o] = done] /\ ST!Release(o)
  <2>1. done \in Jobs /\ done.at = "over" /\ done.got = "none"
    BY <1>2, NoJobs DEF ST!NoJob, Jobs, Stations
  <2> HIDE DEF done
  <2>2. Moved(o, done)
    BY <1>6, <2>1, JobMoves
  <2>3. Placed(o, done, task[o], taskPermit', profiles.p.source)
    BY <1>2, <2>1 DEF Placed
  <2> QED BY <1>1, <1>4, <1>5, <1>6, <2>1, <2>2, <2>3, Releasing, TaskGoesOn
<1>7. CASE /\ job' = [job EXCEPT ![o] = failed]
           /\ IF o = "import" THEN taskPermit' = taskPermit ELSE ST!Release(o)
  <2>1. failed \in Jobs /\ failed.got = job[o].got
        /\ failed.at = IF o = "import" THEN "undo" ELSE "over"
    BY <1>2 DEF Jobs, Stations
  <2> HIDE DEF failed
  <2>2. Moved(o, failed)
    BY <1>7, <2>1, JobMoves
  <2>3. Placed(o, failed, task[o], taskPermit', profiles.p.source)
    BY <1>2, <1>7, <2>1 DEF Placed
  <2>4. /\ taskPermit' \in ST!Ops \union {"free"}
        /\ taskPermit' = taskPermit \/ (taskPermit = o /\ taskPermit' = "free")
    BY <1>7, Releasing
  <2> QED BY <1>1, <1>4, <1>5, <2>1, <2>2, <2>3, <2>4, TaskGoesOn
<1> QED BY <1>1, <1>6, <1>7

(* The moment a request begins is a new one.                               *)
LEMMA StampKeeps ==
  ASSUME SubscriptionParameters, SubscriptionInv, NEW o \in ST!Ops, NEW from,
         from \in {"loaded", "listed"}, ST!Stamp(o, from),
         task' = task \/ (o = "quota" /\ task' = [task EXCEPT ![o] = ST!NewTask])
  PROVE  SubscriptionInv'
<1> USE SubscriptionFacts
<1> DEFINE j == [job[o] EXCEPT !.at = "fetching", !.started = clock']
<1>1. /\ clock < MaxClock /\ clock' = clock + 1 /\ job' = [job EXCEPT ![o] = j]
      /\ profiles' = profiles /\ status' = status /\ taskPermit' = taskPermit
      /\ job[o].at \in {"loaded", "listed"}
  BY DEF ST!Stamp
<1>2. clock' \in Moments
  BY <1>1 DEF Moments
<1>3. job[o] \in Jobs
  OBVIOUS
<1>4. /\ j \in Jobs /\ j.at = "fetching" /\ j.ok = job[o].ok /\ j.wrote = job[o].wrote
      /\ j.got = job[o].got
  BY <1>2, <1>3 DEF Jobs, Stations
<1> HIDE DEF j
<1>5. Moved(o, j) /\ FilesKept
  BY <1>1, <1>4, JobMoves, FilesStay
<1>6. PICK t \in Tasks : Switched(o, t) /\ (t = task[o] \/ o = "quota")
  BY TaskStays, TaskSwitches, NoJobs
<1>7. Placed(o, j, t, taskPermit, profiles.p.source)
  BY <1>4, <1>6, PlacedNow DEF Placed
<1> QED BY <1>1, <1>2, <1>4, <1>5, <1>6, <1>7, TaskGoesOn

(* The steps of a refresh.                                                 *)
LEMMA RefreshKeeps ==
  ASSUME SubscriptionParameters, SubscriptionInv, ST!RefreshLoads \/ ST!RefreshStamps
  PROVE  SubscriptionInv'
<1> USE SubscriptionFacts
<1>1. CASE ST!RefreshLoads
  <2> DEFINE j == [ST!NoJob EXCEPT !.at = "loaded", !.source = profiles.p.source,
                                   !.fresh = profiles.p.fresh]
  <2>1. /\ task' = [task EXCEPT !["refresh"] = ST!NewTask] /\ job' = [job EXCEPT !["refresh"] = j]
        /\ clock' = clock /\ profiles' = profiles /\ status' = status /\ taskPermit' = taskPermit
    BY <1>1 DEF ST!RefreshLoads, ST!Quiet
  <2>2. profiles.p.source \in Moments /\ profiles.p.fresh \in BOOLEAN
    BY DEF Profiles
  <2>3. j \in Jobs /\ j.at = "loaded" /\ ~j.ok /\ ~j.wrote /\ j.got = "none"
    BY <2>2, NoJobs DEF ST!NoJob, Jobs, Stations
  <2> HIDE DEF j
  <2>4. ST!NewTask \in Tasks /\ ~ST!NewTask.flag /\ ST!NewTask.phase = "live"
    BY NoJobs DEF ST!NewTask
  <2>5. Moved("refresh", j) /\ Switched("refresh", ST!NewTask) /\ FilesKept
    BY <2>1, <2>3, <2>4, JobMoves, TaskSwitches, FilesStay
  <2>6. Placed("refresh", j, ST!NewTask, taskPermit, profiles.p.source)
    BY <2>3, <2>4 DEF Placed
  <2> QED BY <2>1, <2>3, <2>4, <2>5, <2>6, TaskGoesOn
<1>2. CASE ST!RefreshStamps
  BY <1>2, StampKeeps DEF ST!RefreshStamps
<1> QED BY <1>1, <1>2

(* Under the permit a refresh goes on only if it has the source of now.    *)
LEMMA RefreshChecksKeeps ==
  ASSUME SubscriptionParameters, SubscriptionInv, ST!RefreshChecks
  PROVE  SubscriptionInv'
<1> USE SubscriptionFacts
<1>1. /\ job["refresh"].at = "checking" /\ task' = task /\ clock' = clock
      /\ profiles' = profiles /\ status' = status
      /\ \/ ST!Leave("refresh", FALSE) /\ ST!Release("refresh")
         \/ /\ profiles.p.source = job["refresh"].source /\ taskPermit' = taskPermit
            /\ \/ job' = [job EXCEPT !["refresh"].at = "found"]
               \/ /\ job' = [job EXCEPT !["refresh"].at = "validating"]
                  /\ job["refresh"].got # "same"
  BY DEF ST!RefreshChecks, ST!Quiet, ST!SourceKept
<1>2. task["refresh"] \in Tasks /\ Switched("refresh", task["refresh"]) /\ FilesKept
  BY <1>1, TaskStays, FilesStay
<1>3. CASE ST!Leave("refresh", FALSE) /\ ST!Release("refresh")
  <2>1. PICK j \in Jobs : /\ Moved("refresh", j) /\ j.at = "over" /\ ~j.ok
                          /\ j.wrote = job["refresh"].wrote /\ j.got = "none"
    BY <1>3, Leaving
  <2>2. Placed("refresh", j, task["refresh"], taskPermit', profiles.p.source)
    BY <2>1, PlacedNow DEF Placed
  <2>3. ST!Release("refresh")
    BY <1>3
  <2> QED BY <1>1, <1>2, <2>1, <2>2, <2>3, Releasing, TaskGoesOn
<1>4. ASSUME NEW at \in {"found", "validating"}, job' = [job EXCEPT !["refresh"].at = at],
             taskPermit' = taskPermit, profiles.p.source = job["refresh"].source,
             at = "validating" => job["refresh"].got # "same"
      PROVE  SubscriptionInv'
  <2>1. at \in Places
    BY DEF Places
  <2>2. PICK j \in Jobs : /\ Moved("refresh", j) /\ j.at = at /\ j.ok = job["refresh"].ok
                          /\ j.wrote = job["refresh"].wrote /\ j.got = job["refresh"].got
                          /\ j.source = job["refresh"].source
    BY <1>4, <2>1, JobAt
  <2>3. Placed("refresh", j, task["refresh"], taskPermit, profiles.p.source)
    BY <1>1, <1>4, <2>2, PlacedNow DEF Placed
  <2> QED BY <1>1, <1>2, <1>4, <2>2, <2>3, TaskGoesOn
<1>5. CASE /\ profiles.p.source = job["refresh"].source /\ taskPermit' = taskPermit
           /\ \/ job' = [job EXCEPT !["refresh"].at = "found"]
              \/ /\ job' = [job EXCEPT !["refresh"].at = "validating"]
                 /\ job["refresh"].got # "same"
  BY <1>4, <1>5
<1> QED BY <1>1, <1>3, <1>5

(* The end of a task that is shown: what it reports follows from how it    *)
(* ended, and a commit is never reported as cancelled.                     *)
LEMMA Finishing ==
  ASSUME SubscriptionParameters, SubscriptionInv, NEW o \in ST!Ops, ST!Finish(o)
  PROVE  \E t \in Tasks : /\ Switched(o, t) /\ t.flag = task[o].flag /\ ~t.can
                          /\ t.phase = "completed" => job[o].ok
                          /\ t.phase = "cancelled" => task[o].flag
<1> DEFINE t == [task[o] EXCEPT !.can = FALSE,
                   !.phase = IF job[o].ok THEN "completed"
                             ELSE IF task[o].flag THEN "cancelled" ELSE "failed"]
<1>1. task' = [task EXCEPT ![o] = t] /\ task[o] \in Tasks
  BY SubscriptionFacts DEF ST!Finish
<1>2. /\ t \in Tasks /\ t.flag = task[o].flag /\ ~t.can
      /\ t.phase = "completed" => job[o].ok
      /\ t.phase = "cancelled" => task[o].flag
  BY <1>1 DEF Tasks, ST!Terminal
<1> HIDE DEF t
<1> QED BY <1>1, <1>2, TaskSwitches

(* A task that ends forgets all but what it has written.                   *)
LEMMA EndKeeps ==
  ASSUME SubscriptionParameters, SubscriptionInv, NEW o \in {"refresh", "import"}, ST!Finish(o),
         job' = [job EXCEPT ![o] = ST!Ended(job[o])], ST!Quiet, taskPermit' = taskPermit
  PROVE  SubscriptionInv'
<1> USE SubscriptionFacts
<1> DEFINE j == ST!Ended(job[o])
<1>1. o \in ST!Ops /\ job[o] \in Jobs
  BY DEF ST!Ops
<1>2. /\ j \in Jobs /\ j.at = "idle" /\ ~j.ok /\ j.wrote = job[o].wrote /\ j.got = "none"
  BY <1>1, NoJobs DEF Jobs, Stations, ST!Ended, ST!NoJob
<1> HIDE DEF j
<1>3. clock' = clock /\ profiles' = profiles /\ status' = status /\ job' = [job EXCEPT ![o] = j]
  BY DEF ST!Quiet, j
<1>4. PICK t \in Tasks : /\ Switched(o, t) /\ t.flag = task[o].flag /\ ~t.can
                         /\ t.phase = "completed" => job[o].ok
                         /\ t.phase = "cancelled" => task[o].flag
  BY <1>1, Finishing
<1>5. Moved(o, j) /\ FilesKept
  BY <1>1, <1>2, <1>3, JobMoves, FilesStay
<1>6. Placed(o, j, t, taskPermit, profiles.p.source)
  BY <1>1, <1>2, <1>4, PlacedNow DEF Placed
<1> QED BY <1>1, <1>2, <1>3, <1>4, <1>5, <1>6, TaskGoesOn

(* The steps of an import.                                                 *)
LEMMA ImportStartsKeeps ==
  ASSUME SubscriptionParameters, SubscriptionInv, NEW u \in Urls, ST!ImportStarts(u)
  PROVE  SubscriptionInv'
<1> USE SubscriptionFacts
<1> DEFINE j == [ST!NoJob EXCEPT !.at = IF ST!Taken(u) THEN "found" ELSE "fetching", !.url = u]
<1>1. /\ task' = [task EXCEPT !["import"] = ST!NewTask] /\ job' = [job EXCEPT !["import"] = j]
      /\ clock' = clock /\ profiles' = profiles /\ status' = status /\ taskPermit' = taskPermit
  BY DEF ST!ImportStarts, ST!Quiet
<1>2. j \in Jobs /\ j.at \in {"found", "fetching"} /\ ~j.ok /\ ~j.wrote /\ j.got = "none"
  BY NoJobs DEF ST!NoJob, Jobs, Stations
<1> HIDE DEF j
<1>3. ST!NewTask \in Tasks /\ ~ST!NewTask.flag /\ ST!NewTask.phase = "live"
  BY NoJobs DEF ST!NewTask
<1>4. Moved("import", j) /\ Switched("import", ST!NewTask) /\ FilesKept
  BY <1>1, <1>2, <1>3, JobMoves, TaskSwitches, FilesStay
<1>5. Placed("import", j, ST!NewTask, taskPermit, profiles.p.source)
  BY <1>2, <1>3 DEF Placed
<1> QED BY <1>1, <1>2, <1>3, <1>4, <1>5, TaskGoesOn

(* A new profile has an address nobody has.                                *)
LEMMA ProfileAdded ==
  ASSUME SubscriptionParameters, SubscriptionInv, NEW new \in Profiles,
         new.url # profiles.p.url, profiles' = [profiles EXCEPT !.q = new], status' = status
  PROVE  FilesKept
<1>1. /\ profiles'.q = new /\ profiles'.p = profiles.p /\ profiles' \in [p : Profiles, q : Profiles]
  BY SubscriptionFacts
<1> QED BY <1>1, SubscriptionFacts DEF FilesKept, SubscriptionInv, SourceInv

(* A profile that is not there, with or without a reserved address.        *)
LEMMA AbsentProfile ==
  ASSUME SubscriptionParameters, NEW u \in Urls \union {"none"}
  PROVE  [ST!Absent EXCEPT !.url = u] \in Profiles /\ [ST!Absent EXCEPT !.url = u].url = u
         /\ ST!Absent \in Profiles /\ ST!Absent.url = "none"
BY NoJobs DEF ST!Absent, Profiles

(* Under the permit an import goes on only if nobody has its address.      *)
LEMMA ImportChecksKeeps ==
  ASSUME SubscriptionParameters, SubscriptionInv, ST!ImportChecks
  PROVE  SubscriptionInv'
<1> USE SubscriptionFacts
<1> DEFINE u == job["import"].url
           new == [ST!Absent EXCEPT !.url = u]
<1>1. /\ job["import"].at = "checking" /\ task' = task /\ clock' = clock /\ status' = status
      /\ \/ ST!Leave("import", FALSE) /\ ST!Release("import") /\ profiles' = profiles
         \/ /\ taskPermit' = taskPermit /\ job' = [job EXCEPT !["import"].at = "found"]
            /\ profiles' = profiles
         \/ /\ taskPermit' = taskPermit /\ job' = [job EXCEPT !["import"].at = "validating"]
            /\ ~ST!Taken(u) /\ profiles' = [profiles EXCEPT !.q = new]
  BY DEF ST!ImportChecks
<1>2. job["import"] \in Jobs /\ u \in Urls \union {"none"}
  BY DEF Jobs
<1>3. task["import"] \in Tasks /\ Switched("import", task["import"])
  BY <1>1, TaskStays
<1>4. CASE ST!Leave("import", FALSE) /\ ST!Release("import") /\ profiles' = profiles
  <2>1. PICK j \in Jobs : /\ Moved("import", j) /\ j.at = "over" /\ ~j.ok
                          /\ j.wrote = job["import"].wrote /\ j.got = "none"
    BY <1>4, Leaving
  <2>2. Placed("import", j, task["import"], taskPermit', profiles.p.source)
    BY <2>1, PlacedNow DEF Placed
  <2>3. ST!Release("import") /\ FilesKept
    BY <1>1, <1>4, FilesStay
  <2> QED BY <1>1, <1>3, <2>1, <2>2, <2>3, Releasing, TaskGoesOn
<1>5. ASSUME NEW at \in {"found", "validating"}, job' = [job EXCEPT !["import"].at = at],
             taskPermit' = taskPermit, FilesKept
      PROVE  SubscriptionInv'
  <2>1. at \in Places
    BY DEF Places
  <2>2. PICK j \in Jobs : /\ Moved("import", j) /\ j.at = at /\ j.ok = job["import"].ok
                          /\ j.wrote = job["import"].wrote /\ j.got = job["import"].got
                          /\ j.source = job["import"].source
    BY <1>5, <2>1, JobAt
  <2>3. Placed("import", j, task["import"], taskPermit, profiles.p.source)
    BY <1>1, <2>2, PlacedNow DEF Placed
  <2> QED BY <1>1, <1>3, <1>5, <2>2, <2>3, TaskGoesOn
<1>6. CASE /\ taskPermit' = taskPermit /\ job' = [job EXCEPT !["import"].at = "found"]
           /\ profiles' = profiles
  <2>1. FilesKept
    BY <1>1, <1>6, FilesStay
  <2> QED BY <1>5, <1>6, <2>1
<1>7. CASE /\ taskPermit' = taskPermit /\ job' = [job EXCEPT !["import"].at = "validating"]
           /\ ~ST!Taken(u) /\ profiles' = [profiles EXCEPT !.q = new]
  <2>1. profiles.p.url # u
    BY <1>7 DEF ST!Taken
  <2>2. new \in Profiles /\ new.url = u
    BY <1>2, AbsentProfile
  <2>3. FilesKept
    <3> HIDE DEF new, u
    <3> QED BY <1>1, <1>7, <2>1, <2>2, ProfileAdded
  <2> QED BY <1>5, <1>7, <2>3
<1> QED BY <1>1, <1>4, <1>6, <1>7

(* The undo of an import deletes the profile it added, or fails to.        *)
LEMMA UndoKeeps ==
  ASSUME SubscriptionParameters, SubscriptionInv, ST!ImportUndo
  PROVE  SubscriptionInv'
<1> USE SubscriptionFacts
<1>1. /\ ST!Leave("import", FALSE) /\ ST!Release("import") /\ task' = task /\ clock' = clock
      /\ status' = status
      /\ profiles' = [profiles EXCEPT !.q = ST!Absent] \/ profiles' = profiles
  BY DEF ST!ImportUndo
<1>2. PICK j \in Jobs : /\ Moved("import", j) /\ j.at = "over" /\ ~j.ok
                        /\ j.wrote = job["import"].wrote /\ j.got = "none"
  BY <1>1, Leaving
<1>3. task["import"] \in Tasks /\ Switched("import", task["import"])
  BY <1>1, TaskStays
<1>4. FilesKept
  BY <1>1, FilesStay, ProfileAdded, AbsentProfile DEF SubscriptionInv, SourceInv
<1>5. Placed("import", j, task["import"], taskPermit', profiles.p.source)
  BY <1>2, PlacedNow DEF Placed
<1> QED BY <1>1, <1>2, <1>3, <1>4, <1>5, Releasing, TaskGoesOn

(* The poller.                                                             *)
LEMMA QuotaKeeps ==
  ASSUME SubscriptionParameters, SubscriptionInv,
         ST!QuotaLists \/ ST!QuotaStarts \/ ST!QuotaFinishes
  PROVE  SubscriptionInv'
<1> USE SubscriptionFacts
<1>1. CASE ST!QuotaLists
  <2> DEFINE j == [ST!NoJob EXCEPT !.at = "listed", !.source = profiles.p.source]
  <2>1. /\ job' = [job EXCEPT !["quota"] = j] /\ task' = task
        /\ clock' = clock /\ profiles' = profiles /\ status' = status /\ taskPermit' = taskPermit
    BY <1>1 DEF ST!QuotaLists, ST!Quiet
  <2>2. profiles.p.source \in Moments
    BY DEF Profiles
  <2>3. j \in Jobs /\ j.at = "listed" /\ j.got = "none"
    BY <2>2, NoJobs DEF ST!NoJob, Jobs, Stations
  <2> HIDE DEF j
  <2>4. Moved("quota", j) /\ task["quota"] \in Tasks /\ Switched("quota", task["quota"]) /\ FilesKept
    BY <2>1, <2>3, JobMoves, TaskStays, FilesStay
  <2>5. Placed("quota", j, task["quota"], taskPermit, profiles.p.source)
    BY <2>3 DEF Placed
  <2> QED BY <2>1, <2>3, <2>4, <2>5, TaskGoesOn
<1>2. CASE ST!QuotaStarts
  <2>1. ST!Stamp("quota", "listed") /\ task' = [task EXCEPT !["quota"] = ST!NewTask]
    BY <1>2 DEF ST!QuotaStarts
  <2> QED BY <2>1, StampKeeps
<1>3. CASE ST!QuotaFinishes
  <2>1. /\ ST!Finish("quota") /\ job' = [job EXCEPT !["quota"].at = "observing"]
        /\ clock' = clock /\ profiles' = profiles /\ status' = status /\ taskPermit' = taskPermit
    BY <1>3 DEF ST!QuotaFinishes, ST!Quiet
  <2>2. PICK at \in Places : at = "observing" /\ job' = [job EXCEPT !["quota"].at = at]
    BY <2>1 DEF Places
  <2>3. PICK j \in Jobs : /\ Moved("quota", j) /\ j.at = at /\ j.ok = job["quota"].ok
                          /\ j.wrote = job["quota"].wrote /\ j.got = job["quota"].got
                          /\ j.source = job["quota"].source
    BY <2>2, JobAt
  <2>4. PICK t \in Tasks : Switched("quota", t)
    BY <2>1, Finishing
  <2>5. FilesKept
    BY <2>1, FilesStay
  <2>6. Placed("quota", j, t, taskPermit, profiles.p.source)
    BY <2>2, <2>3, PlacedNow DEF Placed
  <2> QED BY <2>1, <2>3, <2>4, <2>5, <2>6, TaskGoesOn
<1> QED BY <1>1, <1>2, <1>3

(* An observation is typed, and goes back on no channel.                   *)
LEMMA Recording ==
  ASSUME SubscriptionParameters, SubscriptionInv, NEW o \in ST!Ops, ST!Records(o)
  PROVE  /\ status' \in [config : Moments, quota : Moments, summary : Moments, usage : Moments,
                         usageOf : Moments]
         /\ status'.usage <= status'.summary
         /\ status'.config >= status.config /\ status'.quota >= status.quota
         /\ status'.summary >= status.summary /\ status'.usage >= status.usage
<1> USE SubscriptionFacts
<1> DEFINE Statuses == [config : Moments, quota : Moments, summary : Moments, usage : Moments,
                        usageOf : Moments]
           Later(s) == /\ s \in Statuses /\ s.usage <= s.summary
                       /\ s.config >= status.config /\ s.quota >= status.quota
                       /\ s.summary >= status.summary /\ s.usage >= status.usage
<1>1. Later(status)
  <2>1. status.usage <= status.summary
    BY DEF SubscriptionInv, SourceInv
  <2> QED BY <2>1 DEF Moments
<1>2. job[o].started \in Moments /\ job[o].source \in Moments
  BY DEF Jobs
<1>3. ASSUME NEW usage \in BOOLEAN, NEW s, Later(s)
      PROVE  Later(ST!Summary(s, job[o], usage))
  <2> HIDE DEF Statuses
  <2>1. CASE s.summary > job[o].started
    BY <1>3, <2>1 DEF ST!Summary
  <2>2. CASE ~(s.summary > job[o].started)
    <3>1. s \in Statuses /\ s.summary <= job[o].started
      BY <1>2, <1>3, <2>2 DEF Statuses, Moments
    <3>2. CASE job[o].ok /\ usage
      <4> DEFINE new == [s EXCEPT !.summary = job[o].started, !.usage = job[o].started,
                                  !.usageOf = job[o].source]
      <4>1. ST!Summary(s, job[o], usage) = new
        BY <2>2, <3>2 DEF ST!Summary
      <4>2. /\ new \in Statuses /\ new.summary = job[o].started /\ new.usage = job[o].started
            /\ new.config = s.config /\ new.quota = s.quota
        BY <1>2, <3>1 DEF Statuses
      <4> HIDE DEF new
      <4>3. /\ s.usage \in Nat /\ s.summary \in Nat /\ status.usage \in Nat
            /\ status.summary \in Nat /\ job[o].started \in Nat
        BY <1>2, <3>1 DEF Statuses, Moments
      <4>4. job[o].started >= status.usage /\ job[o].started >= status.summary
        BY <1>3, <3>1, <4>3
      <4> QED BY <1>3, <4>1, <4>2, <4>3, <4>4
    <3>3. CASE ~(job[o].ok /\ usage)
      BY <1>2, <1>3, <3>1, <3>3, <2>2 DEF ST!Summary, Statuses, Moments
    <3> QED BY <3>2, <3>3
  <2> QED BY <2>1, <2>2
<1>4. ASSUME NEW usage \in BOOLEAN
      PROVE  Later(ST!Observed(o, usage))
  <2>1. CASE job[o].started < profiles.p.source \/ status[ST!Channel(o)] > job[o].started
    BY <1>1, <2>1 DEF ST!Observed
  <2>2. CASE ~(job[o].started < profiles.p.source \/ status[ST!Channel(o)] > job[o].started)
    <3> DEFINE s == [status EXCEPT ![ST!Channel(o)] = job[o].started]
    <3>1. Later(s)
      <4>1. CASE o = "quota"
        <5>1. ST!Channel(o) = "quota"
          BY <4>1 DEF ST!Channel
        <5>2. status.quota \in Nat /\ job[o].started \in Nat /\ ~(status.quota > job[o].started)
          BY <1>2, <2>2, <5>1 DEF Moments
        <5>3. status.quota <= job[o].started
          BY <5>2
        <5>4. s = [status EXCEPT !["quota"] = job[o].started]
          BY <5>1
        <5> HIDE DEF s
        <5> QED BY <1>1, <1>2, <5>2, <5>3, <5>4
      <4>2. CASE o # "quota"
        <5>1. ST!Channel(o) = "config"
          BY <4>2 DEF ST!Channel
        <5>2. status.config \in Nat /\ job[o].started \in Nat /\ ~(status.config > job[o].started)
          BY <1>2, <2>2, <5>1 DEF Moments
        <5>3. status.config <= job[o].started
          BY <5>2
        <5>4. s = [status EXCEPT !["config"] = job[o].started]
          BY <5>1
        <5> HIDE DEF s
        <5> QED BY <1>1, <1>2, <5>2, <5>3, <5>4
      <4> QED BY <4>1, <4>2
    <3>2. ST!Observed(o, usage) = ST!Summary(s, job[o], usage)
      BY <2>2 DEF ST!Observed
    <3> HIDE DEF s
    <3> QED BY <1>3, <3>1, <3>2
  <2> QED BY <2>1, <2>2
<1>5. Later(status')
  <2>1. status' = status \/ \E usage \in BOOLEAN : status' = ST!Observed(o, usage)
    BY DEF ST!Records
  <2> HIDE DEF Later
  <2> QED BY <1>1, <1>4, <2>1
<1> QED BY <1>5

(* The two tasks that record what they have observed.                      *)
LEMMA ObserveKeeps ==
  ASSUME SubscriptionParameters, SubscriptionInv, ST!RefreshObserves \/ ST!QuotaObserves
  PROVE  SubscriptionInv'
<1> USE SubscriptionFacts
<1>1. PICK o \in {"refresh", "quota"} :
        /\ ST!Records(o) /\ task' = task /\ clock' = clock /\ profiles' = profiles
        /\ taskPermit' = taskPermit
        /\ \/ job' = [job EXCEPT ![o].at = "observed"]
           \/ o = "quota" /\ job' = [job EXCEPT ![o] = ST!Ended(job[o])]
  BY DEF ST!RefreshObserves, ST!QuotaObserves
<1>2. o \in ST!Ops /\ job[o] \in Jobs
  BY DEF ST!Ops
<1>3. FilesKept
  BY <1>1, <1>2, Recording DEF FilesKept, SubscriptionInv, SourceInv, ST!UniqueUrls
<1>4. task[o] \in Tasks /\ Switched(o, task[o])
  BY <1>1, <1>2, TaskStays
<1>5. PICK j \in Jobs : /\ Moved(o, j)
                        /\ \/ /\ j.at = "observed" /\ j.ok = job[o].ok /\ j.wrote = job[o].wrote
                              /\ j.got = job[o].got
                           \/ o = "quota" /\ j.at = "idle" /\ j.got = "none"
  <2>1. CASE job' = [job EXCEPT ![o].at = "observed"]
    <3>1. PICK at \in Places : at = "observed" /\ job' = [job EXCEPT ![o].at = at]
      BY <2>1 DEF Places
    <3>2. PICK j \in Jobs : /\ Moved(o, j) /\ j.at = at /\ j.ok = job[o].ok
                            /\ j.wrote = job[o].wrote /\ j.got = job[o].got
                            /\ j.source = job[o].source
      BY <1>2, <3>1, JobAt
    <3> QED BY <3>1, <3>2
  <2>2. CASE o = "quota" /\ job' = [job EXCEPT ![o] = ST!Ended(job[o])]
    <3>1. /\ ST!Ended(job[o]) \in Jobs /\ ST!Ended(job[o]).at = "idle"
          /\ ST!Ended(job[o]).got = "none"
      BY <1>2, NoJobs DEF Jobs, Stations, ST!Ended, ST!NoJob
    <3> QED BY <1>2, <2>2, <3>1, JobMoves
  <2> QED BY <1>1, <2>1, <2>2
<1>6. Placed(o, j, task[o], taskPermit, profiles.p.source)
  BY <1>2, <1>5, PlacedNow DEF Placed
<1> QED BY <1>1, <1>2, <1>3, <1>4, <1>5, <1>6, TaskGoesOn

(* The user edits or deletes only while no task has the permit.            *)
LEMMA UserKeeps ==
  ASSUME SubscriptionParameters, SubscriptionInv,
         ST!DeleteImported \/ \E u \in Urls : ST!EditSource(u)
  PROVE  SubscriptionInv'
<1> USE SubscriptionFacts
<1>1. CASE ST!DeleteImported
  <2>1. /\ clock' = clock /\ status' = status /\ task' = task /\ job' = job
        /\ taskPermit' = taskPermit /\ profiles' = [profiles EXCEPT !.q = ST!Absent]
    BY <1>1 DEF ST!DeleteImported
  <2>2. FilesKept
    BY <2>1, ProfileAdded, AbsentProfile DEF SubscriptionInv, SourceInv
  <2>3. job["quota"] \in Jobs /\ Moved("quota", job["quota"])
    BY <2>1, JobStays
  <2>4. task["quota"] \in Tasks /\ Switched("quota", task["quota"])
    BY <2>1, TaskStays
  <2> QED BY <2>1, <2>2, <2>3, <2>4, PlacedNow, TaskGoesOn
<1>2. CASE \E u \in Urls : ST!EditSource(u)
  <2>1. PICK u \in Urls : ST!EditSource(u)
    BY <1>2
  <2> DEFINE new == [profiles.p EXCEPT !.url = u, !.source = clock', !.fresh = FALSE]
  <2>2. /\ taskPermit = "free" /\ clock < MaxClock /\ clock' = clock + 1
        /\ (u # profiles.p.url => ~ST!Taken(u)) /\ profiles' = [profiles EXCEPT !.p = new]
        /\ status' = status /\ task' = task /\ job' = job /\ taskPermit' = taskPermit
    BY <2>1 DEF ST!EditSource
  <2>3. clock' \in Moments
    BY <2>2 DEF Moments
  <2>4. new \in Profiles /\ new.url = u
    BY <2>3 DEF Profiles
  <2>5. u # profiles.q.url /\ u # "none"
    BY <2>2 DEF ST!Taken, SubscriptionInv, ST!UniqueUrls, SubscriptionParameters
  <2> HIDE DEF new
  <2>6. /\ profiles' \in [p : Profiles, q : Profiles] /\ profiles'.p = new
        /\ profiles'.q = profiles.q
    BY <2>2, <2>4
  <2>7. ASSUME NEW o \in ST!Ops
        PROVE  Placed(o, job'[o], task'[o], taskPermit', profiles'.p.source)
    <3>1. Placed(o, job[o], task[o], taskPermit, profiles.p.source)
      BY PlacedNow
    <3> QED BY <2>2, <3>1 DEF Placed
  <2>8. SubscriptionTypes'
    BY <2>2, <2>3, <2>6 DEF SubscriptionTypes
  <2>9. status'.usage <= status'.summary
    BY <2>2 DEF SubscriptionInv, SourceInv
  <2> QED BY <2>4, <2>5, <2>6, <2>7, <2>8, <2>9, PlacedNext
<1> QED BY <1>1, <1>2

(* One profile is there, and no task has been started.                     *)
LEMMA SubscriptionStarts ==
  ASSUME SubscriptionParameters, ST!SubscriptionInit
  PROVE  SubscriptionInv
<1> DEFINE u == CHOOSE x \in Urls : TRUE
           b == CHOOSE x \in Bodies : TRUE
<1>1. u \in Urls /\ b \in Bodies /\ u # "none" /\ 0 \in Moments
  BY NoJobs DEF SubscriptionParameters
<1>2. /\ clock = 0 /\ taskPermit = "free"
      /\ profiles = [p |-> [url |-> u, source |-> 0, body |-> b, fresh |-> TRUE], q |-> ST!Absent]
      /\ status = [config |-> 0, quota |-> 0, summary |-> 0, usage |-> 0, usageOf |-> 0]
      /\ task = [o \in ST!Ops |-> ST!NoTask] /\ job = [o \in ST!Ops |-> ST!NoJob]
  BY DEF ST!SubscriptionInit
<1> HIDE DEF u, b
<1>3. ST!Absent \in Profiles /\ ST!Absent.url = "none"
  BY <1>1 DEF ST!Absent, Profiles
<1>4. /\ profiles \in [p : Profiles, q : Profiles] /\ profiles.p.url = u /\ profiles.q.url = "none"
  BY <1>1, <1>2, <1>3 DEF Profiles
<1>5. task \in [ST!Ops -> Tasks] /\ job \in [ST!Ops -> Jobs]
  BY <1>2, NoJobs
<1>6. \A o \in ST!Ops : /\ job[o].at = "idle" /\ ~job[o].ok /\ ~job[o].wrote /\ job[o].got = "none"
                        /\ ~task[o].flag
  BY <1>2 DEF ST!NoJob, ST!NoTask
<1>7. SubscriptionTypes
  BY <1>1, <1>2, <1>4, <1>5 DEF SubscriptionTypes
<1>8. PermitInv /\ CommitInv
  BY <1>6 DEF PermitInv, CommitInv, ST!Ops
<1>9. SourceInv /\ ST!UniqueUrls
  BY <1>1, <1>2, <1>4, <1>6 DEF SourceInv, ST!UniqueUrls, ST!Ops
<1> QED BY <1>7, <1>8, <1>9 DEF SubscriptionInv

(* Every step of the tasks and of the user keeps the invariant.            *)
LEMMA SubscriptionSteps ==
  ASSUME SubscriptionParameters, SubscriptionInv, ST!SubscriptionNext
  PROVE  SubscriptionInv'
<1>1. ASSUME ST!ImportEnds \/ ST!RefreshEnds
      PROVE  SubscriptionInv'
  <2>1. CASE ST!ImportEnds
    BY <2>1, EndKeeps DEF ST!ImportEnds
  <2>2. CASE ST!RefreshEnds
    BY <2>2, EndKeeps DEF ST!RefreshEnds
  <2> QED BY <1>1, <2>1, <2>2
<1>2. ASSUME NEW o \in ST!Ops,
             \/ ST!Cancel(o) \/ ST!Fetched(o) \/ ST!JobFails(o) \/ ST!TakePermit(o)
             \/ ST!Validated(o) \/ ST!ValidationFails(o) \/ ST!BeginCommit(o)
             \/ ST!CommitFound(o) \/ ST!Write(o)
      PROVE  SubscriptionInv'
  BY <1>2, CancelKeeps, FetchedKeeps, FailsKeeps, PermitKeeps, CommitKeeps, WriteKeeps
<1> QED BY <1>1, <1>2, RefreshKeeps, RefreshChecksKeeps, ImportStartsKeeps, ImportChecksKeeps,
           UndoKeeps, QuotaKeeps, ObserveKeeps, UserKeeps
        DEF ST!SubscriptionNext, ST!SubscriptionStep

(* What the invariant says of the tasks.                                   *)
LEMMA SubscriptionHolds ==
  ASSUME SubscriptionParameters, SubscriptionInv
  PROVE  ST!SubscriptionTypeOK /\ ST!CancelOrCommit /\ ST!UniqueUrls
<1> USE SubscriptionFacts
<1>1. ST!CancelOrCommit
  BY DEF SubscriptionInv, CommitInv, ST!CancelOrCommit
<1>2. \A o \in ST!Ops : /\ task[o].phase \in ST!Terminal \union {"live", "committing"}
                        /\ task[o].flag \in BOOLEAN /\ task[o].can \in BOOLEAN
                        /\ job[o].started \in 0..MaxClock
  BY DEF Tasks, Jobs, Moments
<1>3. \A k \in {"config", "quota", "summary", "usage", "usageOf"} : status[k] \in 0..MaxClock
  BY DEF Moments
<1>4. ST!SubscriptionTypeOK
  BY <1>2, <1>3 DEF ST!SubscriptionTypeOK, SubscriptionInv, SubscriptionTypes, Moments, Profiles
<1> QED BY <1>1, <1>4 DEF SubscriptionInv

(* No step turns an observation back, and a body is written only by a      *)
(* refresh whose source the profile still has.                             *)
LEMMA ObservationsAdvance ==
  ASSUME SubscriptionParameters, SubscriptionInv, ST!SubscriptionNext
  PROVE  ST!ObservationAdvances /\ ST!RevisionOfSource
<1> USE SubscriptionFacts
<1>1. status' = status \/ \E o \in ST!Ops : ST!Records(o)
  BY DEF ST!SubscriptionNext, ST!SubscriptionStep, ST!Cancel, ST!Fetched, ST!JobFails,
         ST!TakePermit, ST!Validated, ST!ValidationFails, ST!BeginCommit, ST!CommitFound,
         ST!Write, ST!RefreshLoads, ST!RefreshStamps, ST!Stamp, ST!RefreshChecks,
         ST!RefreshObserves, ST!RefreshEnds, ST!ImportStarts, ST!EditSource, ST!ImportChecks,
         ST!ImportUndo, ST!ImportEnds, ST!QuotaLists, ST!QuotaStarts, ST!QuotaFinishes,
         ST!QuotaObserves, ST!DeleteImported, ST!Quiet
<1>2. \A k \in {"config", "quota", "summary", "usage"} : status[k] \in Nat
  BY DEF Moments
<1>3. ST!ObservationAdvances
  BY <1>1, <1>2, Recording DEF ST!ObservationAdvances
<1>4. \/ profiles' = profiles
      \/ ST!ImportChecks \/ ST!ImportUndo \/ ST!DeleteImported \/ (\E u \in Urls : ST!EditSource(u))
      \/ ST!Write("refresh") \/ ST!Write("import") \/ ST!Write("quota")
  BY DEF ST!SubscriptionNext, ST!SubscriptionStep, ST!Cancel, ST!Fetched, ST!JobFails,
         ST!TakePermit, ST!Validated, ST!ValidationFails, ST!BeginCommit, ST!CommitFound,
         ST!RefreshLoads, ST!RefreshStamps, ST!Stamp, ST!RefreshChecks,
         ST!RefreshObserves, ST!RefreshEnds, ST!ImportStarts,
         ST!ImportEnds, ST!QuotaLists, ST!QuotaStarts, ST!QuotaFinishes,
         ST!QuotaObserves, ST!Quiet, ST!Ops
<1>5. ST!RevisionOfSource
  <2>1. ASSUME NEW new, profiles' = [profiles EXCEPT !.q = new]
        PROVE  profiles'.p = profiles.p
    BY <2>1
  <2>2. CASE profiles' = profiles
    BY <2>2 DEF ST!RevisionOfSource
  <2>3. CASE ST!ImportChecks \/ ST!ImportUndo \/ ST!DeleteImported
    <3>1. profiles' = profiles \/ \E new : profiles' = [profiles EXCEPT !.q = new]
      BY <2>3 DEF ST!ImportChecks, ST!ImportUndo, ST!DeleteImported
    <3> QED BY <2>1, <3>1 DEF ST!RevisionOfSource
  <2>4. CASE \E u \in Urls : ST!EditSource(u)
    <3>1. PICK u \in Urls : ST!EditSource(u)
      BY <2>4
    <3> DEFINE new == [profiles.p EXCEPT !.url = u, !.source = clock', !.fresh = FALSE]
    <3>2. profiles' = [profiles EXCEPT !.p = new]
      BY <3>1 DEF ST!EditSource
    <3>3. new.body = profiles.p.body
      BY DEF Profiles
    <3> HIDE DEF new
    <3> QED BY <3>2, <3>3 DEF ST!RevisionOfSource
  <2>5. CASE ST!Write("refresh")
    BY <2>5, PlacedNow DEF Placed, ST!Write, ST!RevisionOfSource
  <2>6. CASE ST!Write("import")
    <3>1. \/ profiles' = profiles
          \/ profiles' = [profiles EXCEPT !["q"].body = job["import"].got, !["q"].fresh = TRUE]
      BY <2>6 DEF ST!Write
    <3>2. profiles'.p = profiles.p
      BY <3>1
    <3> QED BY <3>2 DEF ST!RevisionOfSource
  <2>7. CASE ST!Write("quota")
    BY <2>7, PlacedNow DEF Placed, ST!Write
  <2> QED BY <1>4, <2>2, <2>3, <2>4, <2>5, <2>6, <2>7
<1> QED BY <1>3, <1>5

(* The invariant is about these variables only.                            *)
LEMMA SubscriptionStutters ==
  ASSUME SubscriptionInv, UNCHANGED <<v1, v2, v3, v4, v5, v6, v7>>
  PROVE  SubscriptionInv'
BY DEF SubscriptionInv, SubscriptionTypes, PermitInv, CommitInv, SourceInv, ST!UniqueUrls

HIDE DEF clock, profiles, status, task, job, taskPermit, team

-----------------------------------------------------------------------------
(* ConnectionFeedback                                                      *)

world == v1
shown == v2
starter == v3
probes == v4
inspector == v5
confPermit == v6
USE DEF world, shown, starter, probes, inspector, confPermit

Operations == 0..(MaxOps + 2)
Begins == {"begun", "spawned", "report", "enable", "probe", "checking"}

FeedbackWorlds ==
  [conf : 0..MaxConf, run : 0..MaxRun, last : 0..MaxRun, proxy : BOOLEAN, closing : BOOLEAN]
ShownStates ==
  [op : Operations, phase : {"Idle", "Busy", "Enabled", "Failed"},
   health : CF!Results \union {"Unchecked", "Checking"}, context : CF!Contexts]
Starters ==
  [at : Begins \union {"idle", "fail", "leave"}, op : Operations, context : CF!Contexts]
ProbeStates ==
  [at : {"none", "working", "waiting", "verifying", "publishing", "gone"}, context : CF!Contexts]
Inspectors == [at : {"idle", "compare"}, op : Operations, context : CF!Contexts]

FeedbackTypes ==
  /\ world \in FeedbackWorlds /\ shown \in ShownStates /\ starter \in Starters
  /\ probes \in [1..MaxOps -> ProbeStates] /\ inspector \in Inspectors
  /\ confPermit \in {CF!Free, CF!Command} \union (1..MaxOps)

(* The last invalidations are one for the context and one for the exit.    *)
ShownInv ==
  /\ ~world.closing => shown.op <= MaxOps + 1
  /\ shown.context # CF!None => shown.op <= MaxOps
  /\ inspector.at = "compare" => inspector.op <= MaxOps

(* A command with an operation has the permit, and no probe of it exists.  *)
StarterInv ==
  /\ starter.at # "idle" => confPermit = CF!Command
  /\ starter.at \in Begins =>
       starter.op \in 1..MaxOps /\ starter.op <= shown.op /\ probes[starter.op].at = "none"
  /\ starter.at = "report" => starter.context.conf = world.conf

(* A probe is of an operation that was begun; while that is the one of now *)
(* the window has its context, and from the comparison on that is true.    *)
ProbesInv ==
  \A o \in 1..MaxOps :
    /\ probes[o].at # "none" => o <= shown.op
    /\ probes[o].at \notin {"none", "gone"} /\ shown.op = o =>
         shown.context = probes[o].context
    /\ probes[o].at \in {"verifying", "publishing"} => confPermit = o
    /\ probes[o].at = "publishing" => probes[o].context.conf = world.conf

FeedbackInv == FeedbackTypes /\ ShownInv /\ StarterInv /\ ProbesInv

FeedbackParameters == MaxOps \in Nat /\ MaxConf \in Nat /\ MaxRun \in Nat

(* The types that the lemmas about the feedback keep needing.              *)
LEMMA FeedbackFacts ==
  ASSUME FeedbackParameters, FeedbackInv
  PROVE  /\ MaxOps \in Nat /\ MaxConf \in Nat /\ MaxRun \in Nat
         /\ world \in FeedbackWorlds /\ shown \in ShownStates /\ starter \in Starters
         /\ probes \in [1..MaxOps -> ProbeStates] /\ inspector \in Inspectors
         /\ shown.op \in Nat /\ starter.op \in Nat /\ world.conf \in 0..MaxConf
         /\ world.run \in 0..MaxRun /\ shown.context \in CF!Contexts
         /\ starter.context \in CF!Contexts
BY DEF FeedbackParameters, FeedbackInv, FeedbackTypes, FeedbackWorlds, ShownStates, Starters,
       Operations

(* The contexts of now and of nothing have their type.                     *)
LEMMA ContextTypes ==
  ASSUME FeedbackParameters, FeedbackInv
  PROVE  /\ CF!None \in CF!Contexts
         /\ \A mode \in {"proxy", "tun"} :
              /\ [CF!None EXCEPT !.mode = mode] \in CF!Contexts
              /\ CF!ContextNow(mode) \in CF!Contexts
              /\ CF!ContextNow(mode).conf = world.conf
<1>1. /\ -1 \in -1..MaxConf /\ 0 \in 0..MaxRun /\ world.conf \in -1..MaxConf
      /\ world.run \in 0..MaxRun
  BY FeedbackFacts
<1> QED BY <1>1 DEF CF!None, CF!Contexts, CF!ContextNow

(* A new operation forgets the context of the old one.                     *)
Fresh == /\ shown'.op = shown.op + 1 /\ shown'.context = CF!None
         /\ shown'.health = "Unchecked"

(* What begins an operation, for any phase.                                *)
LEMMA Begun ==
  ASSUME FeedbackParameters, FeedbackInv, NEW phase \in {"Idle", "Busy", "Enabled"},
         CF!BeginShown(phase), shown.op <= MaxOps + 1
  PROVE  shown' \in ShownStates /\ Fresh
<1>1. /\ shown' = [op |-> shown.op + 1, phase |-> phase, health |-> "Unchecked",
                   context |-> CF!None]
      /\ CF!None \in CF!Contexts
  BY ContextTypes DEF CF!BeginShown
<1>2. shown.op + 1 \in Operations
  BY FeedbackFacts DEF Operations
<1> QED BY <1>1, <1>2 DEF ShownStates, Fresh

(* An invalidation counts only for the operation that is shown.            *)
LEMMA Invalidated ==
  ASSUME FeedbackParameters, FeedbackInv, NEW op \in Nat, op <= MaxOps, CF!InvalidateIf(op)
  PROVE  shown' \in ShownStates /\ (shown' = shown \/ (Fresh /\ shown.op <= MaxOps))
<1>1. CASE shown.op = op
  <2>1. CF!BeginShown("Idle") /\ shown.op <= MaxOps + 1 /\ shown.op <= MaxOps
    BY <1>1, FeedbackFacts DEF CF!InvalidateIf
  <2> QED BY <2>1, Begun
<1>2. CASE shown.op # op
  BY <1>2, FeedbackFacts DEF CF!InvalidateIf
<1> QED BY <1>1, <1>2

(* Neither hurts the probes, whose operations are not newer than the one   *)
(* shown.                                                                  *)
LEMMA ProbesStay ==
  ASSUME FeedbackParameters, FeedbackInv, probes' = probes, confPermit' = confPermit,
         world'.conf = world.conf,
         Fresh \/ (shown'.op = shown.op /\ shown'.context = shown.context)
  PROVE  ProbesInv'
BY FeedbackFacts DEF FeedbackInv, ProbesInv, Fresh

(* One probe goes to another place with the context it has.                *)
LEMMA ProbeAt ==
  ASSUME FeedbackParameters, FeedbackInv, NEW o \in 1..MaxOps,
         NEW at \in {"waiting", "verifying", "publishing", "gone"},
         probes' = [probes EXCEPT ![o].at = at]
  PROVE  /\ probes' \in [1..MaxOps -> ProbeStates]
         /\ probes'[o].at = at /\ probes'[o].context = probes[o].context
         /\ \A p \in 1..MaxOps : p # o => probes'[p] = probes[p]
<1>1. [probes[o] EXCEPT !.at = at] \in ProbeStates
  BY FeedbackFacts DEF ProbeStates
<1>2. probes' = [probes EXCEPT ![o] = [probes[o] EXCEPT !.at = at]]
  OBVIOUS
<1>3. [probes[o] EXCEPT !.at = at].at = at
      /\ [probes[o] EXCEPT !.at = at].context = probes[o].context
  BY FeedbackFacts DEF ProbeStates
<1> QED BY <1>1, <1>2, <1>3, FeedbackFacts

(* A start or a recheck begins an operation under the permit.              *)
LEMMA CommandsBegin ==
  ASSUME FeedbackParameters, FeedbackInv,
         (\E mode \in {"proxy", "tun"} : CF!StartBegins(mode)) \/ CF!RecheckBegins
  PROVE  FeedbackInv'
<1> USE FeedbackFacts
<1>1. PICK mode \in {"proxy", "tun"}, phase \in {"Busy", "Enabled"}, at \in {"begun", "probe"} :
        /\ confPermit = CF!Free /\ shown.op < MaxOps /\ CF!BeginShown(phase)
        /\ confPermit' = CF!Command /\ world' = world /\ probes' = probes
        /\ inspector' = inspector
        /\ starter' = [at |-> at, op |-> shown'.op, context |-> [CF!None EXCEPT !.mode = mode]]
  BY DEF CF!StartBegins, CF!RecheckBegins, CF!MayBegin, CF!CommandVars
<1>2. shown' \in ShownStates /\ Fresh
  BY <1>1, Begun
<1>3. /\ starter' \in Starters /\ starter'.at \in Begins /\ starter'.op = shown.op + 1
      /\ starter'.at # "report"
  BY <1>1, <1>2, ContextTypes DEF Starters, Begins, ShownStates, Fresh
<1>4. FeedbackTypes'
  BY <1>1, <1>2, <1>3 DEF FeedbackInv, FeedbackTypes
<1>5. shown.op + 1 \in 1..MaxOps /\ probes[shown.op + 1].at = "none"
  BY <1>1 DEF FeedbackInv, ProbesInv
<1>6. ShownInv' /\ StarterInv'
  BY <1>1, <1>2, <1>3, <1>5 DEF FeedbackInv, ShownInv, StarterInv, Fresh
<1>7. ProbesInv'
  BY <1>1, <1>2 DEF FeedbackInv, ProbesInv, Fresh, CF!Free, CF!Command
<1> QED BY <1>4, <1>6, <1>7 DEF FeedbackInv

(* A stop, and the closing of the program.                                 *)
LEMMA StopsAndCloses ==
  ASSUME FeedbackParameters, FeedbackInv, CF!StopCommand \/ CF!Closes
  PROVE  FeedbackInv'
<1> USE FeedbackFacts
<1>1. /\ CF!BeginShown("Idle") /\ starter' = starter /\ confPermit' = confPermit
      /\ probes' = probes /\ inspector' = inspector /\ ~world.closing
      /\ \/ world' = [world EXCEPT !.run = 0, !.proxy = FALSE] /\ shown.op < MaxOps
         \/ world' = [world EXCEPT !.closing = TRUE]
  BY DEF CF!StopCommand, CF!Closes, CF!MayBegin, CF!CommandVars
<1>2. shown.op <= MaxOps + 1
  BY <1>1 DEF FeedbackInv, ShownInv
<1>3. shown' \in ShownStates /\ Fresh
  BY <1>1, <1>2, Begun
<1>4. /\ world' \in FeedbackWorlds /\ world'.conf = world.conf
      /\ world'.closing \/ shown.op < MaxOps
  <2>1. 0 \in 0..MaxRun
    OBVIOUS
  <2> QED BY <1>1, <2>1 DEF FeedbackWorlds
<1>5. FeedbackTypes'
  BY <1>1, <1>3, <1>4 DEF FeedbackInv, FeedbackTypes
<1>6. ShownInv' /\ StarterInv'
  BY <1>1, <1>3, <1>4 DEF FeedbackInv, ShownInv, StarterInv, Fresh
<1>7. ProbesInv'
  BY <1>1, <1>3, <1>4, ProbesStay
<1> QED BY <1>5, <1>6, <1>7 DEF FeedbackInv

(* The world changes by itself; its configuration only with the permit.    *)
LEMMA WorldMoves ==
  ASSUME FeedbackParameters, FeedbackInv, CF!ChangeConfiguration \/ CF!CoreDies \/ CF!ProxyTaken
  PROVE  FeedbackInv'
<1> USE FeedbackFacts
<1>1. /\ shown' = shown /\ starter' = starter /\ confPermit' = confPermit
      /\ probes' = probes /\ inspector' = inspector
      /\ \/ /\ confPermit = CF!Free /\ world.conf < MaxConf
            /\ world' = [world EXCEPT !.conf = @ + 1]
         \/ world' = [world EXCEPT !.run = 0]
         \/ world' = [world EXCEPT !.proxy = FALSE]
  BY DEF CF!ChangeConfiguration, CF!CoreDies, CF!ProxyTaken, CF!CommandVars
<1>2. /\ world' \in FeedbackWorlds /\ world'.closing = world.closing
      /\ world'.conf = world.conf \/ confPermit = CF!Free
  <2>1. CASE confPermit = CF!Free /\ world.conf < MaxConf /\ world' = [world EXCEPT !.conf = @ + 1]
    <3>1. world.conf + 1 \in 0..MaxConf
      BY <2>1
    <3> QED BY <2>1, <3>1 DEF FeedbackWorlds
  <2>2. CASE world' = [world EXCEPT !.run = 0] \/ world' = [world EXCEPT !.proxy = FALSE]
    <3>1. 0 \in 0..MaxRun
      OBVIOUS
    <3> QED BY <2>2, <3>1 DEF FeedbackWorlds
  <2> QED BY <1>1, <2>1, <2>2
<1>3. FeedbackTypes' /\ ShownInv'
  BY <1>1, <1>2 DEF FeedbackInv, FeedbackTypes, ShownInv
<1>4. StarterInv' /\ ProbesInv'
  BY <1>1, <1>2 DEF FeedbackInv, StarterInv, ProbesInv, CF!Free, CF!Command
<1> QED BY <1>3, <1>4 DEF FeedbackInv

(* The steps of a command that neither show a context nor start a probe.   *)
LEMMA StarterMoves ==
  ASSUME FeedbackParameters, FeedbackInv,
         CF!StartSpawns \/ CF!StartReady \/ CF!StartFails \/ CF!ProbeReads \/ CF!CommandLeaves
  PROVE  FeedbackInv'
<1> USE FeedbackFacts
<1>1. shown' = shown /\ probes' = probes /\ inspector' = inspector
  BY DEF CF!StartSpawns, CF!StartReady, CF!StartFails, CF!ProbeReads, CF!CommandLeaves,
         CF!CommandVars
<1>2. /\ world' \in FeedbackWorlds /\ world'.conf = world.conf /\ world'.closing = world.closing
  <2>1. \/ world' = world
        \/ world.last < MaxRun /\ world' = [world EXCEPT !.run = world.last + 1, !.last = @ + 1]
        \/ world' = [world EXCEPT !.proxy = TRUE]
        \/ world' = [world EXCEPT !.run = 0, !.proxy = FALSE]
    BY DEF CF!StartSpawns, CF!StartReady, CF!StartFails, CF!ProbeReads, CF!CommandLeaves
  <2>2. CASE world.last < MaxRun /\ world' = [world EXCEPT !.run = world.last + 1, !.last = @ + 1]
    <3>1. world.last + 1 \in 0..MaxRun
      BY <2>2 DEF FeedbackWorlds
    <3> QED BY <2>2, <3>1 DEF FeedbackWorlds
  <2>3. CASE \/ world' = [world EXCEPT !.proxy = TRUE]
             \/ world' = [world EXCEPT !.run = 0, !.proxy = FALSE]
    <3>1. 0 \in 0..MaxRun
      OBVIOUS
    <3> QED BY <2>3, <3>1 DEF FeedbackWorlds
  <2> QED BY <2>1, <2>2, <2>3
<1>3. \/ starter' = [starter EXCEPT !.at = "spawned"] /\ starter.at = "begun"
      \/ /\ starter' = [starter EXCEPT !.at = "report", !.context = CF!ContextNow("tun")]
         /\ starter.at = "spawned"
      \/ starter' = [starter EXCEPT !.at = "enable"] /\ starter.at = "spawned"
      \/ \E at \in {"leave", "fail"} :
           starter' = [starter EXCEPT !.at = at, !.op = shown.op] /\ starter.at # "idle"
      \/ starter' = [starter EXCEPT !.at = "leave"] /\ starter.at = "probe"
      \/ /\ starter' = [starter EXCEPT !.at = "checking", !.context = CF!ContextNow("proxy")]
         /\ starter.at = "probe"
      \/ starter' = CF!Rest
  BY DEF CF!StartSpawns, CF!StartReady, CF!StartFails, CF!ProbeReads, CF!CommandLeaves
<1>4. \/ confPermit' = confPermit
      \/ confPermit' = CF!Free /\ confPermit = CF!Command /\ starter' = CF!Rest
  BY DEF CF!StartSpawns, CF!StartReady, CF!StartFails, CF!ProbeReads, CF!CommandLeaves,
         FeedbackInv, StarterInv
<1>5. CF!Rest \in Starters /\ CF!Rest.at = "idle"
  BY ContextTypes DEF CF!Rest, Starters, Operations
<1>6. /\ starter' \in Starters
      /\ starter'.at \in Begins => starter.at \in Begins /\ starter'.op = starter.op
      /\ starter'.at # "idle" => starter.at # "idle"
      /\ starter'.at = "report" => starter'.context.conf = world.conf
  <2>1. CF!ContextNow("tun") \in CF!Contexts /\ CF!ContextNow("proxy") \in CF!Contexts
        /\ CF!ContextNow("tun").conf = world.conf
    BY ContextTypes
  <2>2. shown.op \in Operations
    BY DEF ShownStates
  <2> QED BY <1>3, <1>5, <2>1, <2>2 DEF Starters, Begins
<1>7. FeedbackTypes'
  BY <1>1, <1>2, <1>4, <1>6 DEF FeedbackInv, FeedbackTypes
<1>8. ShownInv' /\ StarterInv'
  BY <1>1, <1>2, <1>4, <1>5, <1>6 DEF FeedbackInv, ShownInv, StarterInv
<1>9. ProbesInv'
  BY <1>1, <1>2, <1>4 DEF FeedbackInv, ProbesInv, CF!Command
<1> QED BY <1>7, <1>8, <1>9 DEF FeedbackInv

(* What a command shows, it shows for its own operation: no probe of that  *)
(* operation exists yet, so no probe loses the context it was made for.    *)
LEMMA CommandsShow ==
  ASSUME FeedbackParameters, FeedbackInv,
         CF!TunReport \/ CF!StartEnabled \/ CF!StartReportsFailure
  PROVE  FeedbackInv'
<1> USE FeedbackFacts
<1>1. /\ world' = world /\ confPermit' = confPermit /\ probes' = probes /\ inspector' = inspector
  BY DEF CF!TunReport, CF!StartEnabled, CF!StartReportsFailure, CF!CommandVars
<1>2. /\ starter' \in Starters /\ starter'.op = starter.op /\ starter'.at # "report"
      /\ starter'.at \in Begins => starter.at \in Begins
      /\ starter.at # "idle"
  BY DEF CF!TunReport, CF!StartEnabled, CF!StartReportsFailure, Starters, Begins
<1>3. CASE CF!TunReport
  <2>1. PICK h \in CF!Results :
          shown' \in {shown, [shown EXCEPT !.health = h, !.context = starter.context],
                      [shown EXCEPT !.health = "Unchecked", !.context = CF!None]}
          /\ (shown' # shown => starter.op = shown.op)
    BY <1>3 DEF CF!TunReport, CF!Update, CF!Current
  <2>2. shown' \in ShownStates /\ shown'.op = shown.op
    BY <2>1, ContextTypes DEF ShownStates
  <2>3. FeedbackTypes'
    BY <1>1, <1>2, <2>2 DEF FeedbackInv, FeedbackTypes
  <2>4. starter.op \in 1..MaxOps /\ probes[starter.op].at = "none"
    BY <1>3 DEF CF!TunReport, FeedbackInv, StarterInv, Begins
  <2>5. ShownInv' /\ StarterInv'
    BY <1>1, <1>2, <2>1, <2>2, <2>4 DEF FeedbackInv, ShownInv, StarterInv
  <2>6. ProbesInv'
    BY <1>1, <2>1, <2>2, <2>4 DEF FeedbackInv, ProbesInv
  <2> QED BY <2>3, <2>5, <2>6 DEF FeedbackInv
<1>4. CASE CF!StartEnabled \/ CF!StartReportsFailure
  <2>1. \/ shown' = shown
        \/ shown' = [shown EXCEPT !.phase = "Enabled"]
        \/ shown' = [shown EXCEPT !.phase = "Failed", !.health = "Unchecked"]
    BY <1>4 DEF CF!StartEnabled, CF!StartReportsFailure, CF!Update
  <2>2. shown' \in ShownStates /\ shown'.op = shown.op /\ shown'.context = shown.context
    BY <2>1 DEF ShownStates
  <2>3. FeedbackTypes' /\ ShownInv' /\ StarterInv'
    BY <1>1, <1>2, <2>2 DEF FeedbackInv, FeedbackTypes, ShownInv, StarterInv
  <2>4. ProbesInv'
    BY <1>1, <2>2, ProbesStay
  <2> QED BY <2>3, <2>4 DEF FeedbackInv
<1> QED BY <1>3, <1>4

(* The command that has reported starts the probe of its operation.        *)
LEMMA ProbesBegin ==
  ASSUME FeedbackParameters, FeedbackInv, CF!ProbeStarts
  PROVE  FeedbackInv'
<1> USE FeedbackFacts
<1> DEFINE probe == [at |-> "working", context |-> starter.context]
<1>1. /\ world' = world /\ confPermit' = confPermit /\ inspector' = inspector
      /\ starter.at = "checking" /\ starter' = [starter EXCEPT !.at = "leave"]
      /\ \/ shown' = shown /\ probes' = probes
         \/ /\ starter.op = shown.op
            /\ shown' = [shown EXCEPT !.phase = "Enabled", !.health = "Checking",
                                      !.context = starter.context]
            /\ probes' = [probes EXCEPT ![starter.op] = probe]
  BY DEF CF!ProbeStarts, CF!Update, CF!Current
<1>2. starter' \in Starters /\ starter'.at = "leave" /\ starter'.op = starter.op
  BY <1>1 DEF Starters
<1>3. starter.op \in 1..MaxOps /\ confPermit = CF!Command
  BY <1>1 DEF FeedbackInv, StarterInv, Begins
<1>4. probe \in ProbeStates /\ probe.at = "working" /\ probe.context = starter.context
  BY DEF ProbeStates
<1> HIDE DEF probe
<1>5. CASE shown' = shown /\ probes' = probes
  BY <1>1, <1>2, <1>3, <1>5
     DEF FeedbackInv, FeedbackTypes, ShownInv, StarterInv, ProbesInv, Begins
<1>6. CASE /\ starter.op = shown.op
           /\ shown' = [shown EXCEPT !.phase = "Enabled", !.health = "Checking",
                                     !.context = starter.context]
           /\ probes' = [probes EXCEPT ![starter.op] = probe]
  <2>1. shown' \in ShownStates /\ shown'.op = shown.op /\ shown'.context = starter.context
    BY <1>6 DEF ShownStates
  <2>2. /\ probes' \in [1..MaxOps -> ProbeStates] /\ probes'[starter.op] = probe
        /\ \A o \in 1..MaxOps : o # starter.op => probes'[o] = probes[o]
    BY <1>3, <1>4, <1>6
  <2>3. FeedbackTypes'
    BY <1>1, <1>2, <2>1, <2>2 DEF FeedbackInv, FeedbackTypes
  <2>4. ShownInv' /\ StarterInv'
    BY <1>1, <1>2, <1>3, <1>6, <2>1 DEF FeedbackInv, ShownInv, StarterInv, Begins
  <2>5. ProbesInv'
    BY <1>1, <1>3, <1>4, <1>6, <2>1, <2>2 DEF FeedbackInv, ProbesInv
  <2> QED BY <2>3, <2>4, <2>5 DEF FeedbackInv
<1> QED BY <1>1, <1>5, <1>6

(* A probe moves: alone, or together with the permit and what is shown.    *)
LEMMA ProbesMove ==
  ASSUME FeedbackParameters, FeedbackInv, NEW o \in 1..MaxOps, CF!ProbeStep(o)
  PROVE  FeedbackInv'
<1> USE FeedbackFacts
<1>1. /\ world' = world /\ starter' = starter /\ inspector' = inspector
  BY DEF CF!ProbeStep, CF!ProbeOverruled, CF!ProbeWorked, CF!ProbeTakesPermit, CF!ProbeTimesOut,
         CF!ProbeVerifies, CF!ProbePublishes, CF!ProbeVars
<1>2. /\ o \in Nat /\ o <= MaxOps /\ CF!Free \notin 1..MaxOps /\ CF!Command \notin 1..MaxOps
      /\ CF!Free # CF!Command
  BY DEF CF!Free, CF!Command
<1>3. PICK at \in {"waiting", "verifying", "publishing", "gone"} :
        /\ probes' = [probes EXCEPT ![o].at = at]
        /\ at = "waiting" => probes[o].at = "working" /\ confPermit' = confPermit
        /\ at = "verifying" => /\ probes[o].at = "waiting" /\ confPermit = CF!Free
                               /\ confPermit' = o
        /\ at = "publishing" => /\ probes[o].at = "verifying" /\ confPermit' = confPermit
                                /\ probes[o].context = CF!ContextNow("proxy")
        /\ at = "gone" => /\ probes[o].at # "none"
                          /\ \/ confPermit' = confPermit
                             \/ probes[o].at \in {"verifying", "publishing"} /\ confPermit' = CF!Free
        /\ \/ shown' = shown
           \/ at = "gone" /\ CF!InvalidateIf(o)
           \/ at = "gone" /\ \E h \in CF!Results : shown' = [shown EXCEPT !.health = h]
  <2>1. CASE CF!ProbeOverruled(o) \/ CF!ProbeTimesOut(o)
    BY <2>1 DEF CF!ProbeOverruled, CF!ProbeTimesOut, CF!Gone
  <2>2. CASE CF!ProbeWorked(o)
    BY <2>2 DEF CF!ProbeWorked
  <2>3. CASE CF!ProbeTakesPermit(o)
    BY <2>3 DEF CF!ProbeTakesPermit
  <2>4. CASE CF!ProbeVerifies(o)
    BY <2>4 DEF CF!ProbeVerifies, CF!Gone
  <2>5. CASE CF!ProbePublishes(o)
    BY <2>5 DEF CF!ProbePublishes, CF!Gone, CF!Update
  <2> QED BY <2>1, <2>2, <2>3, <2>4, <2>5 DEF CF!ProbeStep
<1>4. /\ probes' \in [1..MaxOps -> ProbeStates]
      /\ probes'[o].at = at /\ probes'[o].context = probes[o].context
      /\ \A p \in 1..MaxOps : p # o => probes'[p] = probes[p]
  BY <1>3, ProbeAt
<1>5. /\ shown' \in ShownStates
      /\ \/ shown'.op = shown.op /\ shown'.context = shown.context
         \/ Fresh /\ shown.op <= MaxOps
  <2>1. CASE shown' = shown
    BY <2>1
  <2>2. CASE CF!InvalidateIf(o)
    BY <1>2, <2>2, Invalidated
  <2>3. ASSUME NEW h \in CF!Results, shown' = [shown EXCEPT !.health = h]
        PROVE  shown' \in ShownStates /\ shown'.op = shown.op /\ shown'.context = shown.context
    BY <2>3 DEF ShownStates
  <2> QED BY <1>3, <2>1, <2>2, <2>3
<1>6. /\ confPermit' \in {CF!Free, CF!Command} \union (1..MaxOps)
      /\ confPermit' = confPermit \/ confPermit \in {CF!Free, o}
      /\ at \in {"verifying", "publishing"} => confPermit' = o
      /\ at = "publishing" => probes[o].context.conf = world.conf
  BY <1>3, ContextTypes DEF FeedbackInv, FeedbackTypes, ProbesInv
<1>7. FeedbackTypes'
  BY <1>1, <1>4, <1>5, <1>6 DEF FeedbackInv, FeedbackTypes
<1>8. ShownInv'
  BY <1>1, <1>5 DEF FeedbackInv, ShownInv, Fresh
<1>9. StarterInv'
  <2>1. starter.at \in Begins => starter.op # o
    BY <1>3 DEF FeedbackInv, StarterInv
  <2> QED BY <1>1, <1>2, <1>4, <1>5, <1>6, <2>1 DEF FeedbackInv, StarterInv, Fresh
<1>10. ProbesInv'
  <2>1. probes[o].at # "none" /\ (at # "gone" => probes[o].at # "gone")
    BY <1>3
  <2>2. ASSUME NEW p \in 1..MaxOps, p # o
        PROVE  /\ probes'[p].at # "none" => p <= shown'.op
               /\ probes'[p].at \notin {"none", "gone"} /\ shown'.op = p =>
                    shown'.context = probes'[p].context
               /\ probes'[p].at \in {"verifying", "publishing"} => confPermit' = p
               /\ probes'[p].at = "publishing" => probes'[p].context.conf = world.conf
    BY <1>2, <1>4, <1>5, <1>6, <2>2 DEF FeedbackInv, ProbesInv, Fresh
  <2>3. /\ probes'[o].at # "none" => o <= shown'.op
        /\ probes'[o].at \notin {"none", "gone"} /\ shown'.op = o =>
             shown'.context = probes'[o].context
        /\ probes'[o].at \in {"verifying", "publishing"} => confPermit' = o
        /\ probes'[o].at = "publishing" => probes'[o].context.conf = world.conf
    BY <1>2, <1>4, <1>5, <1>6, <2>1 DEF FeedbackInv, ProbesInv, Fresh
  <2> QED BY <1>1, <2>2, <2>3 DEF ProbesInv
<1> QED BY <1>7, <1>8, <1>9, <1>10 DEF FeedbackInv

(* The inspector remembers an operation and compares it later.             *)
LEMMA InspectorMoves ==
  ASSUME FeedbackParameters, FeedbackInv, CF!InspectReads \/ CF!InspectCompares
  PROVE  FeedbackInv'
<1> USE FeedbackFacts
<1>1. /\ world' = world /\ starter' = starter /\ probes' = probes /\ confPermit' = confPermit
  BY DEF CF!InspectReads, CF!InspectCompares
<1>2. CASE CF!InspectReads
  <2>1. /\ shown' = shown /\ shown.context # CF!None
        /\ inspector' = [at |-> "compare", op |-> shown.op, context |-> shown.context]
    BY <1>2 DEF CF!InspectReads
  <2>2. inspector' \in Inspectors /\ inspector'.op <= MaxOps
    BY <2>1 DEF Inspectors, ShownStates, FeedbackInv, ShownInv
  <2> QED
    BY <1>1, <2>1, <2>2 DEF FeedbackInv, FeedbackTypes, ShownInv, StarterInv, ProbesInv
<1>3. CASE CF!InspectCompares
  <2>1. /\ inspector.at = "compare" /\ inspector' = CF!Rest
        /\ shown' = shown \/ CF!InvalidateIf(inspector.op)
    BY <1>3 DEF CF!InspectCompares
  <2>2. CF!Rest \in Inspectors /\ CF!Rest.at = "idle"
    BY ContextTypes DEF CF!Rest, Inspectors, Operations
  <2>3. inspector.op \in Nat /\ inspector.op <= MaxOps
    BY <2>1 DEF FeedbackInv, ShownInv, Inspectors, Operations
  <2>4. /\ shown' \in ShownStates
        /\ shown' = shown \/ (Fresh /\ shown.op <= MaxOps)
    BY <2>1, <2>3, Invalidated
  <2>5. FeedbackTypes'
    BY <1>1, <2>1, <2>2, <2>4 DEF FeedbackInv, FeedbackTypes
  <2>6. ShownInv' /\ StarterInv'
    BY <1>1, <2>1, <2>2, <2>4 DEF FeedbackInv, ShownInv, StarterInv, Fresh
  <2>7. ProbesInv'
    BY <1>1, <2>4, ProbesStay
  <2> QED BY <2>5, <2>6, <2>7 DEF FeedbackInv
<1> QED BY <1>2, <1>3

(* The initial states satisfy the invariant.                               *)
LEMMA FeedbackStarts ==
  ASSUME FeedbackParameters, CF!FeedbackInit
  PROVE  FeedbackInv
<1>1. /\ world = [conf |-> 0, run |-> 0, last |-> 0, proxy |-> FALSE, closing |-> FALSE]
      /\ shown = [op |-> 0, phase |-> "Idle", health |-> "Unchecked", context |-> CF!None]
      /\ starter = CF!Rest /\ inspector = CF!Rest /\ confPermit = CF!Free
      /\ probes = [o \in 1..MaxOps |-> [at |-> "none", context |-> CF!None]]
  BY DEF CF!FeedbackInit
<1>2. /\ MaxOps \in Nat /\ 0 \in 0..MaxConf /\ 0 \in 0..MaxRun /\ -1 \in -1..MaxConf
      /\ 0 \in Operations
  BY DEF FeedbackParameters, Operations
<1>3. CF!None \in CF!Contexts
  BY <1>2 DEF CF!None, CF!Contexts
<1>4. CF!Rest \in Starters /\ CF!Rest \in Inspectors /\ CF!Rest.at = "idle"
  BY <1>2, <1>3 DEF CF!Rest, Starters, Inspectors
<1>5. [at |-> "none", context |-> CF!None] \in ProbeStates
  BY <1>3 DEF ProbeStates
<1>6. probes \in [1..MaxOps -> ProbeStates] /\ \A o \in 1..MaxOps : probes[o].at = "none"
  BY <1>1, <1>5
<1>7. FeedbackTypes
  BY <1>1, <1>2, <1>3, <1>4, <1>6 DEF FeedbackTypes, FeedbackWorlds, ShownStates
<1> QED
  BY <1>1, <1>2, <1>4, <1>6, <1>7 DEF FeedbackInv, ShownInv, StarterInv, ProbesInv, Begins

(* Every step keeps the invariant.                                         *)
LEMMA FeedbackSteps ==
  ASSUME FeedbackParameters, FeedbackInv, CF!FeedbackNext
  PROVE  FeedbackInv'
BY CommandsBegin, StopsAndCloses, WorldMoves, StarterMoves, CommandsShow, ProbesBegin, ProbesMove,
   InspectorMoves
   DEF CF!FeedbackNext, CF!StarterStep

(* The invariant includes the types.                                       *)
LEMMA FeedbackHolds ==
  ASSUME FeedbackParameters, FeedbackInv
  PROVE  CF!FeedbackTypeOK
<1> USE FeedbackFacts
<1>1. confPermit \in {CF!Free, CF!Command} \union (1..MaxOps)
  BY DEF FeedbackInv, FeedbackTypes
<1> QED
  BY <1>1
     DEF CF!FeedbackTypeOK, FeedbackWorlds, ShownStates, Starters, ProbeStates, Inspectors, Operations

(* Only the report of a TUN start and a probe show a result; the context   *)
(* they show is of the configuration of now, as both hold the permit since *)
(* they have compared it.                                                  *)
LEMMA ResultsBelong ==
  ASSUME FeedbackParameters, FeedbackInv, CF!FeedbackNext
  PROVE  CF!ResultBelongs
<1> USE FeedbackFacts
<1>1. SUFFICES ASSUME shown'.health \in CF!Results, shown'.health # shown.health
               PROVE  shown'.op = shown.op /\ shown'.context.conf = world.conf
  BY DEF CF!ResultBelongs
<1>2. "Unchecked" \notin CF!Results /\ "Checking" \notin CF!Results
  BY DEF CF!Results
<1>3. \A phase, op : CF!BeginShown(phase) \/ CF!InvalidateIf(op) =>
        shown' = shown \/ shown'.health = "Unchecked"
  BY DEF CF!BeginShown, CF!InvalidateIf
<1>4. CF!TunReport \/ \E o \in 1..MaxOps : CF!ProbePublishes(o)
  <2>1. \/ CF!TunReport \/ (\E o \in 1..MaxOps : CF!ProbePublishes(o))
        \/ shown' = shown
        \/ \E phase, op : CF!BeginShown(phase) \/ CF!InvalidateIf(op)
        \/ CF!StartEnabled \/ CF!StartReportsFailure \/ CF!ProbeStarts
    BY DEF CF!FeedbackNext, CF!StarterStep, CF!ProbeStep, CF!StartBegins, CF!RecheckBegins,
           CF!StopCommand, CF!Closes, CF!ChangeConfiguration, CF!CoreDies, CF!ProxyTaken,
           CF!StartSpawns, CF!StartReady, CF!StartFails, CF!ProbeReads, CF!CommandLeaves,
           CF!ProbeOverruled, CF!ProbeWorked, CF!ProbeTakesPermit, CF!ProbeTimesOut,
           CF!ProbeVerifies, CF!InspectReads, CF!InspectCompares
  <2>2. ASSUME CF!StartEnabled \/ CF!StartReportsFailure \/ CF!ProbeStarts
        PROVE  shown'.health \in {shown.health, "Unchecked", "Checking"}
    BY <2>2
       DEF CF!StartEnabled, CF!StartReportsFailure, CF!ProbeStarts, CF!Update, ShownStates
  <2> QED BY <1>1, <1>2, <1>3, <2>1, <2>2
<1>5. CASE CF!TunReport
  <2>1. PICK h \in CF!Results :
          shown' \in {shown, [shown EXCEPT !.health = h, !.context = starter.context],
                      [shown EXCEPT !.health = "Unchecked", !.context = CF!None]}
    BY <1>5 DEF CF!TunReport, CF!Update
  <2>2. shown'.op = shown.op /\ shown'.context = starter.context
    BY <1>1, <1>2, <2>1 DEF ShownStates
  <2>3. starter.context.conf = world.conf
    BY <1>5 DEF CF!TunReport, FeedbackInv, StarterInv
  <2> QED BY <2>2, <2>3
<1>6. ASSUME NEW o \in 1..MaxOps, CF!ProbePublishes(o)
      PROVE  shown'.op = shown.op /\ shown'.context.conf = world.conf
  <2>1. PICK h \in CF!Results :
          shown' = IF o = shown.op THEN [shown EXCEPT !.health = h] ELSE shown
    BY <1>6 DEF CF!ProbePublishes, CF!Update, CF!Current
  <2>2. shown.op = o /\ shown'.op = shown.op /\ shown'.context = shown.context
    BY <1>1, <2>1 DEF ShownStates
  <2>3. /\ probes[o].at = "publishing"
    BY <1>6 DEF CF!ProbePublishes
  <2>4. shown.context = probes[o].context /\ probes[o].context.conf = world.conf
    BY <2>2, <2>3 DEF FeedbackInv, ProbesInv
  <2> QED BY <2>2, <2>4
<1> QED BY <1>4, <1>5, <1>6

(* The invariant is about these variables only.                            *)
LEMMA FeedbackStutters ==
  ASSUME FeedbackInv, UNCHANGED <<v1, v2, v3, v4, v5, v6, v7>>
  PROVE  FeedbackInv'
BY DEF FeedbackInv, FeedbackTypes, ShownInv, StarterInv, ProbesInv

HIDE DEF world, shown, starter, probes, inspector, confPermit

-----------------------------------------------------------------------------
(* DomainRouting                                                           *)

doc == v1
base == v2
loaded == v3
editor == v4
query == v5
routeFaults == v6
USE DEF doc, base, loaded, editor, query, routeFaults

Changes == 0..MaxChanges
Loads ==
  [run : 0..MaxRoutes, last : 0..MaxRoutes, prefix : Changes, profile : Changes, rules : Changes]
Edits ==
  [at : {"idle", "load", "commit", "undo", "restore"},
   kind : {"none", "routes", "rules", "profile"},
   old : DR!Docs, next : DR!Docs, oldBase : DR!Bases, nextBase : DR!Bases]
Looks ==
  [at : {"idle", "marked", "read", "asked"}, marker : Changes \X (0..MaxRoutes), doc : DR!Docs,
   base : DR!Bases, saw : Changes,
   result : {"none", "off", "waiting", "pending", "ok", "mismatch", "error"}]

RoutingTypes ==
  /\ doc \in DR!Docs /\ base \in DR!Bases /\ loaded \in Loads
  /\ editor \in Edits /\ query \in Looks /\ routeFaults \subseteq {"undone", "split"}
  /\ loaded.run <= loaded.last
  /\ doc.revision + base.profile + base.rules <= MaxChanges

(* What an open change has done so far: the files are the old ones until   *)
(* the commit, and a core that runs has the new routes from the load on.   *)
EditorInv ==
  editor.at # "idle" =>
    /\ \/ editor.next = editor.old
       \/ editor.next.revision = editor.old.revision + 1
    /\ editor.old.revision + editor.oldBase.profile + editor.oldBase.rules < MaxChanges
    /\ editor.next.revision + editor.nextBase.profile + editor.nextBase.rules <= MaxChanges
    /\ editor.nextBase.profile >= editor.oldBase.profile
    /\ base = editor.oldBase
    /\ editor.at \in {"load", "commit"} => doc = editor.old
    /\ editor.at = "undo" => doc = editor.next
    /\ editor.at = "restore" => doc = editor.old \/ "split" \in routeFaults
    /\ editor.at = "restore" => doc \in {editor.old, editor.next}
    /\ editor.at \in {"commit", "undo"} /\ loaded.run # 0 => loaded.prefix = DR!Prefix(editor.next)

(* What a query has read cannot be newer than what is there, and is what is *)
(* there when the numbers are the same.                                     *)
QueryInv ==
  /\ query.at \in {"marked", "read", "asked"} => query.marker[1] <= base.profile
  /\ query.at \in {"read", "asked"} =>
       /\ query.marker[1] <= query.base.profile /\ query.base.profile <= base.profile
       /\ query.result \in {"pending", "ok"} => query.doc.enabled /\ query.marker[2] # 0
       /\ "undone" \notin routeFaults =>
            /\ query.doc.revision <= doc.revision
            /\ query.doc.revision = doc.revision => query.doc = doc
  /\ query.result = "ok" => query.at = "asked" /\ query.saw = DR!Prefix(query.doc)

RoutingInv == RoutingTypes /\ EditorInv /\ QueryInv /\ DR!RoutesAreLoaded

RoutingParameters == MaxChanges \in Nat \ {0} /\ MaxRoutes \in Nat

(* A change of the document or the base keeps their bounds.                *)
LEMMA OpenStep ==
  ASSUME RoutingParameters, RoutingInv, NEW kind \in {"routes", "rules", "profile"},
         NEW d \in DR!Docs, NEW b \in DR!Bases,
         d = doc \/ d.revision = doc.revision + 1,
         d.revision + b.profile + b.rules <= doc.revision + base.profile + base.rules + 1,
         b.profile >= base.profile, DR!Open(kind, d, b)
  PROVE  RoutingInv'
<1>1. /\ doc' = doc /\ base' = base /\ loaded' = loaded /\ query' = query
      /\ routeFaults' = routeFaults
      /\ editor' = [at |-> IF loaded.run # 0 THEN "load" ELSE "commit", kind |-> kind,
                    old |-> doc, next |-> d, oldBase |-> base, nextBase |-> b]
      /\ doc.revision + base.profile + base.rules < MaxChanges
  BY DEF DR!Open, DR!Running, DR!EditRest, DR!MayChange
<1>2. RoutingTypes'
  BY <1>1 DEF RoutingInv, RoutingTypes, Edits
<1>3. doc.revision \in Nat /\ base.profile \in Nat /\ base.rules \in Nat /\ MaxChanges \in Nat
      /\ d.revision \in Nat /\ b.profile \in Nat /\ b.rules \in Nat
  BY DEF RoutingInv, RoutingTypes, DR!Docs, DR!Bases, RoutingParameters
<1>4. EditorInv'
  BY <1>1, <1>3 DEF EditorInv
<1>5. QueryInv' /\ DR!RoutesAreLoaded'
  BY <1>1 DEF RoutingInv, QueryInv, DR!RoutesAreLoaded, DR!EditorFree, DR!Running, DR!Prefix
<1> QED BY <1>2, <1>4, <1>5 DEF RoutingInv

(* A change begins with a document within the bounds.                      *)
LEMMA BeginsChange ==
  ASSUME RoutingParameters, RoutingInv,
         DR!SaveDraft \/ (\E on \in BOOLEAN : DR!ApplyRoutes(on)) \/ DR!SaveUserRules
           \/ DR!SelectProfile
  PROVE  RoutingInv'
<1>1. /\ doc \in DR!Docs /\ base \in DR!Bases
      /\ doc.revision \in Nat /\ base.profile \in Nat /\ base.rules \in Nat /\ MaxChanges \in Nat
  BY DEF RoutingInv, RoutingTypes, DR!Docs, DR!Bases, RoutingParameters
<1>0. DR!MayChange => /\ doc.revision + 1 \in 0..MaxChanges
                      /\ base.profile + 1 \in 0..MaxChanges /\ base.rules + 1 \in 0..MaxChanges
  BY <1>1 DEF DR!MayChange
<1>2. CASE DR!SaveDraft
  <2>1. /\ doc' = [DR!Bumped(doc) EXCEPT !.draft = doc.revision + 1]
        /\ base' = base /\ loaded' = loaded /\ editor' = editor /\ query' = query
        /\ routeFaults' = routeFaults /\ editor.at = "idle"
        /\ doc.revision + base.profile + base.rules < MaxChanges
    BY <1>2 DEF DR!SaveDraft, DR!EditRest, DR!EditorFree, DR!MayChange
  <2>2. /\ doc' \in DR!Docs /\ doc'.revision = doc.revision + 1
        /\ doc'.enabled = doc.enabled /\ doc'.applied = doc.applied
    <3>1. doc.revision + 1 \in 0..MaxChanges
      BY <1>0, <2>1 DEF DR!MayChange
    <3> QED BY <1>1, <2>1, <3>1 DEF DR!Docs, DR!Bumped
  <2>3. RoutingTypes'
    BY <1>1, <2>1, <2>2 DEF RoutingInv, RoutingTypes
  <2>4. EditorInv' /\ DR!RoutesAreLoaded'
    BY <2>1, <2>2
       DEF RoutingInv, EditorInv, DR!RoutesAreLoaded, DR!EditorFree, DR!Running, DR!Prefix
  <2>5. query.doc.revision \in Nat
    BY DEF RoutingInv, RoutingTypes, Looks, DR!Docs
  <2>6. QueryInv'
    BY <1>1, <2>1, <2>2, <2>5 DEF RoutingInv, QueryInv, DR!Prefix
  <2> QED BY <2>3, <2>4, <2>6 DEF RoutingInv
<1>3. ASSUME NEW on \in BOOLEAN, DR!ApplyRoutes(on) PROVE RoutingInv'
  <2> DEFINE d == [DR!Bumped(doc) EXCEPT !.enabled = on, !.applied = IF on THEN doc.draft ELSE @]
  <2>1. DR!Open("routes", d, base) /\ doc.revision + base.profile + base.rules < MaxChanges
    BY <1>3 DEF DR!ApplyRoutes, DR!Open, DR!MayChange
  <2>2. d \in DR!Docs /\ d.revision = doc.revision + 1
    <3>1. doc.revision + 1 \in 0..MaxChanges
      BY <1>0, <2>1 DEF DR!MayChange
    <3> QED BY <1>1, <3>1 DEF DR!Docs, DR!Bumped
  <2> HIDE DEF d
  <2>3. d.revision + base.profile + base.rules <= doc.revision + base.profile + base.rules + 1
        /\ base.profile >= base.profile
    BY <1>1, <2>2
  <2> QED BY <1>1, <2>1, <2>2, <2>3, OpenStep
<1>4. CASE DR!SaveUserRules
  <2> DEFINE b == [base EXCEPT !.rules = @ + 1]
  <2>1. DR!Open("rules", doc, b) /\ doc.revision + base.profile + base.rules < MaxChanges
    BY <1>4 DEF DR!SaveUserRules, DR!Open, DR!MayChange
  <2>2. b \in DR!Bases /\ b.rules = base.rules + 1 /\ b.profile = base.profile
    <3>1. base.rules + 1 \in 0..MaxChanges
      BY <1>0, <2>1 DEF DR!MayChange
    <3> QED BY <1>1, <3>1 DEF DR!Bases
  <2> HIDE DEF b
  <2>3. doc.revision + b.profile + b.rules <= doc.revision + base.profile + base.rules + 1
        /\ b.profile >= base.profile
    BY <1>1, <2>2
  <2> QED BY <1>1, <2>1, <2>2, <2>3, OpenStep
<1>5. CASE DR!SelectProfile
  <2> DEFINE b == [base EXCEPT !.profile = @ + 1]
  <2>1. DR!Open("profile", doc, b) /\ doc.revision + base.profile + base.rules < MaxChanges
    BY <1>5 DEF DR!SelectProfile, DR!Open, DR!MayChange
  <2>2. b \in DR!Bases /\ b.profile = base.profile + 1 /\ b.rules = base.rules
    <3>1. base.profile + 1 \in 0..MaxChanges
      BY <1>0, <2>1 DEF DR!MayChange
    <3> QED BY <1>1, <3>1 DEF DR!Bases
  <2> HIDE DEF b
  <2>3. doc.revision + b.profile + b.rules <= doc.revision + base.profile + base.rules + 1
        /\ b.profile >= base.profile
    BY <1>1, <2>2
  <2> QED BY <1>1, <2>1, <2>2, <2>3, OpenStep
<1> QED BY <1>2, <1>3, <1>4, <1>5

(* An open change goes to its next place and keeps what it remembers.      *)
LEMMA EditorMoves ==
  ASSUME RoutingParameters, RoutingInv, NEW place \in {"commit", "restore", "undo"},
         editor' = [editor EXCEPT !.at = place]
  PROVE  /\ editor' \in Edits /\ editor'.at = place /\ editor'.old = editor.old
         /\ editor'.next = editor.next /\ editor'.oldBase = editor.oldBase
         /\ editor'.nextBase = editor.nextBase
BY DEF RoutingInv, RoutingTypes, Edits

(* A load gives a core that runs the routes of what was built.             *)
LEMMA Loading ==
  ASSUME RoutingParameters, RoutingInv, NEW d \in DR!Docs, NEW b \in DR!Bases,
         DR!Load(DR!Built(d, b))
  PROVE  /\ loaded' \in Loads /\ loaded'.prefix = DR!Prefix(d) /\ loaded'.run = loaded.run
         /\ loaded'.last = loaded.last
<1>1. DR!Prefix(d) \in Changes /\ b.profile \in Changes /\ b.rules \in Changes
  BY DEF DR!Docs, DR!Bases, Changes, DR!Prefix, DR!Off, RoutingParameters
<1>2. loaded' = [loaded EXCEPT !.prefix = DR!Prefix(d), !.profile = b.profile, !.rules = b.rules]
  BY DEF DR!Load, DR!Built
<1> QED BY <1>1, <1>2 DEF RoutingInv, RoutingTypes, Loads

(* The steps of an open change: load, commit, undo, restore.               *)
LEMMA Transacts ==
  ASSUME RoutingParameters, RoutingInv,
         DR!LoadCandidate \/ DR!CommitCandidate \/ DR!UndoCommit \/ DR!RestorePrevious
  PROVE  RoutingInv'
<1>1. /\ doc \in DR!Docs /\ base \in DR!Bases /\ editor \in Edits /\ loaded \in Loads
      /\ query \in Looks /\ routeFaults \subseteq {"undone", "split"}
      /\ editor.old \in DR!Docs /\ editor.next \in DR!Docs
      /\ editor.oldBase \in DR!Bases /\ editor.nextBase \in DR!Bases
  BY DEF RoutingInv, RoutingTypes, Edits
<1>2. /\ doc.revision \in Nat /\ query.doc.revision \in Nat /\ base.profile \in Nat
      /\ base.rules \in Nat /\ query.base.profile \in Nat /\ query.marker[1] \in Nat
      /\ editor.next.revision \in Nat /\ editor.old.revision \in Nat /\ MaxChanges \in Nat
      /\ editor.nextBase.profile \in Nat /\ editor.nextBase.rules \in Nat
  BY <1>1 DEF DR!Docs, DR!Bases, Looks, Changes, RoutingParameters
<1>3. CASE DR!LoadCandidate
  <2>1. /\ doc' = doc /\ base' = base /\ query' = query /\ routeFaults' = routeFaults
        /\ editor.at = "load"
    BY <1>3 DEF DR!LoadCandidate, DR!EditRest
  <2>2. \/ /\ DR!Load(DR!Built(editor.next, editor.nextBase))
           /\ \/ editor' = [editor EXCEPT !.at = "commit"]
              \/ editor' = [editor EXCEPT !.at = "restore"]
        \/ loaded' = loaded /\ editor' = [editor EXCEPT !.at = "restore"]
    BY <1>3 DEF DR!LoadCandidate
  <2>3. /\ editor' \in Edits /\ editor'.at \in {"commit", "restore"} /\ editor'.old = editor.old
        /\ editor'.next = editor.next /\ editor'.oldBase = editor.oldBase
        /\ editor'.nextBase = editor.nextBase
    BY <2>2, EditorMoves
  <2>4. /\ loaded' \in Loads /\ loaded'.run = loaded.run /\ loaded'.last = loaded.last
        /\ editor'.at = "commit" => loaded'.prefix = DR!Prefix(editor.next)
    BY <1>1, <2>2, <2>3, Loading, EditorMoves
  <2>5. RoutingTypes'
    BY <2>1, <2>3, <2>4 DEF RoutingInv, RoutingTypes
  <2>6. EditorInv'
    BY <2>1, <2>3, <2>4 DEF RoutingInv, EditorInv, DR!Prefix
  <2>7. QueryInv' /\ DR!RoutesAreLoaded'
    BY <2>1, <2>3 DEF RoutingInv, QueryInv, DR!RoutesAreLoaded, DR!EditorFree, DR!Prefix
  <2> QED BY <2>5, <2>6, <2>7 DEF RoutingInv
<1>4. CASE DR!CommitCandidate
  <2>1. /\ loaded' = loaded /\ query' = query /\ routeFaults' = routeFaults
        /\ editor.at = "commit" /\ doc = editor.old /\ base = editor.oldBase
    BY <1>4 DEF DR!CommitCandidate, DR!EditRest, RoutingInv, EditorInv
  <2>2. CASE /\ doc' = editor.next /\ base' = editor.nextBase /\ editor' = DR!NobodyEdits
    <3>1. editor' \in Edits /\ editor'.at = "idle"
      BY <2>2 DEF DR!NobodyEdits, DR!NewDoc, DR!NewBase, DR!Off, Edits, DR!Docs, DR!Bases,
                  RoutingParameters
    <3>2. RoutingTypes' /\ EditorInv'
      BY <1>1, <2>1, <2>2, <3>1 DEF RoutingInv, RoutingTypes, EditorInv
    <3>3. DR!RoutesAreLoaded'
      BY <2>1, <2>2 DEF RoutingInv, EditorInv, DR!RoutesAreLoaded, DR!Running, DR!Prefix
    <3>4. QueryInv'
      BY <1>2, <2>1, <2>2 DEF RoutingInv, EditorInv, QueryInv, DR!Prefix
    <3> QED BY <3>2, <3>3, <3>4 DEF RoutingInv
  <2>3. CASE /\ doc' = editor.next /\ base' = base /\ editor' = [editor EXCEPT !.at = "undo"]
    <3>1. /\ editor' \in Edits /\ editor'.at = "undo" /\ editor'.old = editor.old
          /\ editor'.next = editor.next /\ editor'.oldBase = editor.oldBase
          /\ editor'.nextBase = editor.nextBase
      BY <2>3, EditorMoves
    <3>2. editor.next.revision + base.profile + base.rules <= MaxChanges
      BY <1>1, <1>2, <2>1 DEF RoutingInv, EditorInv
    <3>3. RoutingTypes'
      BY <1>1, <2>1, <2>3, <3>1, <3>2 DEF RoutingInv, RoutingTypes
    <3>4. EditorInv'
      BY <2>1, <2>3, <3>1 DEF RoutingInv, EditorInv, DR!Prefix
    <3>5. QueryInv'
      BY <1>2, <2>1, <2>3 DEF RoutingInv, EditorInv, QueryInv, DR!Prefix
    <3>6. DR!RoutesAreLoaded'
      BY <3>1 DEF DR!RoutesAreLoaded, DR!EditorFree
    <3> QED BY <3>3, <3>4, <3>5, <3>6 DEF RoutingInv
  <2>4. CASE /\ doc' = doc /\ base' = base /\ editor' = [editor EXCEPT !.at = "restore"]
    <3>1. /\ editor' \in Edits /\ editor'.at = "restore" /\ editor'.old = editor.old
          /\ editor'.next = editor.next /\ editor'.oldBase = editor.oldBase
          /\ editor'.nextBase = editor.nextBase
      BY <2>4, EditorMoves
    <3>2. RoutingTypes'
      BY <1>1, <2>1, <2>4, <3>1 DEF RoutingInv, RoutingTypes
    <3>3. EditorInv'
      BY <2>1, <2>4, <3>1 DEF RoutingInv, EditorInv
    <3>4. QueryInv' /\ DR!RoutesAreLoaded'
      BY <2>1, <2>4, <3>1
         DEF RoutingInv, QueryInv, DR!RoutesAreLoaded, DR!EditorFree, DR!Prefix
    <3> QED BY <3>2, <3>3, <3>4 DEF RoutingInv
  <2> QED BY <1>4, <2>2, <2>3, <2>4 DEF DR!CommitCandidate, DR!Close
<1>5. CASE DR!UndoCommit
  <2>1. /\ base' = base /\ loaded' = loaded /\ query' = query
        /\ editor.at = "undo" /\ doc = editor.next /\ base = editor.oldBase
        /\ editor' = [editor EXCEPT !.at = "restore"]
        /\ \/ doc' = editor.old /\ routeFaults' = routeFaults \union {"undone"}
           \/ doc' = doc /\ routeFaults' = routeFaults \union {"split"}
    BY <1>5 DEF DR!UndoCommit, DR!EditRest, RoutingInv, EditorInv
  <2>2. /\ editor' \in Edits /\ editor'.at = "restore" /\ editor'.old = editor.old
        /\ editor'.next = editor.next /\ editor'.oldBase = editor.oldBase
        /\ editor'.nextBase = editor.nextBase
    BY <2>1, EditorMoves
  <2>3. editor.old.revision + base.profile + base.rules <= MaxChanges
    BY <1>1, <1>2, <2>1 DEF RoutingInv, EditorInv
  <2>4. RoutingTypes'
    BY <1>1, <2>1, <2>2, <2>3 DEF RoutingInv, RoutingTypes
  <2>5. EditorInv'
    BY <2>1, <2>2 DEF RoutingInv, EditorInv
  <2>6. QueryInv'
    BY <2>1 DEF RoutingInv, QueryInv, DR!Prefix
  <2>7. DR!RoutesAreLoaded'
    BY <2>2 DEF DR!RoutesAreLoaded, DR!EditorFree
  <2> QED BY <2>4, <2>5, <2>6, <2>7 DEF RoutingInv
<1>6. CASE DR!RestorePrevious
  <2>1. /\ doc' = doc /\ base' = base /\ query' = query /\ editor.at = "restore"
        /\ editor' = DR!NobodyEdits
        /\ doc = editor.old \/ "split" \in routeFaults
    BY <1>6 DEF DR!RestorePrevious, DR!EditRest, DR!Close, RoutingInv, EditorInv
  <2>2. \/ DR!Load(DR!Built(editor.old, editor.oldBase)) /\ routeFaults' = routeFaults
        \/ /\ loaded' = loaded
           /\ routeFaults' = routeFaults \union (IF loaded.run # 0 THEN {"split"} ELSE {})
    BY <1>6 DEF DR!RestorePrevious, DR!Running
  <2>3. editor' \in Edits /\ editor'.at = "idle"
    BY <2>1 DEF DR!NobodyEdits, DR!NewDoc, DR!NewBase, DR!Off, Edits, DR!Docs, DR!Bases,
                RoutingParameters
  <2>4. loaded' \in Loads /\ loaded'.run = loaded.run /\ loaded'.last = loaded.last
    BY <1>1, <2>2, Loading
  <2>5. RoutingTypes' /\ EditorInv'
    BY <1>1, <2>1, <2>2, <2>3, <2>4 DEF RoutingInv, RoutingTypes, EditorInv
  <2>6. "split" \notin routeFaults' /\ loaded'.run # 0 => loaded'.prefix = DR!Prefix(editor.old)
    BY <1>1, <2>2, <2>4, Loading
  <2>7. routeFaults \subseteq routeFaults'
    BY <2>2
  <2>8. DR!RoutesAreLoaded'
    BY <2>1, <2>6, <2>7 DEF DR!RoutesAreLoaded, DR!Running, DR!Prefix
  <2>9. QueryInv'
    BY <2>1, <2>7 DEF RoutingInv, QueryInv, DR!Prefix
  <2> QED BY <2>5, <2>8, <2>9 DEF RoutingInv
<1> QED BY <1>3, <1>4, <1>5, <1>6

(* The core starts and stops between changes.                              *)
LEMMA CoreMoves ==
  ASSUME RoutingParameters, RoutingInv, DR!CoreStarts \/ DR!CoreGone
  PROVE  RoutingInv'
<1>1. /\ doc' = doc /\ base' = base /\ editor' = editor /\ query' = query
      /\ routeFaults' = routeFaults
  BY DEF DR!CoreStarts, DR!CoreGone
<1>2. /\ doc \in DR!Docs /\ base \in DR!Bases /\ loaded \in Loads /\ MaxChanges \in Nat
      /\ loaded.run \in Nat /\ loaded.last \in Nat /\ MaxRoutes \in Nat
  BY DEF RoutingInv, RoutingTypes, RoutingParameters, Loads
<1>3. CASE DR!CoreStarts
  <2>1. /\ editor.at = "idle" /\ loaded.last < MaxRoutes
        /\ loaded' = [run |-> loaded.last + 1, last |-> loaded.last + 1,
                      prefix |-> DR!Prefix(doc), profile |-> base.profile, rules |-> base.rules]
    BY <1>3 DEF DR!CoreStarts, DR!EditorFree
  <2>2. DR!Prefix(doc) \in Changes /\ base.profile \in Changes /\ base.rules \in Changes
    BY <1>2 DEF DR!Prefix, DR!Off, DR!Docs, DR!Bases, Changes
  <2>3. loaded.last + 1 \in 0..MaxRoutes
    BY <1>2, <2>1
  <2>4. loaded' \in Loads /\ loaded'.run <= loaded'.last
    BY <2>1, <2>2, <2>3 DEF Loads
  <2>5. RoutingTypes' /\ EditorInv'
    BY <1>1, <2>1, <2>4 DEF RoutingInv, RoutingTypes, EditorInv
  <2>6. QueryInv' /\ DR!RoutesAreLoaded'
    BY <1>1, <2>1 DEF RoutingInv, QueryInv, DR!RoutesAreLoaded, DR!Prefix
  <2> QED BY <2>5, <2>6 DEF RoutingInv
<1>4. CASE DR!CoreGone
  <2>1. loaded' = [loaded EXCEPT !.run = 0]
    BY <1>4 DEF DR!CoreGone
  <2>2. loaded' \in Loads /\ loaded'.run = 0 /\ loaded'.last = loaded.last
    BY <1>2, <2>1 DEF Loads
  <2>3. RoutingTypes' /\ EditorInv'
    BY <1>1, <1>2, <2>2 DEF RoutingInv, RoutingTypes, EditorInv
  <2>4. QueryInv' /\ DR!RoutesAreLoaded'
    BY <1>1, <2>2 DEF RoutingInv, QueryInv, DR!RoutesAreLoaded, DR!Running, DR!Prefix
  <2> QED BY <2>3, <2>4 DEF RoutingInv
<1> QED BY <1>3, <1>4

(* The status query writes nothing but what it has read.                   *)
LEMMA QueryMoves ==
  ASSUME RoutingParameters, RoutingInv,
         DR!QueryMarks \/ DR!QueryReads \/ DR!QueryAsks \/ DR!QueryEnds
  PROVE  RoutingInv'
<1>1. /\ doc' = doc /\ base' = base /\ editor' = editor /\ loaded' = loaded
      /\ routeFaults' = routeFaults
  BY DEF DR!QueryMarks, DR!QueryReads, DR!QueryAsks, DR!QueryEnds, DR!QueryRest
<1>2. /\ doc \in DR!Docs /\ base \in DR!Bases /\ loaded \in Loads /\ query \in Looks
      /\ base.profile \in Nat /\ doc.revision \in Nat /\ base.profile \in Changes
      /\ loaded.run \in 0..MaxRoutes /\ loaded.prefix \in Changes
      /\ 0 \in Changes /\ 0 \in 0..MaxRoutes
  BY DEF RoutingInv, RoutingTypes, RoutingParameters, Loads, DR!Docs, DR!Bases, Changes
<1>3. EditorInv' /\ DR!RoutesAreLoaded'
  BY <1>1 DEF RoutingInv, EditorInv, DR!RoutesAreLoaded, DR!EditorFree, DR!Running, DR!Prefix
<1>4. SUFFICES query' \in Looks /\ QueryInv'
  BY <1>1, <1>3 DEF RoutingInv, RoutingTypes
<1>5. DR!NoQuery \in Looks /\ DR!NoQuery.at = "idle" /\ DR!NoQuery.result = "none"
  <2>1. DR!NewDoc \in DR!Docs /\ DR!NewBase \in DR!Bases
    BY <1>2 DEF DR!NewDoc, DR!NewBase, DR!Docs, DR!Bases, DR!Off, Changes
  <2>2. <<0, 0>> \in Changes \X (0..MaxRoutes)
    BY <1>2
  <2> QED BY <1>2, <2>1, <2>2 DEF DR!NoQuery, DR!Off, Looks
<1>6. CASE DR!QueryMarks
  <2>1. query' = [DR!NoQuery EXCEPT !.at = "marked", !.marker = <<base.profile, loaded.run>>]
    BY <1>6 DEF DR!QueryMarks, DR!Marker
  <2>2. <<base.profile, loaded.run>> \in Changes \X (0..MaxRoutes)
    BY <1>2
  <2>3. query' \in Looks
    BY <1>5, <2>1, <2>2 DEF Looks
  <2>4. query'.at = "marked" /\ query'.marker = <<base.profile, loaded.run>>
        /\ query'.result = "none"
    BY <2>1 DEF DR!NoQuery
  <2>5. QueryInv'
    BY <1>1, <1>2, <2>4 DEF QueryInv
  <2> QED BY <2>3, <2>5
<1>7. CASE DR!QueryReads
  <2> DEFINE r == CASE ~doc.enabled -> "off"
                    [] doc.enabled /\ query.marker[2] = 0 -> "waiting"
                    [] OTHER -> "pending"
  <2>1. query.at = "marked"
        /\ query' = [query EXCEPT !.at = "read", !.doc = doc, !.base = base, !.result = r]
    BY <1>7 DEF DR!QueryReads
  <2>2. r \in {"off", "waiting", "pending"}
        /\ (r = "pending" => doc.enabled /\ query.marker[2] # 0)
    BY <1>2 DEF DR!Docs
  <2> HIDE DEF r
  <2>3. query' \in Looks
    BY <1>2, <2>1, <2>2 DEF Looks
  <2>4. /\ query'.at = "read" /\ query'.marker = query.marker /\ query'.doc = doc
        /\ query'.base = base /\ query'.result = r
    BY <1>2, <2>1 DEF Looks
  <2>5. query.marker[1] <= base.profile
    BY <2>1 DEF RoutingInv, QueryInv
  <2>6. QueryInv'
    BY <1>1, <1>2, <2>2, <2>4, <2>5 DEF QueryInv
  <2> QED BY <2>3, <2>6
<1>8. CASE DR!QueryAsks
  <2> DEFINE r == IF query.result # "pending" THEN query.result
                  ELSE IF DR!Running /\ DR!Agrees(query.base) THEN "ok"
                  ELSE IF DR!Running THEN "mismatch" ELSE "error"
  <2>1. query.at = "read"
        /\ query' = [query EXCEPT !.at = "asked", !.saw = loaded.prefix, !.result = r]
    BY <1>8 DEF DR!QueryAsks
  <2>2. /\ r \in {"none", "off", "waiting", "pending", "ok", "mismatch", "error"}
        /\ r \in {"pending", "ok"} => query.result \in {"pending", "ok"}
        /\ r = "ok" => loaded.prefix = DR!Prefix(query.doc)
    BY <1>2, <2>1 DEF RoutingInv, QueryInv, Looks, DR!Agrees
  <2> HIDE DEF r
  <2>3. query' \in Looks
    BY <1>2, <2>1, <2>2 DEF Looks
  <2>4. /\ query'.at = "asked" /\ query'.marker = query.marker /\ query'.doc = query.doc
        /\ query'.base = query.base /\ query'.result = r /\ query'.saw = loaded.prefix
    BY <1>2, <2>1 DEF Looks
  <2>5. QueryInv'
    BY <1>1, <1>2, <2>1, <2>2, <2>4 DEF RoutingInv, QueryInv, DR!Prefix
  <2> QED BY <2>3, <2>5
<1>9. CASE DR!QueryEnds
  BY <1>5, <1>9 DEF DR!QueryEnds, QueryInv
<1> QED BY <1>6, <1>7, <1>8, <1>9

(* The initial states satisfy the invariant.                               *)
LEMMA RoutingStarts ==
  ASSUME RoutingParameters, DR!RoutingInit
  PROVE  RoutingInv
<1>1. /\ doc = [DR!NewDoc EXCEPT !.revision = 1, !.draft = 1] /\ base = DR!NewBase
      /\ loaded = [run |-> 0, last |-> 0, prefix |-> 0, profile |-> 0, rules |-> 0]
      /\ editor = DR!NobodyEdits /\ query = DR!NoQuery /\ routeFaults = {}
  BY DEF DR!RoutingInit, DR!Off
<1>2. 0 \in 0..MaxChanges /\ 1 \in 0..MaxChanges /\ 0 \in 0..MaxRoutes /\ MaxChanges \in Nat
      /\ 1 <= MaxChanges
  BY DEF RoutingParameters
<1>3. DR!NewDoc \in DR!Docs /\ DR!NewBase \in DR!Bases
  BY <1>2 DEF DR!NewDoc, DR!NewBase, DR!Docs, DR!Bases, DR!Off
<1>4. doc \in DR!Docs /\ doc.revision = 1
  BY <1>1, <1>2 DEF DR!NewDoc, DR!Docs, DR!Off
<1>5. <<0, 0>> \in Changes \X (0..MaxRoutes)
  BY <1>2 DEF Changes
<1>6. editor \in Edits /\ editor.at = "idle" /\ query \in Looks /\ query.at = "idle"
      /\ query.result = "none"
  BY <1>1, <1>2, <1>3, <1>5 DEF DR!NobodyEdits, DR!NoQuery, DR!Off, Edits, Looks, Changes
<1>7. loaded \in Loads /\ loaded.run = 0 /\ loaded.last = 0
  BY <1>1, <1>2 DEF Loads, Changes
<1>8. doc.revision + base.profile + base.rules <= MaxChanges
  BY <1>1, <1>2, <1>4 DEF DR!NewBase
<1>9. RoutingTypes
  BY <1>1, <1>3, <1>4, <1>6, <1>7, <1>8 DEF RoutingTypes
<1> QED
  BY <1>6, <1>7, <1>9 DEF RoutingInv, EditorInv, QueryInv, DR!RoutesAreLoaded, DR!Running

(* Every step of a change, a query or the core keeps the invariant.        *)
LEMMA RoutingSteps ==
  ASSUME RoutingParameters, RoutingInv, DR!RoutingNext
  PROVE  RoutingInv'
BY BeginsChange, Transacts, CoreMoves, QueryMoves DEF DR!RoutingNext

(* A query that publishes compares the revision and the marker with those  *)
(* of now: by QueryInv they tell that what it has read is what there is.   *)
LEMMA RoutingHolds ==
  ASSUME RoutingParameters, RoutingInv
  PROVE  DR!RoutingTypeOK /\ DR!VerifiedIsTrue /\ DR!RoutesAreLoaded
<1>1. /\ doc \in DR!Docs /\ base \in DR!Bases /\ loaded \in Loads /\ query \in Looks
      /\ editor \in Edits /\ routeFaults \subseteq {"undone", "split"}
  BY DEF RoutingInv, RoutingTypes
<1>2. DR!RoutingTypeOK
  BY <1>1 DEF DR!RoutingTypeOK, Loads, Edits, Looks, Changes
<1>3. ASSUME DR!SaysVerified, "undone" \notin routeFaults
      PROVE  /\ query.saw = DR!Prefix(doc) /\ doc.enabled
             /\ query.base.profile = base.profile /\ DR!Running
  <2>1. /\ query.at = "asked" /\ query.result = "ok" /\ doc.revision = query.doc.revision
        /\ <<base.profile, loaded.run>> = query.marker
    BY <1>3 DEF DR!SaysVerified, DR!Publishes, DR!ContextKept, DR!Marker
  <2>2. query.marker[1] = base.profile /\ query.marker[2] = loaded.run
    BY <2>1
  <2>3. query.doc = doc /\ doc.enabled /\ query.marker[2] # 0 /\ query.saw = DR!Prefix(query.doc)
    BY <1>3, <2>1 DEF RoutingInv, QueryInv
  <2>4. query.marker[1] <= query.base.profile /\ query.base.profile <= base.profile
    BY <2>1 DEF RoutingInv, QueryInv
  <2>5. query.base.profile \in Nat /\ base.profile \in Nat
    BY <1>1 DEF Looks, DR!Bases
  <2> QED BY <2>2, <2>3, <2>4, <2>5 DEF DR!Running
<1> QED BY <1>2, <1>3 DEF DR!VerifiedIsTrue, RoutingInv

(* The invariant is about these variables only.                            *)
LEMMA RoutingStutters ==
  ASSUME RoutingInv, UNCHANGED <<v1, v2, v3, v4, v5, v6, v7>>
  PROVE  RoutingInv'
BY DEF RoutingInv, RoutingTypes, EditorInv, QueryInv, DR!RoutesAreLoaded,
       DR!EditorFree, DR!Running, DR!Prefix

HIDE DEF doc, base, loaded, editor, query, routeFaults

-----------------------------------------------------------------------------
(* The components together: each keeps its invariant while it is in focus, *)
(* and the file keeps its own throughout.                                  *)

(* The assumption on the constants is what the sections ask of them.       *)
LEMMA ParametersHold ==
  /\ NodesParameters /\ HelperParameters /\ SubscriptionParameters /\ FeedbackParameters
  /\ RoutingParameters
BY BackgroundAssumption
   DEF NodesParameters, HelperParameters, SubscriptionParameters,
       FeedbackParameters, RoutingParameters

BackgroundInv ==
  /\ FileInv
  /\ focus \in {"files", "nodes", "update", "helper", "subscription", "feedback", "routing"}
  /\ focus = "nodes" => NodesInv
  /\ focus = "update" => UpdateInv
  /\ focus = "helper" => HelperInv
  /\ focus = "subscription" => SubscriptionInv
  /\ focus = "feedback" => FeedbackInv
  /\ focus = "routing" => RoutingInv

(* Whatever the focus, its component starts in its invariant.              *)
LEMMA BackgroundStarts ==
  ASSUME BackgroundInit
  PROVE  BackgroundInv
<1>1. FileInv
  BY FileStarts DEF BackgroundInit, FilesOff
<1>2. CASE focus = "files"
  BY <1>1, <1>2 DEF BackgroundInv
<1>3. CASE focus = "nodes" /\ NT!NodeTestInit
  BY ParametersHold, <1>1, <1>3, NodesStart DEF BackgroundInv
<1>4. CASE focus = "update" /\ UP!UpdateInit
  BY <1>1, <1>4, UpdateStarts DEF BackgroundInv
<1>5. CASE focus = "helper" /\ HP!HelperInit
  BY ParametersHold, <1>1, <1>5, HelperStarts DEF BackgroundInv
<1>6. CASE focus = "subscription" /\ ST!SubscriptionInit
  BY ParametersHold, <1>1, <1>6, SubscriptionStarts DEF BackgroundInv
<1>7. CASE focus = "feedback" /\ CF!FeedbackInit
  BY ParametersHold, <1>1, <1>7, FeedbackStarts DEF BackgroundInv
<1>8. CASE focus = "routing" /\ DR!RoutingInit
  BY ParametersHold, <1>1, <1>8, RoutingStarts DEF BackgroundInv
<1> QED BY <1>2, <1>3, <1>4, <1>5, <1>6, <1>7, <1>8 DEF BackgroundInit

(* A step is one of the component in focus, or of none.                    *)
LEMMA StepOfFocus ==
  ASSUME [BackgroundNext]_backgroundVars
  PROVE  /\ [Next]_vars /\ focus' = focus
         /\ \/ focus = "nodes" /\ NT!NodeTestNext
            \/ focus = "update" /\ UP!UpdateNext
            \/ focus = "helper" /\ HP!HelperNext
            \/ focus = "subscription" /\ ST!SubscriptionNext
            \/ focus = "feedback" /\ CF!FeedbackNext
            \/ focus = "routing" /\ DR!RoutingNext
            \/ UNCHANGED <<v1, v2, v3, v4, v5, v6, v7>>
BY DEF BackgroundNext, Only, backgroundVars, From1, From4

(* A step of the file only leaves every component as it is.                *)
LEMMA BackgroundStutters ==
  ASSUME BackgroundInv, UNCHANGED <<v1, v2, v3, v4, v5, v6, v7>>,
         focus' = focus, FileInv'
  PROVE  BackgroundInv'
<1> USE DEF BackgroundInv
<1>1. focus = "nodes" => NodesInv'
  BY ParametersHold, NodesStutter
<1>2. focus = "update" => UpdateInv'
  BY UpdateStutters
<1>3. focus = "helper" => HelperInv'
  BY HelperStutters
<1>4. focus = "subscription" => SubscriptionInv'
  BY SubscriptionStutters
<1>5. focus = "feedback" => FeedbackInv'
  BY FeedbackStutters
<1>6. focus = "routing" => RoutingInv'
  BY RoutingStutters
<1> QED BY <1>1, <1>2, <1>3, <1>4, <1>5, <1>6

(* A step of the component in focus keeps its invariant.                   *)
LEMMA BackgroundSteps ==
  ASSUME BackgroundInv, [BackgroundNext]_backgroundVars
  PROVE  BackgroundInv'
<1>1. FileInv' /\ focus' = focus
  BY StepOfFocus, FileSteps DEF BackgroundInv
<1>2. CASE focus = "nodes" /\ NT!NodeTestNext
  BY ParametersHold, <1>1, <1>2, NodesStep DEF BackgroundInv
<1>3. CASE focus = "update" /\ UP!UpdateNext
  BY <1>1, <1>3, UpdateSteps DEF BackgroundInv
<1>4. CASE focus = "helper" /\ HP!HelperNext
  BY ParametersHold, <1>1, <1>4, HelperSteps DEF BackgroundInv
<1>5. CASE focus = "subscription" /\ ST!SubscriptionNext
  BY ParametersHold, <1>1, <1>5, SubscriptionSteps DEF BackgroundInv
<1>6. CASE focus = "feedback" /\ CF!FeedbackNext
  BY ParametersHold, <1>1, <1>6, FeedbackSteps DEF BackgroundInv
<1>7. CASE focus = "routing" /\ DR!RoutingNext
  BY ParametersHold, <1>1, <1>7, RoutingSteps DEF BackgroundInv
<1>8. CASE UNCHANGED <<v1, v2, v3, v4, v5, v6, v7>>
  BY <1>1, <1>8, BackgroundStutters
<1> QED BY StepOfFocus, <1>2, <1>3, <1>4, <1>5, <1>6, <1>7, <1>8

(* The strengthened invariant of all components holds in every state.      *)
THEOREM BackgroundInductive == BackgroundSpec => []BackgroundInv
BY BackgroundStarts, BackgroundSteps, PTL DEF BackgroundSpec

-----------------------------------------------------------------------------
(* The theorems.                                                           *)

(* Every variable of the component in focus keeps its type.                *)
THEOREM BackgroundTypeCorrect == BackgroundSpec => []BackgroundTypeOK
<1>1. BackgroundInv => BackgroundTypeOK
  <2> SUFFICES ASSUME BackgroundInv PROVE BackgroundTypeOK
    OBVIOUS
  <2>1. CASE focus = "files"
    BY <2>1 DEF BackgroundTypeOK, BackgroundInv, FileInv
  <2>2. CASE focus = "nodes"
    BY ParametersHold, <2>2, NodesHold DEF BackgroundTypeOK, BackgroundInv
  <2>3. CASE focus = "update"
    BY <2>3, UpdateHolds DEF BackgroundTypeOK, BackgroundInv
  <2>4. CASE focus = "helper"
    BY ParametersHold, <2>4, HelperHolds DEF BackgroundTypeOK, BackgroundInv
  <2>5. CASE focus = "subscription"
    BY ParametersHold, <2>5, SubscriptionHolds DEF BackgroundTypeOK, BackgroundInv
  <2>6. CASE focus = "feedback"
    BY ParametersHold, <2>6, FeedbackHolds DEF BackgroundTypeOK, BackgroundInv
  <2>7. CASE focus = "routing"
    BY ParametersHold, <2>7, RoutingHolds DEF BackgroundTypeOK, BackgroundInv
  <2> QED BY <2>1, <2>2, <2>3, <2>4, <2>5, <2>6, <2>7 DEF BackgroundInv
<1> QED BY <1>1, BackgroundInductive, PTL

(* However often a node test is cancelled and started again, no more       *)
(* probes fly than one worker may send, and "Completed" is complete        *)
(* (node_test.rs 124, Task::result).                                       *)
THEOREM TestsStayHonest == BackgroundSpec => []TestsAreHonest
<1>1. BackgroundInv => TestsAreHonest
  BY ParametersHold, NodesHold DEF BackgroundInv, TestsAreHonest
<1> QED BY <1>1, BackgroundInductive, PTL

(* An update that fails, or that dies at any step, loses neither the       *)
(* application nor a service, and what it reports as undisturbed was left  *)
(* alone (macos_upgrade.rs and its marker, update_receipt.rs).             *)
THEOREM UpdateStaysSafe == BackgroundSpec => []UpdateIsSafe
<1>1. BackgroundInv => UpdateIsSafe
  BY UpdateHolds DEF BackgroundInv, UpdateIsSafe
<1> QED BY <1>1, BackgroundInductive, PTL

(* Either the cancellation of a task wins or its commit, for any number of *)
(* addresses and bodies, and an import never makes a second profile of an  *)
(* address that an edit has taken meanwhile (begin_commit,                 *)
(* persist_new_subscription, subscription_edit.rs).                        *)
THEOREM CommitsStayClean == BackgroundSpec => []CommitsAreClean
<1>1. BackgroundInv => CommitsAreClean
  BY ParametersHold, SubscriptionHolds DEF BackgroundInv, CommitsAreClean
<1> QED BY <1>1, BackgroundInductive, PTL

(* "Verified" is said of the document and the run of now, and between      *)
(* changes a core that runs has the routes of the document                 *)
(* (domain_routing.rs, domain_routing/ingress.rs).                         *)
THEOREM RoutesStayTrue == BackgroundSpec => []RoutesAreTrue
<1>1. BackgroundInv => RoutesAreTrue
  BY ParametersHold, RoutingHolds DEF BackgroundInv, RoutesAreTrue
<1> QED BY <1>1, BackgroundInductive, PTL

(* In the composition too the content saved last is in the file or, while  *)
(* the file is missing, in its backup (write_private_atomic).              *)
THEOREM LatestStaysThere == BackgroundSpec => []LatestIsThere
BY BackgroundInductive, PTL DEF BackgroundInv, FileInv

(* No step tells a reader of a helper that a mutation has replaced, turns  *)
(* an observation of a subscription back, writes a body of another source, *)
(* or shows a result under an operation it was not begun for               *)
(* (tun_service/admin.rs, tun_service/lifecycle.rs, storage.rs 340,        *)
(* profile_service.rs 552, and the operation of connection_feedback.rs).   *)
THEOREM LateAnswersStayDropped == BackgroundSpec => LateAnswersAreDropped
<1> DEFINE Dropped == CASE focus = "helper" -> HP!AnswerFollowsRepair
                        [] focus = "subscription" -> ST!ObservationAdvances /\ ST!RevisionOfSource
                        [] focus = "feedback" -> CF!ResultBelongs
                        [] OTHER -> TRUE
<1>1. BackgroundInv /\ [BackgroundNext]_backgroundVars => [Dropped]_backgroundVars
  <2> SUFFICES ASSUME BackgroundInv, BackgroundNext PROVE Dropped
    OBVIOUS
  <2>1. CASE focus = "helper"
    <3>1. HP!HelperNext
      BY <2>1 DEF BackgroundNext, Only
    <3> QED BY ParametersHold, <2>1, <3>1, AnswersFollow DEF BackgroundInv
  <2>2. CASE focus = "subscription"
    <3>1. ST!SubscriptionNext
      BY <2>2 DEF BackgroundNext, Only
    <3> QED BY ParametersHold, <2>2, <3>1, ObservationsAdvance DEF BackgroundInv
  <2>3. CASE focus = "feedback"
    <3>1. CF!FeedbackNext
      BY <2>3 DEF BackgroundNext, Only
    <3> QED BY ParametersHold, <2>3, <3>1, ResultsBelong DEF BackgroundInv
  <2>4. CASE focus \notin {"helper", "subscription", "feedback"}
    BY <2>4
  <2> QED BY <2>1, <2>2, <2>3, <2>4
<1> QED BY <1>1, BackgroundInductive, PTL DEF BackgroundSpec, LateAnswersAreDropped

=============================================================================
