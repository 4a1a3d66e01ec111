---------------------------- MODULE MCBackground ----------------------------
(***************************************************************************)
(* The components of the program that run in the background beside the     *)
(* session and share no state with each other: a disjoint sum.  A          *)
(* behaviour has one focus, the component it is about.  The components     *)
(* share one set of variables, as they are never in focus together; those  *)
(* not in use stay "off".  Every property is that of the component, and    *)
(* says nothing of a behaviour with another focus.                         *)
(***************************************************************************)
EXTENDS AtomicFile, Naturals, FiniteSets

CONSTANTS
  Focuses,                                                  \* the components a run is about
  Nodes, Groups, Listings, Worlds,                          \* NodeTest
  Outcomes, Concurrency, Limits, MaxTests,
  Readers, Admin, MaxEpoch, MaxFlights, MaxResets,          \* HelperProbe
  Urls, Bodies, MaxClock, Together,                         \* SubscriptionTask
  MaxOps, MaxConf, MaxRun,                                  \* ConnectionFeedback
  MaxChanges, MaxRoutes                        \* DomainRouting

\* nodes and subscriptions are what the user has; "Pending" and "Testing" are
\* states of a node without an outcome, "none" is no address
ASSUME BackgroundAssumption ==
  /\ IsFiniteSet(Nodes) /\ {"Pending", "Testing"} \cap Outcomes = {}
  /\ Concurrency \in Nat /\ MaxTests \in Nat
  /\ MaxEpoch \in Nat \ {0}
  /\ Urls # {} /\ "none" \notin Urls /\ Bodies # {} /\ MaxClock \in Nat
  /\ MaxOps \in Nat /\ MaxConf \in Nat /\ MaxRun \in Nat
  /\ MaxChanges \in Nat \ {0} /\ MaxRoutes \in Nat

\* the variables of the component in focus, in the order of its module
VARIABLES focus, v1, v2, v3, v4, v5, v6, v7

NT == INSTANCE NodeTest WITH
        world <- v1, starting <- v2, tests <- v3
UP == INSTANCE UpdateInstall WITH
        upAt <- v1, step <- v2, running <- v3, session <- v4, disk <- v5,
        touched <- v6, wanted <- v7
HP == INSTANCE HelperProbe WITH
        service <- v1, generation <- v2, flight <- v3, requests <- v4,
        reader <- v5, mutation <- v6, gone <- v7
ST == INSTANCE SubscriptionTask WITH
        clock <- v1, profiles <- v2, status <- v3, task <- v4, job <- v5,
        taskPermit <- v6, team <- v7
CF == INSTANCE ConnectionFeedback WITH
        world <- v1, shown <- v2, starter <- v3, probes <- v4, inspector <- v5,
        confPermit <- v6
DR == INSTANCE DomainRouting WITH
        doc <- v1, base <- v2, loaded <- v3, editor <- v4, query <- v5,
        routeFaults <- v6

\* the core's map: a group inside itself, a built-in entry, a name that is gone;
\* AI groups hold less than the rest
NodeListings ==
  {[members |-> [g \in {"GLOBAL", "group", "ai-group"} |->
      CASE g = "GLOBAL" -> {"group", "n2"}
        [] g = "group" -> {"group", "n1", "DIRECT", "missing"}
        [] g = "ai-group" -> {"n2"}],
    real |-> {"n1", "n2"}]}

NodeLimits == [kind \in {"manual", "ai"} |-> 2]

\* a run of the core under either mode: of the two kinds one has its scope, the
\* other has none, as if the core were gone
NodeWorlds ==
  {[mode |-> "manual", fixed |-> FALSE, policy |-> FALSE, run |-> 1, active |-> "a",
    chosen |-> 1, routing |-> "global"],
   [mode |-> "ai", fixed |-> FALSE, policy |-> TRUE, run |-> 1, active |-> "a",
    chosen |-> 2, routing |-> "global"]}

Teams == {{"refresh", "quota"}, {"import"}}

----------------------------------------------------------------------------
Off == "off"
\* the variables from the n-th on: not in use, left alone
Off7 == v7 = Off
Off4 == v4 = Off /\ v5 = Off /\ v6 = Off /\ Off7
Off1 == v1 = Off /\ v2 = Off /\ v3 = Off /\ Off4

From4 == <<v4, v5, v6, v7>>
From1 == <<v1, v2, v3, From4>>

FilesOff == Init /\ file = Default   \* an idle file; its properties hold of it

BackgroundInit ==
  /\ focus \in Focuses
  /\ \/ focus = "files" /\ Init /\ Off1
     \/ /\ FilesOff
        /\ \/ focus = "nodes" /\ NT!NodeTestInit /\ Off4
           \/ focus = "update" /\ UP!UpdateInit
           \/ focus = "helper" /\ HP!HelperInit
           \/ focus = "subscription" /\ ST!SubscriptionInit
           \/ focus = "feedback" /\ CF!FeedbackInit /\ Off7
           \/ focus = "routing" /\ DR!RoutingInit /\ Off7

backgroundVars == <<focus, vars, From1>>

\* a step of the component f leaves the file alone
Only(f) == focus = f /\ UNCHANGED <<focus, vars>>

BackgroundNext ==
  \/ focus = "files" /\ Next /\ UNCHANGED <<focus, From1>>
  \/ Only("nodes") /\ NT!NodeTestNext /\ UNCHANGED From4
  \/ Only("update") /\ UP!UpdateNext
  \/ Only("helper") /\ HP!HelperNext
  \/ Only("subscription") /\ ST!SubscriptionNext
  \/ Only("feedback") /\ CF!FeedbackNext /\ UNCHANGED v7
  \/ Only("routing") /\ DR!RoutingNext /\ UNCHANGED v7

BackgroundSpec ==
  /\ BackgroundInit /\ [][BackgroundNext]_backgroundVars
  /\ WF_backgroundVars(Only("nodes") /\ NT!WorkerProgress /\ UNCHANGED From4)
  /\ WF_backgroundVars(Only("feedback") /\ CF!FeedbackProgress /\ UNCHANGED v7)

----------------------------------------------------------------------------
\* Every variable of the component in focus has its type.
BackgroundTypeOK ==
  CASE focus = "files" -> TypeOK
    [] focus = "nodes" -> NT!NodeTestTypeOK
    [] focus = "update" -> UP!UpdateTypeOK
    [] focus = "helper" -> HP!HelperTypeOK
    [] focus = "subscription" -> ST!SubscriptionTypeOK
    [] focus = "feedback" -> CF!FeedbackTypeOK
    [] focus = "routing" -> DR!RoutingTypeOK

\* NodeTest: no more probes than the limit, and "Completed" is complete.
TestsAreHonest == focus = "nodes" => NT!ProbesBounded /\ NT!CompletedIsComplete

\* NodeTest: a test whose scope is gone frees the slot by itself.
Stale(i) == focus = "nodes" /\ NT!Stale(i)
StaleTestEnds == \A i \in 1..MaxTests : Stale(i) ~> ~Stale(i)

\* NodeTest: a cancelled test is Cancelled once its worker is gone.
CancelledEnds == focus = "nodes" => NT!CancelledEnds

\* UpdateInstall: an update loses neither the application nor a service, and
\* what is called undisturbed has been left undisturbed.
UpdateIsSafe ==
  focus = "update" => UP!AppSurvives /\ UP!ServicesSurvive /\ UP!UndisturbedIsTrue

\* SubscriptionTask: either the cancellation of a task wins or its commit, and
\* no two subscriptions have one address.
CommitsAreClean == focus = "subscription" => ST!CancelOrCommit /\ ST!UniqueUrls

\* SubscriptionTask: a usage belongs to the source the profile has.
UsageOfSource == focus = "subscription" => ST!UsageOfSource

\* Late answers are dropped.  HelperProbe: nobody is told of a helper that a
\* mutation has replaced.  SubscriptionTask: no answer turns an observation
\* back or writes a body of another source.  ConnectionFeedback: a result is
\* shown by the operation it was begun for.
LateAnswersAreDropped ==
  [][CASE focus = "helper" -> HP!AnswerFollowsRepair
       [] focus = "subscription" -> ST!ObservationAdvances /\ ST!RevisionOfSource
       [] focus = "feedback" -> CF!ResultBelongs
       [] OTHER -> TRUE]_backgroundVars

\* ConnectionFeedback: the window does not say "checking" for ever.
Checking == focus = "feedback" /\ v2.health = "Checking"
CheckingEnds == Checking ~> ~Checking

\* DomainRouting: "verified" is said of the document and the run of now, and
\* between changes the core has the routes of the document.
RoutesAreTrue == focus = "routing" => DR!VerifiedIsTrue /\ DR!RoutesAreLoaded

=============================================================================
