----------------------------- MODULE MCServices -----------------------------
(***************************************************************************)
(* The deletion of a profile, and services that share no state with it or  *)
(* with each other: the entry for the login, the download of a             *)
(* subscription, the local model route, the generation of an OpenAI policy,*)
(* the rounds of the enhanced failover, the choice of nodes, the           *)
(* acceptance of a TUN start, the files of the privileged helper, the      *)
(* System Proxy of macOS and Linux, the core as a child process, the       *)
(* version of its file, the configuration it runs and the programs started *)
(* through the proxy.  A disjoint sum, as in MCBackground: a behaviour has *)
(* one focus.  The components share one set of variables, as they are never*)
(* in focus together; those not in use stay "off", those of the deletion at*)
(* one initial state.                                                      *)
(***************************************************************************)
EXTENDS ProfileDeletion, FiniteSets, Sequences, TLC

CONSTANTS
  Parts,                                            \* the components a run is about
  TotalTime, RequestTime, IdleTime, MaxHops, Delays, Headers,   \* SubscriptionFetch
  Requests, MaxActive, MaxRequests, MaxEdits, MaxRevision,      \* LocalRoute
  MaxConf,                                                      \* PolicyTask
  Nodes, Recovery, MaxChanges, MaxRounds,                       \* StabilityRound
  MaxCandidates, BandwidthCandidates, SelectedNodes,            \* NodeRanking
  LocalTime, NetTime, MaxAttempts, MaxAdapters,                 \* TunStart
  Users, MaxCores,                                              \* HelperStaging
  Protocols, MaxFaults, MaxOutside,                             \* UnixProxy
  MaxRuns, MaxChecks,                                           \* CoreRun
  Callers, FlightTime, ErrorTime, MaxNow, MaxUpdates,           \* CoreProbe
  Commands, MaxSaves, MaxProcs, MaxTries                        \* ProgramProxy

\* what the proofs need to know of them
ASSUME RouteAssumption ==
  IsFiniteSet(Requests) /\ MaxActive \in Nat /\ MaxEdits \in Nat /\ MaxRevision \in Nat
ASSUME PolicyAssumption == MaxConf \in Nat
ASSUME CoreAssumption == MaxRuns \in Nat
ASSUME ProbeAssumption == MaxNow \in Nat /\ "none" \notin Callers
ASSUME FetchAssumption ==
  TotalTime \in Nat /\ RequestTime \in Nat /\ IdleTime \in Nat /\ Delays \subseteq Nat
ASSUME StabilityAssumption == Recovery \in Nat
ASSUME ProgramAssumption == MaxSaves \in Nat /\ "nobody" \notin Commands

\* the variables of the component in focus, in the order of its module
VARIABLES focus, v1, v2, v3, v4, v5, v6, v7, v8, v9, v10, v11, v12, v13

----------------------------------------------------------------------------
\* subscription-userinfo: none, one field, two, a value that is no number, one
\* that is given twice
UserInfos ==
  {<<>>, << <<"upload", "good">> >>, << <<"upload", "good">>, <<"total", "good">> >>,
   << <<"upload", "good">>, <<"total", "bad">> >>,
   << <<"upload", "good">>, <<"upload", "good">> >>}

\* NodeRanking: a pool of three nodes of one server, one of two and two more,
\* with names that are no nodes; and one with names given twice and changed keys
Proxy(name, server, print) == [name |-> name, server |-> server, print |-> print]
Pools ==
  {<<Proxy("a1", "s", "p1"), Proxy("a2", "s", "p1"), Proxy("DIRECT", "x", "p1"),
     Proxy("a3", "s", "p1"), Proxy("b", "t", "p1"), Proxy("HK", "t", "p1"),
     Proxy("c", "t", "p1"), Proxy("d", "t", "p1")>>,
   <<Proxy("a1", "t", "p2"), Proxy("b", "t", "p1"), Proxy("a1", "s", "p1"),
     Proxy("b", "s", "p2")>>}
PoolNames == {"a1", "a2", "a3", "b", "c", "d", "HK", "DIRECT"}
NamedRates == [n \in PoolNames |-> CASE n = "a3" -> 100 [] n = "a2" -> 25 [] OTHER -> 0]
\* quality; value with unknown prices allowed; value with a budget
PricePreferences ==
  {[value |-> FALSE, max |-> 0, unknown |-> FALSE,
    print |-> [n \in PoolNames |-> "none"], rate |-> [n \in PoolNames |-> 0]],
   [value |-> TRUE, max |-> 0, unknown |-> TRUE,
    print |-> [n \in PoolNames |-> IF n = "a1" THEN "p1" ELSE "none"],
    rate |-> [n \in PoolNames |-> IF n = "a1" THEN 400 ELSE 0]],
   [value |-> TRUE, max |-> 100, unknown |-> FALSE,
    print |-> [n \in PoolNames |-> CASE n = "a1" -> "p2" [] n = "b" -> "p1" [] OTHER -> "none"],
    rate |-> [n \in PoolNames |-> CASE n = "a1" -> 25 [] n = "b" -> 400 [] OTHER -> 0]]}
\* no answer, a fast one, one under the floor unless its bandwidth helps, one
\* that does not answer twice
ProbeAnswers ==
  {[first |-> 0, second |-> 0, mbps |-> 0], [first |-> 150, second |-> 150, mbps |-> 0],
   [first |-> 1200, second |-> 1200, mbps |-> 100], [first |-> 300, second |-> 0, mbps |-> 200]}

\* TunStart: an address; one by two aliases; a cycle; another name's; a refusal
Datagrams ==
  {[header |-> "good", hosts |-> {"asked"}, alias |-> <<>>],
   [header |-> "good", hosts |-> {"b"}, alias |-> ("asked" :> "a" @@ "a" :> "b")],
   [header |-> "good", hosts |-> {"c"}, alias |-> ("asked" :> "a" @@ "a" :> "asked")],
   [header |-> "good", hosts |-> {"b"}, alias |-> <<>>],
   [header |-> "servfail", hosts |-> {"asked"}, alias |-> <<>>]}
TransportErrors ==
  {[words |-> {"certificate", "eof", "tls"}, timeout |-> TRUE, connect |-> TRUE],
   [words |-> {"tls"}, timeout |-> FALSE, connect |-> TRUE],
   [words |-> {"tls", "eof"}, timeout |-> FALSE, connect |-> TRUE]}

\* HelperStaging: one configuration that is run, and one refused for each reason
RootConfig ==
  [ok |-> "yes", size |-> "fits", text |-> "yaml", blocked |-> {}, allowLan |-> "false",
   bind |-> "loopback", controller |-> "loopback", tun |-> TRUE, autoRoute |-> TRUE,
   strings |-> {[key |-> "path", text |-> "relative"], [key |-> "name", text |-> "absolute"]}]
RootConfigs ==
  {RootConfig, [RootConfig EXCEPT !.ok = "too"],
   [RootConfig EXCEPT !.size = "large"], [RootConfig EXCEPT !.text = "binary"],
   [RootConfig EXCEPT !.blocked = {"listeners"}], [RootConfig EXCEPT !.allowLan = "absent"],
   [RootConfig EXCEPT !.bind = "any"], [RootConfig EXCEPT !.controller = "any"],
   [RootConfig EXCEPT !.tun = FALSE], [RootConfig EXCEPT !.autoRoute = FALSE],
   [RootConfig EXCEPT !.strings = {[key |-> "path", text |-> "upwards"]}]}
UserConfigs == [u \in Users |-> IF u = "u1" THEN RootConfigs ELSE {RootConfig}]

\* UnixProxy: a Mac with a network never set up and one with a proxy of its own;
\* a Linux with none, with one that is off and with one that is on
Settings(server, on, bypass) ==
  [server |-> [p \in Protocols |-> server], on |-> [p \in Protocols |-> on], bypass |-> bypass]
UnixSettings ==
  [system \in {"macos", "linux"} |->
     IF system = "linux"
       THEN {[s \in {"gnome"} |-> Settings("none", FALSE, {})],
             [s \in {"gnome"} |-> Settings("theirs", FALSE, {"theirs"})],
             [s \in {"gnome"} |-> Settings("theirs", TRUE, {"theirs"})]}
       ELSE {[s \in {"wifi", "ethernet"} |->
                IF s = "wifi" THEN Settings("none", FALSE, {})
                ELSE Settings("theirs", TRUE, {})]}]

\* CoreProbe: a core, one that does not start, a newer one
CoreFiles == <<"v1", "broken", "v2">>

\* EffectiveConfig: a subscription with a message among its nodes, every way it
\* can be wrong, and one that has a group of the policy's name
Everything == {"ai", "shop", "bank", "rest"}
To(match, target) == [kind |-> "plain", match |-> match, target |-> target]
Group(name, type, members, own) ==
  [name |-> name, type |-> type, members |-> members, own |-> own, ours |-> {}]
Dns ==
  [f \in {"enable", "respect-rules", "listen", "nameserver", "default-nameserver",
          "fallback", "proxy-server-nameserver", "direct-nameserver", "other"} |-> "absent"]
Source ==
  [nodes |-> <<"n1", "message", "n2">>,
   groups |-> <<Group("PROXY", "url-test", <<"n1", "message", "n2">>, {"url"}),
                Group("GLOBAL", "select", <<"n1", "PROXY">>, {})>>,
   rules |-> <<To({"shop"}, "PROXY"), To({"ai", "bank"}, "openai-group"),
               [kind |-> "no-resolve", match |-> {"bank"}, target |-> "openai-group"],
               To(Everything, "n2")>>,
   subRules |-> {"sub"}, dns |-> Dns, ipv6 |-> "absent", tun |-> "theirs",
   findsProcesses |-> FALSE, cache |-> {"store-fake-ip"}, wrong |-> {},
   fields |-> [f \in {"listeners", "allow-lan", "mode", "keep-alive-idle", "other"} |-> "theirs"]]
Sources ==
  {Source, [Source EXCEPT !.fields = [f \in {"script", "secret"} |-> "theirs"]],
   [Source EXCEPT !.ipv6 = "wrong"], [Source EXCEPT !.ipv6 = "false"],
   [Source EXCEPT !.dns["listen"] = "any", !.dns["nameserver"] = "own",
                  !.dns["default-nameserver"] = "empty", !.dns["other"] = "own"],
   [Source EXCEPT !.dns["respect-rules"] = "true"],
   [Source EXCEPT !.dns["respect-rules"] = "true", !.dns["proxy-server-nameserver"] = "own"],
   [Source EXCEPT !.dns["direct-nameserver"] = "wrong"],
   [Source EXCEPT !.wrong = {"root"}], [Source EXCEPT !.wrong = {"profile"}, !.cache = {}],
   [Source EXCEPT !.wrong = {"dns"}], [Source EXCEPT !.wrong = {"global"}],
   [Source EXCEPT !.wrong = {"proxies"}, !.nodes = <<>>],
   [Source EXCEPT !.wrong = {"proxy-groups"}, !.groups = <<>>],
   [Source EXCEPT !.wrong = {"rules"}, !.rules = <<>>],
   [Source EXCEPT !.rules = <<To(Everything, "openai-group")>>,
                  !.groups = <<Group("openai-group", "fallback", <<"n2">>, {}),
                               Group("PROXY", "select", <<"openai-group", "message">>, {"lazy"})>>],
   [Source EXCEPT !.rules = <<To({"shop"}, "message"), To(Everything, "DIRECT")>>],
   [Source EXCEPT !.nodes = <<"n2">>, !.rules = <<To({"shop"}, "PROXY")>>,
                  !.groups = <<Group("PROXY", "fallback", <<"n2">>, {})>>]}
Entry(on, rule) == [on |-> on, rule |-> rule]
Ai(nodes, max, manual, enhanced) ==
  [enabled |-> TRUE, nodes |-> nodes, max |-> max, manual |-> manual, enhanced |-> enhanced,
   affordable |-> {"n1", "n2", "gone", "far"}, validPrices |-> TRUE]
NoAi == [Ai(<<"n1">>, 3, "none", FALSE) EXCEPT !.enabled = FALSE]
NoRoutes == [on |-> FALSE, domains |-> <<>>, target |-> "none"]
\* what is refused at once; the policies; the rules with the routes
EverySetting ==
  [ports : {"same", "distinct"}, fixedOutbound : BOOLEAN, tun : {FALSE}, mode : {"manual"},
   ai : {Ai(<<"n1">>, 3, "none", FALSE)}, user : {<<>>}, routes : {NoRoutes}] \union
  [ports : {"distinct"}, fixedOutbound : {FALSE}, tun : BOOLEAN, mode : {"ai"},
   ai : {NoAi, Ai(<<"n1", "gone", "n1", "n2">>, 2, "n2", FALSE),
         Ai(<<"n1", "n2">>, 0, "n2", FALSE), Ai(<<"n2", "n1">>, 12, "n1", TRUE),
         Ai(<<"message", "far">>, 3, "none", FALSE),
         [Ai(<<"n1", "n2">>, 3, "n1", FALSE) EXCEPT !.affordable = {"n2"}],
         [Ai(<<"n1">>, 3, "none", FALSE) EXCEPT !.validPrices = FALSE]},
   user : {<<>>, <<Entry(TRUE, To({"bank"}, "openai-group"))>>},
   routes : {NoRoutes, [on |-> TRUE, domains |-> <<{"shop"}>>, target |-> "openai-group"]}] \union
  [ports : {"distinct"}, fixedOutbound : {FALSE}, tun : {FALSE}, mode : {"ai"},
   ai : {NoAi, Ai(<<"n1", "gone">>, 3, "none", FALSE)},
   user : {<<>>,
           <<Entry(FALSE, To({"ai"}, "REJECT")), Entry(TRUE, To({"shop", "ai"}, "PROXY")),
             Entry(FALSE, To({"bank"}, "gone"))>>,
           <<Entry(TRUE, To({"bank"}, "gone"))>>,
           <<Entry(FALSE, [kind |-> "unreadable", match |-> {"shop"}, target |-> "PROXY"])>>,
           <<Entry(TRUE, [kind |-> "process", match |-> {"shop"}, target |-> "PASS"])>>,
           <<Entry(TRUE, [kind |-> "sub-rule", match |-> {"bank"}, target |-> "sub"])>>,
           <<Entry(TRUE, To({"bank"}, "message"))>>},
   routes : {NoRoutes, [on |-> TRUE, domains |-> <<{"bank"}, {"ai"}>>, target |-> "PROXY"],
             [on |-> TRUE, domains |-> <<{"shop"}>>, target |-> "none"],
             [on |-> TRUE, domains |-> <<{"shop"}>>, target |-> "GLOBAL"]}]

\* ProgramProxy: two entries of one application on a Mac; on Windows a list of an
\* old schema with one known by its path only, and a second that may be added
Entries == {"e1", "e2"}
ProgramLists ==
  [s \in {"macos", "windows"} |->
     {[rev |-> 0, old |-> s = "windows",
       app |-> [e \in Entries |-> IF e = "e1" \/ s = "macos" THEN "app" ELSE "unborn"],
       paths |-> IF s = "macos" THEN {} ELSE {"e1"}]}]
\* on a Mac nothing after the reservation depends on the core
CoreStates == [s \in {"macos", "windows"} |-> IF s = "macos" THEN {1} ELSE {0, 1, 2}]

LE == INSTANCE LoginEntry WITH
        os <- v1, pref <- v2, entry <- v3, allowed <- v4, removing <- v5, marker <- v6,
        queued <- v7, job <- v8, answer <- v9
SF == INSTANCE SubscriptionFetch WITH
        fetchOp <- v1, plan <- v2, call <- v3, retry <- v4, now <- v5, sent <- v6,
        stopped <- v7, told <- v8
LR == INSTANCE LocalRoute WITH
        routeDoc <- v1, config <- v2, lease <- v3, relay <- v4, request <- v5, stats <- v6,
        command <- v7, lateEdit <- v8, attachable <- v9
PT == INSTANCE PolicyTask WITH
        manager <- v1, worker <- v2, canceller <- v3, disabler <- v4, conf <- v5,
        genPermit <- v6, bench <- v7
SR == INSTANCE StabilityRound WITH
        intent <- v1, group <- v2, health <- v3, tick <- v4, watched <- v5, rounds <- v6,
        chooser <- v7, choicePermit <- v8
NR == INSTANCE NodeRanking WITH
        Documents <- Pools, Reserved <- {"DIRECT"}, Eligible <- PoolNames \ {"HK", "DIRECT"},
        NameRate <- NamedRates, Prices <- PricePreferences, Measures <- ProbeAnswers,
        Manuals <- {"none", "a1", "b"},
        rankAt <- v1, document <- v2, prices <- v3, measured <- v4, ranking <- v5,
        manual <- v6, enhanced <- v7, aiGroup <- v8
TS == INSTANCE TunStart WITH
        Responses <- Datagrams, Errors <- TransportErrors,
        accepting <- v1, adapter <- v2, coreUp <- v3, leaving <- v4, localLeft <- v5,
        netLeft <- v6, checks <- v7
HS == INSTANCE HelperStaging WITH
        Submitted <- UserConfigs,
        handled <- v1, child <- v2, files <- v3, lines <- v4, unread <- v5, settling <- v6
UP == INSTANCE UnixProxy WITH
        Originals <- UnixSettings, Gnome <- "gnome",
        unix <- v1, settings <- v2, active <- v3, saved <- v4, op <- v5, users <- v6,
        edited <- v7, lost <- v8, holes <- v9, faults <- v10, outside <- v11
CR == INSTANCE CoreRun WITH
        phase <- v1, child <- v2, startedAt <- v3, lastError <- v4, cores <- v5,
        start <- v6, stops <- v7, check <- v8, gate <- v9, cancelled <- v10, runs <- v11,
        checked <- v12, reaped <- v13
CP == INSTANCE CoreProbe WITH
        Content <- CoreFiles,
        onDisk <- v1, files <- v2, backup <- v3, kept <- v4, flight <- v5, caller <- v6,
        clock <- v7, phaseOf <- v8, seen <- v9
EC == INSTANCE EffectiveConfig WITH
        Documents <- Sources, LocalSettings <- EverySetting, Destinations <- Everything,
        OpenAiMatch <- {"ai"}, Metadata <- {"message"}, Eligible <- {"n1", "n2", "gone"},
        given <- v1, chosen <- v2, outcome <- v3, built <- v4
PP == INSTANCE ProgramProxy WITH
        Apps <- {"app"}, ProgramProxySwitch <- TRUE, Lists <- ProgramLists, Cores <- CoreStates,
        host <- v1, doc <- v2, handles <- v3, procs <- v4, tries <- v5, core <- v6,
        holder <- v7, command <- v8

\* One pair of model values serves for the nodes of StabilityRound and for the
\* requests, callers and commands of LocalRoute, CoreProbe and ProgramProxy:
\* none of them tells the two apart.
Interchangeable == Permutations(Nodes)

----------------------------------------------------------------------------
Off == "off"
\* the variables from the n-th on: not in use, left alone
Off12 == v12 = Off /\ v13 = Off
Off10 == v10 = Off /\ v11 = Off /\ Off12
Off9 == v9 = Off /\ Off10
Off8 == v8 = Off /\ Off9
Off7 == v7 = Off /\ Off8
Off5 == v5 = Off /\ v6 = Off /\ Off7
Off1 == v1 = Off /\ v2 = Off /\ v3 = Off /\ v4 = Off /\ Off5

From12 == <<v12, v13>>
From10 == <<v10, v11, From12>>
From9 == <<v9, From10>>
From8 == <<v8, From9>>
From7 == <<v7, From8>>
From5 == <<v5, v6, From7>>
From1 == <<v1, v2, v3, v4, From5>>

ProfilesOff ==
  /\ Init /\ where = [p \in Profiles |-> "here"] /\ state = Cleared /\ pinned = NoProfile

ServicesInit ==
  /\ focus \in Parts
  /\ \/ focus = "profiles" /\ Init /\ Off1
     \/ /\ ProfilesOff
        /\ \/ focus = "login" /\ LE!LoginInit /\ Off10
           \/ focus = "fetch" /\ SF!FetchInit /\ Off9
           \/ focus = "route" /\ LR!RouteInit /\ Off10
           \/ focus = "policy" /\ PT!PolicyInit /\ Off8
           \/ focus = "stability" /\ SR!StabilityInit /\ Off9
           \/ focus = "ranking" /\ NR!RankInit /\ Off9
           \/ focus = "tunstart" /\ TS!TunStartInit /\ Off8
           \/ focus = "staging" /\ HS!StagingInit /\ Off7
           \/ focus = "unixproxy" /\ UP!UnixInit /\ Off12
           \/ focus = "corerun" /\ CR!CoreRunInit
           \/ focus = "coreprobe" /\ CP!ProbeInit /\ Off10
           \/ focus = "effective" /\ EC!ConfigInit /\ Off5
           \/ focus = "programs" /\ PP!ProgramInit /\ Off9

servicesVars == <<focus, vars, From1>>

\* a step of the component f leaves the deletion alone
Only(f) == focus = f /\ UNCHANGED <<focus, vars>>

ServicesNext ==
  \/ focus = "profiles" /\ Next /\ UNCHANGED <<focus, From1>>
  \/ Only("login") /\ LE!LoginNext /\ UNCHANGED From10
  \/ Only("fetch") /\ SF!FetchNext /\ UNCHANGED From9
  \/ Only("route") /\ LR!RouteNext /\ UNCHANGED From10
  \/ Only("policy") /\ PT!PolicyNext /\ UNCHANGED From8
  \/ Only("stability") /\ SR!StabilityNext /\ UNCHANGED From9
  \/ Only("ranking") /\ NR!RankNext /\ UNCHANGED From9
  \/ Only("tunstart") /\ TS!TunStartNext /\ UNCHANGED From8
  \/ Only("staging") /\ HS!StagingNext /\ UNCHANGED From7
  \/ Only("unixproxy") /\ UP!UnixNext /\ UNCHANGED From12
  \/ Only("corerun") /\ CR!CoreRunNext
  \/ Only("coreprobe") /\ CP!ProbeNext /\ UNCHANGED From10
  \/ Only("effective") /\ EC!ConfigNext /\ UNCHANGED From5
  \/ Only("programs") /\ PP!ProgramNext /\ UNCHANGED From9

ServicesSpec == ServicesInit /\ [][ServicesNext]_servicesVars

----------------------------------------------------------------------------
\* Every variable of the component in focus has its type; a benchmark core has
\* its task.
ServicesTypeOK ==
  CASE focus = "profiles" -> TypeOK
    [] focus = "login" -> LE!LoginTypeOK
    [] focus = "fetch" -> SF!FetchTypeOK
    [] focus = "route" -> LR!RouteTypeOK
    [] focus = "policy" -> PT!PolicyTypeOK /\ PT!BenchmarkHasTask
    [] focus = "stability" -> SR!StabilityTypeOK
    [] focus = "ranking" -> NR!RankTypeOK
    [] focus = "tunstart" -> TS!TunStartTypeOK
    [] focus = "staging" -> HS!StagingTypeOK
    [] focus = "unixproxy" -> UP!UnixTypeOK
    [] focus = "corerun" -> CR!CoreRunTypeOK
    [] focus = "coreprobe" -> CP!ProbeTypeOK
    [] focus = "effective" -> EC!ConfigTypeOK
    [] focus = "programs" -> PP!ProgramTypeOK

\* What is changed outside the application can be given back.  LoginEntry: a
\* command that reports a failure has put back what it found, and a migration
\* neither revives an entry nor loses one.  LocalRoute: the configuration of
\* the other program; no request is cut, each is counted once.
TakenIsReversible ==
  /\ focus = "login" => LE!SaveIsWhole /\ LE!MigrationRevivesNothing /\ LE!MigrationKeepsLogin
  /\ focus = "route" => LR!TakenCanBeGivenBack /\ LR!NoRequestIsCut /\ LR!CountedOnce

\* What runs.  TunStart: a start is accepted on what one adapter has answered and
\* a target has, a failed one leaves no core.  HelperStaging: a core that runs as
\* root was signed and runs what its own request brought.  CoreRun: no core is
\* lost, the phase is true.  CoreProbe: a version kept is that of its file.
\* ProgramProxy: an entry runs once, its handle is its own.
RunsAreSound ==
  /\ focus = "tunstart" => TS!AcceptanceIsEarned
  /\ focus = "staging" => HS!RunsWhatWasChecked
  /\ focus = "corerun" => CR!NoCoreIsLost /\ CR!PhaseIsTrue
  /\ focus = "coreprobe" => CP!KeptIsTrue
  /\ focus = "programs" => PP!EntryRunsOnce /\ PP!HandlesAreOwn

\* What is taken was earned, and what is written leads somewhere.
\* SubscriptionFetch: one retry at most, every answer is one the server gave.
\* NodeRanking: a choice of measured, diverse nodes, of which later builds keep
\* what is still fit.  TunStart: no answer is misread.  UnixProxy: what leads to
\* the local port is in a snapshot, a restore gives it back.  EffectiveConfig:
\* rules come in their order, nothing refers to what is gone.
ResultsAreSound ==
  /\ focus = "fetch" => SF!RequestsAreFew /\ SF!AnswersAreSound
  /\ focus = "ranking" => NR!RankingIsSound /\ NR!GroupIsSafe
  /\ focus = "tunstart" => TS!AnswersAreRead
  /\ focus = "unixproxy" => UP!LedIsCovered /\ UP!UsersSettingsReturn
  /\ focus = "effective" => /\ EC!PrecedenceHolds /\ EC!ReferencesResolve
                             /\ EC!OpenAiIsGuarded /\ EC!NothingIsExposed

\* The steps of the services: an operation on the login entry changes nothing it
\* must not, no request leaves late, the route rewrites its own keys only, a
\* ranking is applied to the configuration it was measured for, an exit is
\* selected by what is configured at that moment, a failed node is not fit again
\* before its time, a target that answered is not asked again, only the directory
\* of the user served is touched, no core runs unchecked, a version is told of
\* the call that asked for it, no list of programs is overwritten by an older one,
\* an automatic resume of the System Proxy takes it from nobody.
StepsAreCareful ==
  [][ /\ focus = "login" => LE!LoginStepOK
      /\ focus = "fetch" => SF!NothingSentLate
      /\ focus = "route" => LR!OnlyOurKeys
      /\ focus = "policy" => PT!RankingIsCurrent
      /\ focus = "stability" => SR!SwitchIsCurrent /\ SR!CooldownIsKept
      /\ focus = "tunstart" => TS!RetriesAreCareful
      /\ focus = "staging" => HS!StagingStepOK
      /\ focus = "unixproxy" => UP!ResumeIsWelcome
      /\ focus = "corerun" => CR!OnlyCheckedCoresRun
      /\ focus = "coreprobe" => CP!AnswersAreOfTheCall
      /\ focus = "programs" => PP!ProgramStepOK ]_servicesVars

=============================================================================
