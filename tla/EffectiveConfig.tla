--------------------------- MODULE EffectiveConfig ---------------------------
(***************************************************************************)
(* The configuration the core runs (effective.rs): built from the source   *)
(* of a revision and the local settings, never from an earlier build.  The *)
(* fields that open or control the core are the settings' own, the entries *)
(* of the source are cleaned, the OpenAI group, the user's rules and the   *)
(* domain routes are put in front, in this order, so that the last comes   *)
(* first.  A rule matches a set of destinations.                           *)
(***************************************************************************)
EXTENDS Integers, Sequences, SequencesExt

CONSTANTS
  Documents,       \* sources of revisions
  LocalSettings,   \* local settings, with the policy of the profile
  Destinations,    \* what rules tell apart
  OpenAiMatch,     \* the destinations of OPENAI_RULES
  Metadata,        \* names of nodes that only carry a message of the subscription
  Eligible         \* names of exactly one, supported region

VARIABLES
  given, chosen,   \* the source and the settings of this build
  outcome,         \* "none" | "refused" | "built"
  built            \* the configuration, if it is built

configVars == <<given, chosen, outcome, built>>

OpenAi == "openai-group"
Builtins ==
  {"DIRECT", "REJECT", "REJECT-DROP", "COMPATIBLE", "PASS", "PASS-RULE", "GLOBAL"}

Rule(kind, match, target) == [kind |-> kind, match |-> match, target |-> target]
Names(items) == {items[i].name : i \in DOMAIN items}

\* the policy counts in the AI mode and when it is enabled
PolicyOn(local) == local.mode = "ai" /\ local.ai.enabled

----------------------------------------------------------------------------
\* the fields that are removed, and those the settings write
Controlled ==
  {"port", "socks-port", "redir-port", "tproxy-port", "external-controller-unix",
   "external-controller-pipe", "external-controller-tls", "external-controller-cors",
   "external-ui", "external-ui-url", "authentication", "skip-auth-prefixes",
   "lan-allowed-ips", "lan-disallowed-ips", "listeners", "tunnels"}
Written == {"mixed-port", "allow-lan", "bind-address", "external-controller", "secret", "mode"}
Defaulted == {"keep-alive-idle", "keep-alive-interval", "disable-keep-alive"}

\* fields is a function from those that are there to where they come from
OwnFields(fields) ==
  [f \in (DOMAIN fields \ Controlled) \union Written \union Defaulted |->
     IF f \in Written \/ f \notin DOMAIN fields THEN "ours" ELSE fields[f]]

----------------------------------------------------------------------------
\* prepare_tun_dns: a field is "absent" (or null), a value, or "wrong"; a list
\* may be empty
Lists ==
  {"nameserver", "default-nameserver", "fallback", "proxy-server-nameserver", "direct-nameserver"}
Lacks(dns, list) == dns[list] \in {"absent", "empty"}

DnsIsUsable(dns) ==
  /\ \A field \in {"enable", "respect-rules", "listen"} \union Lists : dns[field] # "wrong"
  /\ dns["respect-rules"] = "true" => ~Lacks(dns, "proxy-server-nameserver")

\* an inner server for the hijacked queries, that listens nowhere
PreparedDns(dns) ==
  [field \in DOMAIN dns |->
     CASE field = "enable" -> "true"
       [] field = "listen" -> "nowhere"
       [] field \in {"nameserver", "default-nameserver"} ->
            IF Lacks(dns, field) THEN "default" ELSE dns[field]
       [] OTHER -> dns[field]]

\* the section tun of the source is replaced; the core's default is IPv6
OwnTun(source, local) ==
  IF ~local.tun THEN "disabled" ELSE IF source.ipv6 = "false" THEN "ipv4" ELSE "ipv6"

\* normalize_proxy_groups: nodes that are messages leave the nodes and the
\* groups; automatic groups get the probe parameters they lack
Missing(group) ==
  IF group.type \notin {"url-test", "fallback"} THEN {}
  ELSE ({"interval", "timeout", "max-failed-times", "lazy"}
          \union (IF "url" \in group.own THEN {} ELSE {"url", "expected-status"})
          \union (IF group.type = "url-test" THEN {"tolerance"} ELSE {})) \ group.own

Cleaned(source) ==
  LET messages == Metadata \intersect ToSet(source.nodes)
      IsNode(name) == name \notin messages
  IN  [source EXCEPT
         !.nodes = SelectSeq(@, IsNode),
         !.groups = [i \in DOMAIN @ |->
            [@[i] EXCEPT !.members = SelectSeq(@, IsNode), !.ours = Missing(source.groups[i])]]]

----------------------------------------------------------------------------
\* apply_openai_policy: the chosen nodes that are here, eligible and allowed
\* by their prices (NodeRanking has the prices), each once, up to the limit
Limit(ai) == IF ai.max < 1 THEN 1 ELSE IF ai.max > 10 THEN 10 ELSE ai.max
Selected(config, ai) ==
  LET IsFit(name) == name \in ToSet(config.nodes) \intersect Eligible \intersect ai.affordable
      Take(taken, name) ==
        IF Len(taken) < Limit(ai) /\ name \notin ToSet(taken) THEN Append(taken, name) ELSE taken
  IN  FoldLeft(Take, <<>>, SelectSeq(ai.nodes, IsFit))

\* without the enhanced strategy its manual choice is tried first
Preferred(nodes, ai) ==
  LET IsAnother(name) == name # ai.manual
  IN  IF ~ai.enhanced /\ ai.manual \in ToSet(nodes)
        THEN <<ai.manual>> \o SelectSeq(nodes, IsAnother) ELSE nodes

\* the enhanced strategy selects by itself, and nothing left rejects
OpenAiGroup(config, ai) ==
  LET nodes == Preferred(Selected(config, ai), ai)
      selects == ai.enhanced \/ nodes = <<>>
  IN  [name |-> OpenAi, type |-> IF selects THEN "select" ELSE "fallback",
       members |-> IF selects THEN Append(nodes, "REJECT") ELSE nodes,
       own |-> {},
       ours |-> {"url", "interval", "lazy", "timeout", "max-failed-times", "expected-status",
                 "empty-fallback"}]

InGlobal(group) ==
  IF group.name = "GLOBAL" /\ OpenAi \notin ToSet(group.members)
    THEN [group EXCEPT !.members = <<OpenAi>> \o @] ELSE group

\* a rule that ends in a parameter is not seen to name the group
NotClaiming(rule) == rule.kind = "no-resolve" \/ rule.target # OpenAi

\* its group replaces one of that name, stands first and in GLOBAL
WithOpenAi(config, local) ==
  LET NotOurs(group) == group.name # OpenAi
      others == SelectSeq(config.groups, NotOurs)
  IN  IF ~PolicyOn(local) THEN config
      ELSE [config EXCEPT
              !.groups = <<OpenAiGroup(config, local.ai)>>
                           \o [i \in DOMAIN others |-> InGlobal(others[i])],
              !.rules = <<Rule("plain", OpenAiMatch, OpenAi)>> \o SelectSeq(@, NotClaiming)]

\* user_rules::merge_into_config: a rule that cannot be read refuses, and one
\* whose target is missing, unless it is switched off
Targets(config) == Builtins \union ToSet(config.nodes) \union Names(config.groups)
Resolves(rule, config) ==
  IF rule.kind = "sub-rule" THEN rule.target \in config.subRules ELSE rule.target \in Targets(config)

Enabled(rules) ==
  LET IsOn(entry) == entry.on IN [i \in DOMAIN SelectSeq(rules, IsOn) |-> SelectSeq(rules, IsOn)[i].rule]
UserRulesFit(config, rules) ==
  /\ \A i \in DOMAIN rules : rules[i].rule.kind # "unreadable"
  /\ \A i \in DOMAIN Enabled(rules) : Resolves(Enabled(rules)[i], config)
WithUserRules(config, rules) ==
  [config EXCEPT !.rules = Enabled(rules) \o @,
     !.findsProcesses = @ \/ \E i \in DOMAIN Enabled(rules) : Enabled(rules)[i].kind = "process"]

\* domain_routing::merge: a target group that is missing rejects
RouteTarget(config, routes) ==
  IF routes.target \in Names(config.groups) \ {"DIRECT", "REJECT", "GLOBAL"} THEN routes.target ELSE "REJECT"
WithRoutes(config, routes) ==
  IF ~routes.on THEN config
  ELSE [config EXCEPT !.rules =
          [i \in DOMAIN routes.domains |-> Rule("plain", routes.domains[i], RouteTarget(config, routes))] \o @]

----------------------------------------------------------------------------
\* the sections whose type is wrong matter to those who write into them; what
\* reads a section of the wrong type finds it empty
ShapeFits(source, local) ==
  /\ source.wrong \intersect {"root", "profile"} = {}
  /\ local.tun => "dns" \notin source.wrong
  /\ PolicyOn(local) => source.wrong \intersect {"proxies", "proxy-groups", "global", "rules"} = {}
  /\ local.user # <<>> \/ local.routes.on => "rules" \notin source.wrong

\* build_effective_config_with_policy; a fixed outbound of an old version
\* refuses (require_profile), as prices that are out of their range
Usable(source, local) ==
  /\ local.ports = "distinct" /\ "script" \notin DOMAIN source.fields /\ ~local.fixedOutbound
  /\ ShapeFits(source, local)
  /\ local.tun => DnsIsUsable(source.dns) /\ source.ipv6 # "wrong"
  /\ PolicyOn(local) => local.ai.validPrices
  /\ UserRulesFit(WithOpenAi(Cleaned(source), local), local.user)
  /\ local.routes.on => local.routes.target # "none"

Effective(source, local) ==
  LET ready == WithUserRules(WithOpenAi(Cleaned(source), local), local.user)
  IN  [WithRoutes(ready, local.routes) EXCEPT
         !.fields = OwnFields(@),
         !.tun = OwnTun(source, local),
         !.cache = @ \union {"store-selected"},
         !.dns = IF local.tun THEN PreparedDns(@) ELSE @]

ConfigInit ==
  /\ given \in Documents /\ chosen \in LocalSettings
  /\ outcome = "none" /\ built = given

Build ==
  /\ outcome = "none"
  /\ IF Usable(given, chosen)
       THEN outcome' = "built" /\ built' = Effective(given, chosen)
       ELSE outcome' = "refused" /\ UNCHANGED built
  /\ UNCHANGED <<given, chosen>>

\* another revision, other settings: built anew
Edit ==
  /\ outcome # "none" /\ outcome' = "none"
  /\ \/ given' \in Documents /\ UNCHANGED chosen
     \/ chosen' \in LocalSettings /\ UNCHANGED given
  /\ built' = given'

ConfigNext == Build \/ Edit

ConfigTypeOK ==
  /\ given \in Documents /\ chosen \in LocalSettings
  /\ outcome \in {"none", "refused", "built"}
  /\ IF outcome = "built" THEN DOMAIN built = DOMAIN given ELSE built = given

----------------------------------------------------------------------------
IsBuilt == outcome = "built"

\* the target of the first rule that matches
Decides(rules, d) ==
  LET hits == {i \in DOMAIN rules : d \in rules[i].match}
  IN  IF hits = {} THEN "none"
      ELSE rules[CHOOSE i \in hits : \A j \in hits : i <= j].target

\* The first rule that matches decides: the routes of domains, the user's rules
\* that are on, those for OpenAI, the subscription's that do not claim its group.
PrecedenceHolds ==
  IsBuilt => \A d \in Destinations :
    LET IsOn(entry) == entry.on
        mine == SelectSeq(chosen.user, IsOn)
        user == Decides([i \in DOMAIN mine |-> mine[i].rule], d)
        theirs == IF PolicyOn(chosen) THEN SelectSeq(given.rules, NotClaiming) ELSE given.rules
    IN  Decides(built.rules, d) =
          IF chosen.routes.on /\ (\E i \in DOMAIN chosen.routes.domains : d \in chosen.routes.domains[i])
            THEN RouteTarget(built, chosen.routes)
          ELSE IF user # "none" THEN user
          ELSE IF PolicyOn(chosen) /\ d \in OpenAiMatch THEN OpenAi
          ELSE Decides(theirs, d)

\* What resolved in the source resolves in the build: no member of a group and
\* no rule is left that names what has been taken away.  Rules of a source that
\* lead to a message are left as they are: the core refuses them.
ReferencesResolve ==
  LET Sound(config, rules) ==
        /\ \A i \in DOMAIN config.groups :
             /\ ToSet(config.groups[i].members) \subseteq Targets(config)
             /\ \A j \in DOMAIN config.groups : config.groups[i].name = config.groups[j].name => i = j
        /\ \A i \in DOMAIN rules : Resolves(rules[i], config)
      Real(rule) == rule.target \notin Metadata
  IN  IsBuilt /\ Sound(given, given.rules) => Sound(built, SelectSeq(built.rules, Real))

\* OpenAI traffic goes to chosen nodes that are there and can be afforded, or
\* nowhere: the group is never left empty, and no group of the source is it.
OpenAiIsGuarded ==
  IsBuilt /\ PolicyOn(chosen) =>
    LET group == built.groups[1] IN
    /\ group.name = OpenAi /\ \A i \in DOMAIN built.groups : built.groups[i].name = OpenAi => i = 1
    /\ group.members # <<>>
    /\ ToSet(group.members) \subseteq
         {"REJECT"} \union (ToSet(given.nodes) \intersect ToSet(chosen.ai.nodes)
                              \intersect chosen.ai.affordable)

\* Nothing of the source opens or controls the core.  A TUN gets a name server
\* that listens nowhere and never resolves its nodes through themselves; a
\* probe of the subscription's own keeps its own status.
NothingIsExposed ==
  IsBuilt =>
    /\ \A f \in DOMAIN built.fields : f \in Controlled \union Written => built.fields[f] = "ours"
    /\ built.tun = "disabled" <=> ~chosen.tun
    /\ chosen.tun =>
         /\ built.dns["listen"] = "nowhere" /\ built.dns["enable"] = "true"
         /\ \A list \in {"nameserver", "default-nameserver"} :
              IF Lacks(given.dns, list) THEN built.dns[list] = "default"
              ELSE built.dns[list] = given.dns[list]
         /\ built.dns["respect-rules"] = "true" => ~Lacks(built.dns, "proxy-server-nameserver")
    /\ \A i \in DOMAIN built.groups : "url" \in built.groups[i].own =>
         "expected-status" \notin built.groups[i].ours
=============================================================================
