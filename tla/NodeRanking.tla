------------------------------ MODULE NodeRanking ------------------------------
(***************************************************************************)
(* From the nodes of a subscription to the group OpenAI traffic uses: the  *)
(* candidates (extract_candidates, openai_cost.rs), their measurements and *)
(* ranking (benchmark_nodes), the choice of diverse servers, and, at every *)
(* later build of the running configuration, the group that is left of the *)
(* choice (apply_openai_policy) once nodes and prices have changed.        *)
(*                                                                         *)
(* An entry of a document is a record of its name, server and fingerprint; *)
(* what is read from a name (region, rate) is given by constants.  Times   *)
(* are milliseconds, scores tenths, rates hundredths; 0 is "none".         *)
(***************************************************************************)
EXTENDS Integers, SequencesExt

CONSTANTS
  Documents,       \* the proxies of a revision: sequences of entries
  Reserved,        \* names of no node: builtin, blank or metadata
  Eligible,        \* names of exactly one, supported region
  NameRate,        \* the rate a name states, or 0
  Prices,          \* cost preferences
  Measures,        \* answers to the probes of one node
  Manuals,         \* nodes of retired manual choices, and "none"
  MaxCandidates, BandwidthCandidates, SelectedNodes

VARIABLES
  rankAt,          \* how far the pipeline has come
  document,        \* the proxies of the active revision
  prices,          \* the cost preferences of the profile
  measured,        \* what the probes of each candidate answered
  ranking,         \* the nodes of the policy, best first
  manual,          \* the node of the retired manual choice
  enhanced,        \* the enhanced strategy is available and chosen
  aiGroup          \* the members of the group, and its kind

rankVars == <<rankAt, document, prices, measured, ranking, manual, enhanced, aiGroup>>

Names == UNION {{d[i].name : i \in DOMAIN d} : d \in Documents}
NoGroup == [kind |-> "none", members |-> <<>>]

RankInit ==
  /\ rankAt = "idle" /\ document \in Documents /\ prices \in Prices
  /\ measured = <<>> /\ ranking = <<>> /\ manual = "none" /\ aiGroup = NoGroup
  /\ enhanced \in BOOLEAN

----------------------------------------------------------------------------
(* Candidates and their costs.                                             *)

\* the first entry of each name that names a node
Firsts(doc) ==
  {i \in DOMAIN doc : doc[i].name \notin Reserved
                        /\ \A j \in 1..(i - 1) : doc[j].name # doc[i].name}
Entry(doc, name) == doc[CHOOSE i \in Firsts(doc) : doc[i].name = name]
Extracted(doc) == {doc[i].name : i \in Firsts(doc)}

\* a price set by hand belongs to the node it was set for; the name's own
\* rate comes second
Rate(doc, costs, name) ==
  IF costs.print[name] # "none" /\ costs.print[name] = Entry(doc, name).print
    THEN costs.rate[name] ELSE NameRate[name]

Allowed(doc, costs, name) ==
  \/ ~costs.value
  \/ /\ Rate(doc, costs, name) # 0
     /\ costs.max = 0 \/ Rate(doc, costs, name) <= costs.max
  \/ Rate(doc, costs, name) = 0 /\ costs.unknown

Fit(doc, costs) ==
  {n \in Extracted(doc) : n \in Eligible /\ Allowed(doc, costs, n)}

\* the first MaxCandidates of them, in the document's order
Candidates(doc, costs) ==
  LET Place(n) == CHOOSE i \in Firsts(doc) : doc[i].name = n
  IN  {n \in Fit(doc, costs) :
         Cardinality({m \in Fit(doc, costs) : Place(m) < Place(n)}) < MaxCandidates}

Measure ==
  /\ rankAt = "idle" /\ Candidates(document, prices) # {}
  /\ measured' \in [Candidates(document, prices) -> Measures]
  /\ rankAt' = "measured"
  /\ UNCHANGED <<document, prices, ranking, manual, enhanced, aiGroup>>

----------------------------------------------------------------------------
(* benchmark_nodes: reachable nodes, the second probe, the score.          *)

Reachable == {n \in DOMAIN measured : measured[n].first \in 1..8000}

\* quality mode measures the bandwidth of the nodes with the shortest first
\* delay; which of equal ones, the order of the answers decides
Finalists(set) ==
  /\ set \subseteq Reachable
  /\ IF prices.value \/ Cardinality(Reachable) <= BandwidthCandidates
       THEN set = Reachable
       ELSE /\ Cardinality(set) = BandwidthCandidates
            /\ \A n \in set, o \in Reachable \ set : measured[n].first <= measured[o].first

\* value mode drops a node that does not answer twice
Answering(set) ==
  IF prices.value THEN {n \in set : measured[n].second # 0} ELSE set

Second(n) ==
  IF measured[n].second # 0 THEN measured[n].second ELSE measured[n].first + 1000
Latency(n) == (measured[n].first + Second(n)) \div 2
Jitter(n) ==
  IF Second(n) > measured[n].first THEN Second(n) - measured[n].first
                                   ELSE measured[n].first - Second(n)
UpTo(bound, x) == IF x > bound THEN bound ELSE x

\* node_score, rounded to tenths: at most 10 for an answer, 40 for the latency, 15
\* for the jitter and 35 for the bandwidth; without that it is divided by 0.65
Rounded(p, q) == (2 * p + q) \div (2 * q)
Score(n) ==
  LET probes == 6000 + 8 * (3000 - UpTo(3000, Latency(n))) + 6 * (1500 - UpTo(1500, Jitter(n)))
  IN  IF prices.value THEN Rounded(probes, 39)
                      ELSE Rounded(probes + 105 * UpTo(200, measured[n].mbps), 60)

\* retain_value_candidates: a floor, and a window below the best score that
\* always reaches the second best
Retained(set) ==
  LET good == {n \in set : Score(n) >= 500}
      Ahead(n) == {m \in good : Score(m) > Score(n)}
      InWindow(n) == \A m \in good : Score(n) >= Score(m) - 150
  IN  IF prices.value THEN {n \in good : InWindow(n) \/ Cardinality(Ahead(n)) < 2} ELSE set

\* ResolvedCosts::utility: quality, in value mode by the root of the price;
\* a node of unknown price comes after every one of a known price
Worth(m, n) ==
  LET price(o) == Rate(document, prices, o)
  IN  IF ~prices.value \/ (price(m) = 0 /\ price(n) = 0) THEN Score(m) - Score(n)
      ELSE IF price(m) = 0 THEN -1
      ELSE IF price(n) = 0 THEN 1
      ELSE Score(m) * Score(m) * price(n) - Score(n) * Score(n) * price(m)

Before(m, n) == Worth(m, n) > 0 \/ (Worth(m, n) = 0 /\ Latency(m) < Latency(n))

\* select_diverse_nodes: two of every server, then the rest, up to the limit
Diverse(list) ==
  LET Server(i) == Entry(document, list[i]).server
      Early(i) == Cardinality({j \in 1..(i - 1) : Server(j) = Server(i)}) < 2
      Picked(early) == FoldLeft(LAMBDA got, i : IF Early(i) = early THEN Append(got, list[i])
                                                                    ELSE got,
                                <<>>, [i \in DOMAIN list |-> i])
      all == Picked(TRUE) \o Picked(FALSE)
  IN  SubSeq(all, 1, UpTo(SelectedNodes, Len(all)))

\* equal nodes stay in the order of their answers, whichever that was
Ranked(set) ==
  {list \in SetToSeqs(set) : \A i, j \in DOMAIN list : i < j => ~Before(list[j], list[i])}

Choose ==
  /\ rankAt = "measured"
  /\ \E set \in SUBSET Reachable :
       /\ Finalists(set)
       /\ \E list \in Ranked(Retained(Answering(set))) : ranking' = Diverse(list)
  /\ rankAt' = IF ranking' = <<>> THEN "failed" ELSE "chosen"
  /\ UNCHANGED <<document, prices, measured, manual, enhanced, aiGroup>>

----------------------------------------------------------------------------
(* What the configuration makes of the choice.                             *)

\* a refresh, new preferences, an intent of the retired enhanced strategy
Drift ==
  /\ rankAt = "chosen" /\ rankAt' = "drifted"
  /\ document' \in Documents /\ prices' \in Prices /\ manual' \in Manuals
  /\ measured' = <<>>
  /\ UNCHANGED <<ranking, enhanced, aiGroup>>

\* apply_openai_policy
Left == SelectSeq(ranking, LAMBDA n : n \in Fit(document, prices))

Preferred(list) ==
  IF ~enhanced /\ Contains(list, manual)
    THEN <<manual>> \o SelectSeq(list, LAMBDA n : n # manual)
    ELSE list

Build ==
  /\ rankAt \in {"chosen", "drifted"} /\ rankAt' = "built" /\ measured' = <<>>
  /\ aiGroup' = [kind |-> IF enhanced \/ Left = <<>> THEN "select" ELSE "fallback",
                 members |-> Preferred(Left)
                   \o (IF enhanced \/ Left = <<>> THEN <<"REJECT">> ELSE <<>>)]
  /\ UNCHANGED <<document, prices, ranking, manual, enhanced>>

\* the policy of another profile, or a second try where there is none
Again ==
  /\ rankAt \in {"built", "failed"} /\ rankAt' = "idle"
  /\ measured' = <<>> /\ ranking' = <<>> /\ manual' = "none" /\ aiGroup' = NoGroup
  /\ UNCHANGED <<document, prices, enhanced>>

RankNext == Measure \/ Choose \/ Drift \/ Build \/ Again

RankTypeOK ==
  /\ rankAt \in {"idle", "measured", "chosen", "drifted", "built", "failed"}
  /\ document \in Documents /\ prices \in Prices
  /\ ranking \in Seq(Names) /\ manual \in Manuals /\ enhanced \in BOOLEAN
  /\ aiGroup.kind \in {"none", "select", "fallback"}
  /\ aiGroup.members \in Seq(Names \union {"REJECT"})

----------------------------------------------------------------------------
Place(list, n) == CHOOSE i \in DOMAIN list : list[i] = n

\* The choice: each node once, each reachable and fit; the window of the value
\* mode never takes the only backup (openai_policy.rs 1019); a third node of
\* a server only when no other server has fewer than two and one to spare; a
\* node of unknown price stands before a known one only for that diversity.
RankingIsSound ==
  rankAt = "chosen" =>
    LET picked == Range(ranking)
        spare == {n \in Reachable : measured[n].second # 0 /\ Score(n) >= 500} \ picked
        Of(server) == {n \in picked : Entry(document, n).server = server}
        Known(n) == Rate(document, prices, n) # 0
    IN  /\ IsInjective(ranking) /\ Len(ranking) <= SelectedNodes
        /\ picked \subseteq Reachable \intersect Fit(document, prices)
        /\ prices.value /\ spare # {} /\ SelectedNodes > 1 => Cardinality(picked) > 1
        /\ \A n \in picked, o \in spare :
             LET home == Entry(document, n).server
                 away == Entry(document, o).server
             IN  Cardinality(Of(home)) > 2 /\ ~prices.value
                   /\ Cardinality(Reachable) <= BandwidthCandidates
                   => Cardinality(Of(away)) >= 2
        /\ prices.value =>
             \A n, o \in picked :
               ~Known(n) /\ Known(o) /\ Place(ranking, n) < Place(ranking, o) =>
                 2 <= Cardinality({m \in Of(Entry(document, o).server) :
                                     Place(ranking, m) < Place(ranking, n)})

\* The group: never empty, nothing that is gone, of another region or over the
\* budget by now; new requests are rejected when nothing is left; the retired
\* manual node comes first and brings nothing back (effective.rs 458).
GroupIsSafe ==
  rankAt = "built" =>
    LET nodes == Range(aiGroup.members) \ {"REJECT"}
    IN  /\ aiGroup.members # <<>> /\ IsInjective(aiGroup.members)
        /\ nodes \subseteq Fit(document, prices) \intersect Range(ranking)
        /\ nodes = {} => aiGroup = [kind |-> "select", members |-> <<"REJECT">>]
        /\ Range(ranking) \intersect Fit(document, prices) \subseteq nodes
        /\ (aiGroup.kind = "fallback") = (~enhanced /\ nodes # {})
        /\ \A n, o \in nodes \ {manual} :
             Place(ranking, n) < Place(ranking, o) =>
               Place(aiGroup.members, n) < Place(aiGroup.members, o)
=============================================================================
