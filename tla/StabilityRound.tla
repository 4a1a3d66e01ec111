---------------------------- MODULE StabilityRound ----------------------------
(***************************************************************************)
(* The enhanced failover of the OpenAI group (openai_stability.rs) and the *)
(* manual choice of a node (node_selection.rs): one round probes the       *)
(* candidates, records what it and the requests have seen, and selects the *)
(* exit of new connections, while configuration, core and user go on.      *)
(*                                                                         *)
(* capabilities.rs switches the rounds off in the present build            *)
(* (ENHANCED_STABILITY); the module is about the code behind the switch.   *)
(*                                                                         *)
(* An epoch is compared with the present one only, so its increment marks  *)
(* the observation under way as stale; the run of the core likewise: `same'*)
(* says that it is the one the round asked.  Every candidate is probed in  *)
(* the round that chooses: its last probe is the one of this round.  Scores*)
(* are abstracted: any usable candidate may be the best.                   *)
(***************************************************************************)
EXTENDS Naturals, FiniteSets

CONSTANTS
  Nodes,
  Recovery,                  \* passes after a cooldown (3 in the code)
  MaxChanges,                \* bounds: configurations,
  MaxRounds                  \* rounds and observations

VARIABLES
  intent,     \* what is configured: ranking, costs, mode, manual node, target
  group,      \* the core: whether it runs, the selected exit, the type of the group
  health,     \* HealthState
  tick,       \* the round, and what it has read
  watched,    \* the request that is observed
  rounds,     \* rounds and observations so far
  chooser,    \* a command within node_selection::select
  choicePermit   \* who holds the configuration permit

stabilityVars == <<intent, group, health, tick, watched, rounds, chooser, choicePermit>>

None == "none"
Exits == Nodes \union {"REJECT"}
\* cool: never, under way, or the passes since its end
Cooling == Recovery + 1
Never == Recovery + 2
Healths == [fails : 0..2, cool : 0..Never]
Fresh == [fails |-> 0, cool |-> Never]
NoRequest == [node |-> None, fresh |-> FALSE]
Unseen == [n \in Nodes |-> Fresh]

NoRound == [at |-> "idle", rev |-> 0, costRev |-> 0, modeRev |-> 0, members |-> {},
            allowed |-> {}, value |-> FALSE, target |-> "chatgpt", current |-> "REJECT",
            same |-> TRUE, manual |-> None, choice |-> "REJECT"]

NoChoice == [at |-> "idle", node |-> None, was |-> None]

StabilityInit ==
  /\ intent = [rev |-> 0, costRev |-> 0, modeRev |-> 0, ai |-> TRUE, on |-> TRUE,
               members |-> Nodes, cheap |-> Nodes, value |-> FALSE, manual |-> None,
               target |-> "chatgpt", server |-> [n \in Nodes |-> 0], last |-> 0]
  /\ group = [up |-> TRUE, now |-> "REJECT", selector |-> TRUE]
  /\ health = [rev |-> 0, current |-> None, of |-> Unseen, running |-> FALSE,
               target |-> "chatgpt", server |-> [n \in Nodes |-> 0]]
  /\ tick = NoRound /\ watched = NoRequest /\ rounds = 0
  /\ chooser = NoChoice /\ choicePermit = "free"

----------------------------------------------------------------------------
(* NodeHealth.                                                             *)

\* passes count once the cooldown is over
Counted(h) == [h EXCEPT !.cool = IF @ < Recovery THEN @ + 1 ELSE @]

Completed(h) == [Counted(h) EXCEPT !.fails = 0]

\* a success of a probe does not erase a streak with a failed model stream
\* among the last samples (which of these there are is left open)
Passed(h) == {Counted(h), Completed(h)}

Failed(h) ==
  LET f == IF h.fails = 2 THEN 2 ELSE h.fails + 1 IN
  [fails |-> f, cool |-> IF f = 2 THEN Cooling ELSE IF h.cool <= Recovery THEN 0 ELSE h.cool]

\* neither passed nor failed, or failed together with all others
Unverified(h) == [h EXCEPT !.cool = IF @ <= Recovery THEN 0 ELSE @]

\* usable, of a candidate whose probe of this round has passed
Usable(h) == h.cool \in {Never, Recovery}

\* one failure keeps a live selection
Holds(h) == h.fails < 2 /\ h.cool # Cooling

\* time: a cooldown is over
Cooled(n) ==
  /\ health.of[n].cool = Cooling /\ health' = [health EXCEPT !.of[n].cool = 0]
  /\ UNCHANGED <<intent, group, tick, watched, chooser, choicePermit>>

----------------------------------------------------------------------------
(* Observations of requests.                                               *)

NextEpoch == watched' = [watched EXCEPT !.fresh = FALSE]
Quiet == health' = [health EXCEPT !.running = FALSE]
Invalidate == NextEpoch /\ Quiet

Observe ==
  /\ watched = NoRequest /\ rounds < MaxRounds /\ rounds' = rounds + 1
  /\ health.running /\ health.current \in Nodes
  /\ watched' = [node |-> health.current, fresh |-> TRUE]
  /\ UNCHANGED <<intent, group, health, tick, chooser, choicePermit>>

\* finish
ObservationEnds(complete) ==
  /\ watched.node # None /\ watched' = NoRequest
  /\ health' =
       IF watched.fresh /\ health.current = watched.node /\ health.running
         THEN [health EXCEPT !.of[watched.node] =
                 IF complete THEN Completed(@) ELSE Failed(@)]
         ELSE health
  /\ UNCHANGED <<intent, group, tick, chooser, choicePermit>>

----------------------------------------------------------------------------
(* One round.                                                              *)

At(p) == tick.at = p
Goto(p) == tick' = [tick EXCEPT !.at = p]
EndTick == tick' = NoRound
Free == choicePermit' = "free"

\* an error: the snapshot says that the round is not available
TickFails == EndTick /\ Quiet /\ Free /\ UNCHANGED <<intent, group, watched, chooser>>
TickIsStale == EndTick /\ Invalidate /\ Free /\ UNCHANGED <<intent, group, chooser>>

\* reconcile: the history of a node is that of its server
Kept(n) == health.rev = intent.rev \/ health.server[n] = intent.server[n]

\* reconcile, the target and the ranking: what is kept, and of what
Reconciled ==
  [rev |-> intent.rev, server |-> intent.server, target |-> intent.target,
   current |-> IF health.rev = intent.rev THEN health.current ELSE None,
   running |-> FALSE,
   of |-> [n \in Nodes |->
             IF Kept(n) /\ health.target = intent.target /\ n \in intent.members
               THEN health.of[n] ELSE Fresh]]

TickReads ==
  /\ At("idle") /\ rounds < MaxRounds /\ rounds' = rounds + 1
  /\ IF intent.ai
       THEN /\ health' = Reconciled
            /\ IF health.rev # intent.rev \/ health.target # intent.target
                 THEN NextEpoch ELSE UNCHANGED watched
            /\ tick' = IF intent.on /\ group.up
                         THEN [NoRound EXCEPT !.at = "asks", !.rev = intent.rev,
                                 !.modeRev = intent.modeRev,
                                 !.members = intent.members, !.target = intent.target]
                         ELSE NoRound
       ELSE Invalidate /\ UNCHANGED tick
  /\ UNCHANGED <<intent, group, chooser, choicePermit>>

\* the group and its selection, the manual node; without one the costs, of
\* which fewer than two candidates are none
TickAsks ==
  /\ At("asks") /\ group.up /\ group.selector
  /\ tick' = [tick EXCEPT !.at = IF intent.manual = None THEN "probing" ELSE "manual",
                 !.current = group.now, !.same = TRUE, !.manual = intent.manual,
                 !.costRev = intent.costRev, !.value = intent.value,
                 !.allowed = IF Cardinality(tick.members) < 2 THEN {}
                             ELSE tick.members \intersect intent.cheap]
  /\ IF intent.manual # None THEN UNCHANGED <<health, watched>>
     ELSE /\ health' = [health EXCEPT !.running = TRUE, !.current = group.now]
          /\ IF health.current = group.now THEN UNCHANGED watched ELSE NextEpoch
  /\ UNCHANGED <<intent, group, chooser, choicePermit>>

\* no answer, or the core has another group; the permit is not held yet
Unasked == EndTick /\ Quiet /\ UNCHANGED <<intent, group, watched, chooser, choicePermit>>

TickUnanswered == At("asks") /\ ~(group.up /\ group.selector) /\ Unasked

\* mutant: a choice of the user counts if it has moved the group
CurrentUnlessMoved ==
  /\ intent.ai /\ intent.modeRev = tick.modeRev
  /\ group.up /\ tick.same /\ intent.target = tick.target
  /\ intent.rev = tick.rev /\ intent.on /\ intent.costRev = tick.costRev

\* nothing that the round has read has changed, and no manual choice was made
StillCurrent ==
  /\ intent.ai /\ intent.modeRev = tick.modeRev
  /\ group.up /\ tick.same /\ intent.target = tick.target
  /\ intent.manual = None
  /\ intent.rev = tick.rev /\ intent.on /\ intent.costRev = tick.costRev

TickCompares ==
  /\ At("probing")
  /\ \/ choicePermit # "free" /\ Unasked
     \/ choicePermit = "free" /\ StillCurrent /\ choicePermit' = "tick" /\ Goto("live")
        /\ UNCHANGED <<intent, group, health, watched, chooser>>
     \* the comparisons of the mode are errors, the others invalidate
     \/ choicePermit = "free" /\ ~StillCurrent
        /\ IF intent.ai /\ intent.modeRev = tick.modeRev THEN TickIsStale ELSE TickFails

\* all candidates failed, of at least two
Common(failed) == Cardinality(failed) >= 2 /\ failed = tick.allowed

\* the histories after a round in which these nodes failed and these passed
Recorded(failed, passed) ==
  {of \in [Nodes -> Healths] : \A n \in Nodes :
     LET h == health.of[n] IN
     CASE n \notin tick.allowed -> of[n] = h
       [] n \in passed -> of[n] \in Passed(h)
       [] n \in failed /\ ~Common(failed) -> of[n] = Failed(h)
       [] OTHER -> of[n] = Unverified(h)}

\* choose_with_costs: a selection that holds stays, and any when all fail; in
\* value mode a usable candidate may still be too bad
Choices(of, failed, passed) ==
  LET usable == {n \in passed : Usable(of[n])} IN
  IF tick.current \in tick.allowed /\ (Common(failed) \/ Holds(of[tick.current]))
    THEN {tick.current}
    ELSE usable \union (IF usable = {} \/ tick.value THEN {"REJECT"} ELSE {})

\* the probes of the round have ended before the comparisons
TickChooses ==
  /\ At("live") /\ group.up /\ group.selector /\ group.now = tick.current
  /\ \E failed \in SUBSET tick.allowed : \E passed \in SUBSET (tick.allowed \ failed) :
       \E of \in Recorded(failed, passed) : \E c \in Choices(of, failed, passed) :
         /\ health' = [health EXCEPT !.of = of]
         /\ IF c = tick.current THEN EndTick /\ Free
            ELSE tick' = [tick EXCEPT !.at = "switch", !.choice = c] /\ UNCHANGED choicePermit
  /\ UNCHANGED <<intent, group, watched, chooser>>

TickMoved ==
  /\ At("live")
  /\ IF group.up THEN ~(group.selector /\ group.now = tick.current) /\ TickIsStale
     ELSE TickFails

\* select_proxy, and the new epoch
Switch ==
  /\ At("switch") /\ group.up
  /\ group' = [group EXCEPT !.now = tick.choice]
  /\ health' = [health EXCEPT !.current = tick.choice] /\ NextEpoch
  /\ EndTick /\ Free /\ UNCHANGED <<intent, chooser>>

SwitchFails == At("switch") /\ TickFails

\* the manual node, when nothing has changed since it was read
ManualCompares ==
  /\ At("manual")
  /\ \/ choicePermit # "free" /\ Unasked
     \/ /\ choicePermit = "free"
        /\ IF ~intent.ai \/ intent.modeRev # tick.modeRev THEN TickFails
           ELSE /\ IF intent.rev = tick.rev /\ intent.on /\ intent.manual = tick.manual /\ group.up
                     THEN Goto("hold") /\ choicePermit' = "tick"
                     ELSE EndTick /\ UNCHANGED choicePermit
                /\ UNCHANGED <<intent, group, health, watched, chooser>>

\* a node that is no candidate any more is refused, never replaced
ManualHolds ==
  /\ At("hold") /\ group.up /\ group.selector
  /\ LET exit == IF tick.manual \in tick.members \intersect intent.cheap
                THEN tick.manual ELSE "REJECT" IN
       /\ group' = [group EXCEPT !.now = exit]
       /\ health' = [health EXCEPT !.current = exit, !.running = FALSE]
  /\ NextEpoch /\ EndTick /\ Free /\ UNCHANGED <<intent, chooser>>

ManualFails == At("hold") /\ TickFails

----------------------------------------------------------------------------
(* node_selection::select.                                                 *)

\* persisted first
Select(n) ==
  /\ chooser.at = "idle" /\ choicePermit = "free" /\ intent.ai /\ group.up /\ intent.on
  /\ n = None \/ n \in intent.members \intersect intent.cheap
  /\ n # intent.manual
  /\ choicePermit' = "user"
  /\ chooser' = [at |-> "send", node |-> n, was |-> intent.manual]
  /\ intent' = [intent EXCEPT !.manual = n]
  /\ UNCHANGED <<group, health, tick, watched>>

\* a Selector has no selection to be deleted
SelectSent ==
  /\ chooser.at = "send" /\ group.up
  /\ group' = IF chooser.node = None THEN group ELSE [group EXCEPT !.now = chooser.node]
  /\ Invalidate /\ Free /\ chooser' = NoChoice
  /\ UNCHANGED <<intent, tick>>

\* the controller refuses, or its answer is lost: the intent is taken back
SelectRefused ==
  /\ chooser.at = "send" /\ chooser.node # None
  /\ group' \in {group, IF group.up THEN [group EXCEPT !.now = chooser.node] ELSE group}
  /\ intent' = [intent EXCEPT !.manual = chooser.was]
  /\ Free /\ chooser' = NoChoice
  /\ UNCHANGED <<health, tick, watched>>

----------------------------------------------------------------------------
(* The configuration and the core.                                         *)

MayChange == choicePermit = "free" /\ intent.last < MaxChanges
Changed == intent.last + 1

\* the nodes of a ranking or a budget: all, or all but one
Fewer == {Nodes} \union {Nodes \ {n} : n \in Nodes}

\* store-selected: a reload, and a restart, keep a selection that is in the group
Reload(new) ==
  \E e \in IF group.now \in {"REJECT"} \union new.members THEN {group.now}
           ELSE {"REJECT"} \union new.members :
    group' = [group EXCEPT !.now = e, !.selector = new.on /\ new.ai]

\* a renewed subscription, with another server under the name n
Renew(n) ==
  /\ MayChange
  /\ intent' = [intent EXCEPT !.rev = Changed, !.last = Changed, !.server[n] = 1 - @]
  /\ Reload(intent')
  /\ UNCHANGED <<health, tick, watched, chooser, choicePermit>>

\* a new ranking; set_openai_stability
Rank ==
  /\ MayChange
  /\ \/ \E m \in Fewer : intent' = [intent EXCEPT !.rev = Changed, !.last = Changed, !.members = m]
     \/ intent' = [intent EXCEPT !.rev = Changed, !.last = Changed, !.on = ~@]
  /\ Reload(intent')
  /\ UNCHANGED <<health, tick, watched, chooser, choicePermit>>

\* value mode with a budget that these nodes meet, or quality mode
SaveCosts ==
  /\ MayChange
  /\ \/ \E c \in Fewer : intent' = [intent EXCEPT !.costRev = Changed, !.last = Changed,
                                        !.value = TRUE, !.cheap = c]
     \/ intent' = [intent EXCEPT !.costRev = Changed, !.last = Changed,
                                 !.value = FALSE, !.cheap = Nodes]
  /\ Invalidate /\ Reload(intent')
  /\ UNCHANGED <<tick, chooser, choicePermit>>

SetMode ==
  /\ MayChange
  /\ intent' = [intent EXCEPT !.ai = ~@, !.modeRev = Changed, !.last = Changed]
  /\ Invalidate /\ Reload(intent')
  /\ UNCHANGED <<tick, chooser, choicePermit>>

SetTarget ==
  /\ intent.last < MaxChanges
  /\ intent' = [intent EXCEPT !.target = IF @ = "chatgpt" THEN "api" ELSE "chatgpt",
                              !.last = Changed]
  /\ UNCHANGED <<group, health, tick, watched, chooser, choicePermit>>

CoreStops ==
  /\ group.up /\ group' = [group EXCEPT !.up = FALSE]
  /\ UNCHANGED <<intent, health, tick, watched, chooser, choicePermit>>

CoreRestarts ==
  /\ ~group.up /\ choicePermit = "free"
  /\ group' = [group EXCEPT !.up = TRUE]
  /\ tick' = [tick EXCEPT !.same = At("idle")]
  /\ UNCHANGED <<intent, health, watched, chooser, choicePermit>>

----------------------------------------------------------------------------
\* the steps that neither begin a round nor an observation
OtherSteps ==
  \/ \E n \in Nodes : Cooled(n) \/ Renew(n)
  \/ \E c \in BOOLEAN : ObservationEnds(c)
  \/ TickAsks \/ TickUnanswered \/ TickCompares \/ TickChooses \/ TickMoved
  \/ Switch \/ SwitchFails \/ ManualCompares \/ ManualHolds \/ ManualFails
  \/ \E n \in Nodes \union {None} : Select(n)
  \/ SelectSent \/ SelectRefused
  \/ Rank \/ SaveCosts \/ SetMode \/ SetTarget \/ CoreStops \/ CoreRestarts

StabilityNext == Observe \/ TickReads \/ (OtherSteps /\ UNCHANGED rounds)

StabilityTypeOK ==
  /\ group \in [up : BOOLEAN, now : Exits, selector : BOOLEAN]
  /\ rounds \in 0..MaxRounds
  /\ health.of \in [Nodes -> Healths] /\ health.current \in Exits \union {None}
  /\ health.server \in [Nodes -> {0, 1}]
  /\ watched \in [node : Nodes \union {None}, fresh : BOOLEAN]
  /\ tick.at \in {"idle", "asks", "probing", "live", "switch", "manual", "hold"}
  /\ choicePermit \in {"free", "tick", "user"}
  /\ choicePermit = "tick" <=> tick.at \in {"live", "switch", "hold"}

\* A round selects what is configured when it selects: a node of the present
\* ranking and budget, in the AI mode and the run of the core that was probed,
\* and nothing against the choice of the user, even one that was made while the
\* probes ran and did not move the group (openai_stability.rs 677-722).
SwitchIsCurrent ==
  tick.at \in {"switch", "hold"} /\ group'.now # group.now =>
    /\ intent.ai /\ intent.on /\ (tick.at = "switch" => tick.same)
    /\ intent.manual \in {None, group'.now} \/ group'.now = "REJECT"
    /\ group'.now \in {"REJECT"} \union intent.members
    /\ intent.manual = None => group'.now \in {"REJECT"} \union intent.cheap

\* A failed node does not become fit by a new ranking: its cooldown ends by
\* time, or its server, the ranking or the target is another
\* (openai_stability.rs 242-249).
CooldownIsKept ==
  \A n \in Nodes :
    health.of[n].cool = Cooling /\ health'.of[n].cool # Cooling =>
      \/ health'.of[n].cool = 0 /\ health'.of[n].fails = health.of[n].fails
      \/ n \notin intent.members
      \/ health.server[n] # intent.server[n] \/ health.target # intent.target
=============================================================================
