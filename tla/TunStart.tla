-------------------------------- MODULE TunStart --------------------------------
(***************************************************************************)
(* The acceptance of a started TUN core on Windows (finish_runtime_start   *)
(* of lib.rs, tun_readiness.rs, network_safety.rs): the controller, the    *)
(* adapter, its routes, a DNS answer through it, all within one local      *)
(* budget; then the outside world, within another; then the routes again.  *)
(* Meanwhile the core dies, the application leaves, the adapter is made    *)
(* anew, another VPN takes the routes.                                     *)
(*                                                                         *)
(* The command holds the configuration permit, so no other core is started *)
(* until it ends.  Budgets are counted in ticks.                           *)
(***************************************************************************)
EXTENDS Integers, FiniteSets, Sequences

CONSTANTS
  LocalTime, NetTime,       \* LOCAL_BUDGET and TunRetryPolicy.total
  MaxAttempts,              \* TunRetryPolicy.max_attempts
  Responses,                \* datagrams the DNS query may be answered with
  Errors,                   \* transport errors a check may end with
  MaxAdapters               \* bound: incarnations of the adapter

VARIABLES
  accepting,                \* the command: where it is, and what it has seen
  adapter,                  \* the interface and who has the routes
  coreUp, leaving,          \* the core of this start lives; the app shuts down
  localLeft, netLeft,       \* the two budgets
  checks                    \* the last result of each outside target

tunStartVars == <<accepting, adapter, coreUp, leaving, localLeft, netLeft, checks>>

Targets == {"google", "cloudflare", "openai"}
Connectivity == Targets \ {"openai"}       \* OpenAI never decides
Local == {"config", "adapter", "routes", "dns", "confirm", "confirmed", "pause"}
Outside == {"attempt", "asked", "again"}
Pending == Local \union Outside \union {"recheck"}

Fresh == [at |-> "idle", cause |-> "none", seen |-> 0, dns |-> 0, proven |-> 0, tries |-> 0]
Unchecked == [t \in Targets |-> "none"]

TunStartInit ==
  /\ accepting = Fresh /\ coreUp = FALSE /\ leaving = FALSE
  /\ adapter = [id |-> 0, last |-> 0, routes |-> FALSE]
  /\ localLeft = LocalTime /\ netLeft = NetTime /\ checks = Unchecked

----------------------------------------------------------------------------
(* The world.                                                              *)

AdapterAppears ==
  /\ adapter.id = 0 /\ adapter.last < MaxAdapters /\ coreUp
  /\ \E taken \in BOOLEAN :
       adapter' = [id |-> adapter.last + 1, last |-> adapter.last + 1, routes |-> taken]
  /\ UNCHANGED <<accepting, coreUp, leaving, localLeft, netLeft, checks>>

AdapterGoes ==
  /\ adapter.id # 0 /\ adapter' = [adapter EXCEPT !.id = 0, !.routes = FALSE]
  /\ UNCHANGED <<accepting, coreUp, leaving, localLeft, netLeft, checks>>

RoutesMove ==
  /\ adapter.id # 0 /\ adapter' = [adapter EXCEPT !.routes = ~@]
  /\ UNCHANGED <<accepting, coreUp, leaving, localLeft, netLeft, checks>>

CoreDies ==
  /\ coreUp /\ coreUp' = FALSE
  /\ UNCHANGED <<accepting, adapter, leaving, localLeft, netLeft, checks>>

Leave ==
  /\ ~leaving /\ leaving' = TRUE
  /\ UNCHANGED <<accepting, adapter, coreUp, localLeft, netLeft, checks>>

LocalTick ==
  /\ accepting.at \in Local /\ localLeft > 0 /\ localLeft' = localLeft - 1
  /\ UNCHANGED <<accepting, adapter, coreUp, leaving, netLeft, checks>>

NetTick ==
  /\ accepting.at = "asked" /\ netLeft > 0 /\ netLeft' = netLeft - 1
  /\ UNCHANGED <<accepting, adapter, coreUp, leaving, localLeft, checks>>

----------------------------------------------------------------------------
(* Beginning and end.                                                      *)

At(p) == accepting.at = p
Goto(p) == accepting' = [accepting EXCEPT !.at = p]
World == UNCHANGED <<adapter, leaving>>
Budgets == UNCHANGED <<localLeft, netLeft>>

\* start_tun within while_open
StartCore ==
  /\ accepting.at \in {"idle", "failed", "accepted"} /\ ~coreUp /\ ~leaving
  /\ coreUp' = TRUE /\ accepting' = [Fresh EXCEPT !.at = "config"]
  /\ localLeft' = LocalTime /\ netLeft' = NetTime /\ checks' = Unchecked /\ World

\* an error of this start stops the core of this start, if that still runs
Fails(cause) ==
  /\ accepting' = [accepting EXCEPT !.at = "failed", !.cause = cause]
  /\ coreUp' = FALSE

\* is_shutting_down, or another running_identity
Cancelled == leaving \/ ~coreUp

\* bounded, and the select around finish_runtime_start
Abandon ==
  /\ accepting.at \in Pending /\ Cancelled /\ Fails("cancelled")
  /\ World /\ Budgets /\ UNCHANGED checks

----------------------------------------------------------------------------
(* wait_tun_config and wait_ready_until.                                   *)

Quiet == World /\ Budgets /\ UNCHANGED <<coreUp, checks>>

ConfigReady == At("config") /\ localLeft > 0 /\ Goto("adapter") /\ Quiet

\* another device than ours, or an error in the log of this core
ConfigRefused ==
  /\ At("config") /\ Fails("final") /\ World /\ Budgets /\ UNCHANGED checks

ReadAdapter ==
  /\ At("adapter") /\ localLeft > 0 /\ ~Cancelled
  /\ accepting' = [accepting EXCEPT !.at = IF adapter.id = 0 THEN "pause" ELSE "routes",
                                    !.seen = adapter.id]
  /\ Quiet

\* every sample route leads through the adapter that was read
OnAdapter(id) == adapter.id = id /\ adapter.routes

ReadRoutes ==
  /\ At("routes") /\ ~Cancelled
  /\ Goto(IF OnAdapter(accepting.seen) THEN "dns" ELSE "pause") /\ Quiet

\* the chain of aliases from the name asked for, at most one step per answer
Resolved(response) ==
  LET Step(owner) ==
        IF owner \notin response.hosts /\ owner \in DOMAIN response.alias
          THEN response.alias[owner] ELSE owner
      Owner[n \in 0..Cardinality(DOMAIN response.alias)] ==
        IF n = 0 THEN "asked" ELSE Step(Owner[n - 1])
  IN  Owner[Cardinality(DOMAIN response.alias)] \in response.hosts

\* validate_dns_response
Valid(response) == response.header = "good" /\ Resolved(response)

\* only the adapter the socket is pinned to can bring an answer
DnsAnswer ==
  /\ At("dns") /\ ~Cancelled
  /\ \E response \in Responses :
       IF Valid(response) /\ adapter.id = accepting.seen
         THEN accepting' = [accepting EXCEPT !.at = "confirm", !.dns = accepting.seen]
         ELSE Goto("pause")
  /\ Quiet

\* no socket for the query ends the whole wait
DnsSocketFails ==
  /\ At("dns") /\ Fails("retry") /\ World /\ Budgets /\ UNCHANGED checks

\* mutant: of whatever adapter there is
AnyAdapter == adapter.id # 0

\* adapter and routes once more, of the same incarnation
SameAdapter == adapter.id = accepting.seen

Confirm ==
  /\ At("confirm") /\ ~Cancelled
  /\ accepting' = IF SameAdapter /\ OnAdapter(adapter.id)
                    THEN [accepting EXCEPT !.at = "confirmed", !.proven = adapter.id]
                    ELSE [accepting EXCEPT !.at = "pause"]
  /\ Quiet

LocalReady == At("confirmed") /\ ~Cancelled /\ Goto("attempt") /\ Quiet

Pause == At("pause") /\ localLeft > 0 /\ Goto("adapter") /\ Quiet

LocalExpired ==
  /\ accepting.at \in Local \ {"confirmed"} /\ localLeft = 0
  /\ Fails(IF Cancelled THEN "cancelled" ELSE "retry")
  /\ World /\ Budgets /\ UNCHANGED checks

----------------------------------------------------------------------------
(* inspect_tun_with_retry.                                                 *)

\* classify_transport: a certificate that is refused comes before everything
Kind(error) ==
  LET Says(word) == word \in error.words
  IN  CASE Says("certificate") -> "certificate"
        [] ~Says("certificate") /\ error.timeout -> "timeout"
        [] OTHER ->
             IF Says("dns") THEN "dns"
             ELSE IF Says("tunnel") THEN "tunnel"
             ELSE IF Says("tls") THEN (IF Says("eof") THEN "interrupted" ELSE "tls")
             ELSE IF error.connect \/ Says("eof") THEN "connect" ELSE "other"

Transient == {"timeout", "dns", "tunnel", "connect", "interrupted"}
Results == {"ok", "status"} \union {Kind(e) : e \in Errors}

\* the first attempt asks all, a later one what failed for the moment
Asked ==
  IF accepting.tries = 1 THEN Targets
  ELSE {t \in Connectivity : checks[t] \in Transient}

Attempt ==
  /\ At("attempt") /\ ~Cancelled /\ netLeft > 0
  /\ accepting' = [accepting EXCEPT !.at = "asked", !.tries = @ + 1] /\ Quiet

Success(c) == \E t \in Connectivity : c[t] = "ok"
ShouldRetry(c) == ~Success(c) /\ \E t \in Connectivity : c[t] \in Transient

NetFails(c) == Fails(IF ShouldRetry(c) THEN "retry" ELSE "final")

\* all answers of an attempt; with the budget spent they are timeouts
Answered ==
  /\ At("asked") /\ ~Cancelled
  /\ \E got \in [Asked -> Results] :
       checks' = [t \in Targets |-> IF t \notin Asked THEN checks[t]
                                    ELSE IF netLeft = 0 THEN "timeout" ELSE got[t]]
  /\ CASE Success(checks') -> Goto("recheck") /\ UNCHANGED coreUp
       [] ShouldRetry(checks') /\ accepting.tries < MaxAttempts ->
            Goto("again") /\ UNCHANGED coreUp
       [] OTHER -> NetFails(checks')
  /\ World /\ Budgets

\* a pause, out of the same budget, comes before the next attempt
Again ==
  /\ At("again") /\ ~Cancelled
  /\ IF netLeft > 1 THEN netLeft' = netLeft - 1 /\ Goto("attempt") /\ UNCHANGED coreUp
                    ELSE NetFails(checks) /\ UNCHANGED netLeft
  /\ World /\ UNCHANGED <<localLeft, checks>>

\* verify_current_routes, whatever adapter there is now
Recheck ==
  /\ At("recheck")
  /\ IF adapter.id # 0 /\ adapter.routes
       THEN Goto("accepted") /\ UNCHANGED coreUp
       ELSE Fails("retry")
  /\ World /\ Budgets /\ UNCHANGED checks

TunStartNext ==
  \/ AdapterAppears \/ AdapterGoes \/ RoutesMove \/ CoreDies \/ Leave
  \/ LocalTick \/ NetTick
  \/ StartCore \/ Abandon \/ ConfigReady \/ ConfigRefused
  \/ ReadAdapter \/ ReadRoutes \/ DnsAnswer \/ DnsSocketFails \/ Confirm
  \/ LocalReady \/ Pause \/ LocalExpired
  \/ Attempt \/ Answered \/ Again \/ Recheck

TunStartTypeOK ==
  /\ accepting \in [at : Pending \union {"idle", "failed", "accepted"},
                    cause : {"none", "cancelled", "retry", "final"},
                    seen : 0..MaxAdapters, dns : 0..MaxAdapters,
                    proven : 0..MaxAdapters, tries : 0..MaxAttempts]
  /\ adapter \in [id : 0..MaxAdapters, last : 0..MaxAdapters, routes : BOOLEAN]
  /\ coreUp \in BOOLEAN /\ leaving \in BOOLEAN
  /\ localLeft \in 0..LocalTime /\ netLeft \in 0..NetTime
  /\ checks \in [Targets -> Results \union {"none", "timeout"}]

----------------------------------------------------------------------------
\* What an accepted start has seen: a DNS answer and, after it, the routes, of
\* one and the same adapter (tun_readiness.rs 99), and a connectivity target;
\* OpenAI's answer alone is none.  A failed one leaves no core, and one that
\* could have been retried says so.
AcceptanceIsEarned ==
  /\ accepting.at \in Outside \union {"recheck", "accepted"} =>
       accepting.proven # 0 /\ accepting.dns = accepting.proven
  /\ accepting.at \in {"recheck", "accepted"} =>
       "ok" \in {checks["google"], checks["cloudflare"]}
  /\ accepting.at = "failed" =>
       /\ ~coreUp
       /\ accepting.cause = "final" => ~\E t \in Connectivity : checks[t] \in Transient

\* A name that leads to an address by its aliases is accepted, and no other:
\* neither a cycle nor a chain of other names (tun_readiness.rs 323); a refused
\* certificate is no error of the moment, whatever else the error says
\* (network_safety.rs 146).
AnswersAreRead ==
  /\ \A error \in Errors : "certificate" \in error.words => Kind(error) \notin Transient
  /\ \A response \in Responses :
       LET names == {"asked"} \union DOMAIN response.alias
                      \union {response.alias[n] : n \in DOMAIN response.alias}
           Closed(set) == \A n \in set \intersect DOMAIN response.alias :
                            response.alias[n] \in set
       IN  Resolved(response) =
             \A set \in SUBSET names :
               "asked" \in set /\ Closed(set) => set \intersect response.hosts # {}

\* A later attempt asks nothing again that answered or was refused for good,
\* and never OpenAI (network_safety.rs 262).
RetriesAreCareful ==
  checks' # checks /\ accepting'.tries > 1 =>
    \A t \in Targets : checks'[t] # checks[t] =>
      checks[t] \notin {"ok", "status", "certificate", "tls"} /\ t # "openai"
=============================================================================
