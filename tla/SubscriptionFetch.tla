-------------------------- MODULE SubscriptionFetch --------------------------
(***************************************************************************)
(* The download of a subscription and the reading of its quota             *)
(* (subscription.rs).  One operation tries several client identities and   *)
(* methods; a refusal (403) moves to the next attempt, and one retry is    *)
(* shared by every request, busy server and broken body of the operation.  *)
(* All of it ends by one deadline.  Network and server choose every        *)
(* answer; time is a clock whose ticks wait for the timers that are due.   *)
(***************************************************************************)
EXTENDS Integers, Sequences, FiniteSets

CONSTANTS
  TotalTime,     \* TOTAL_FETCH_TIMEOUT
  RequestTime,   \* the client's timeout of one request, its body included
  IdleTime,      \* BODY_IDLE_TIMEOUT
  MaxHops,       \* redirects that are followed, 5 in the code
  Delays,        \* what Retry-After may say, 0 being less than a tick
  Headers        \* subscription-userinfo headers: sequences of <<name, value>>

VARIABLES
  fetchOp,   \* [kind, known, loopback, task, attempts]: what was asked for
  plan,      \* the attempts left, the current one first: [method, validators]
  call,      \* [at, since, until, url, hops] of the current attempt
  retry,     \* retry_available
  now,       \* since the operation has begun
  sent,      \* requests sent, redirects not counted
  stopped,   \* the user has cancelled the task
  told       \* what the caller gets

fetchVars == <<fetchOp, plan, call, retry, now, sent, stopped, told>>

NotYet == [is |-> "nothing", usage |-> <<>>]
Told(what) == told' = [is |-> what, usage |-> <<>>]

FetchTypeOK ==
  /\ fetchOp.kind \in {"fetch", "usage"} /\ Len(plan) \in 0..fetchOp.attempts
  /\ call.at \in {"check", "sent", "body", "pause", "end"}
  /\ call.url \in {"secure", "loopback"} /\ call.hops \in 0..MaxHops
  /\ retry \in BOOLEAN /\ now \in 0..TotalTime /\ sent \in Nat /\ stopped \in BOOLEAN
  /\ told.is \in {"nothing", "content", "unchanged", "usage", "refused", "status", "transport",
                  "timeout", "invalid", "cancelled"}

Repeated(n, attempt) == [i \in 1..n |-> attempt]

\* the identity of the user, first with and then without validators, and the
\* compatible ones it does not equal; for the quota each with HEAD, then GET
PlanOf(kind, agents) ==
  IF kind = "fetch"
  THEN <<[method |-> "GET", validators |-> TRUE]>>
         \o Repeated(agents, [method |-> "GET", validators |-> FALSE])
  ELSE Repeated(agents, [method |-> "HEAD", validators |-> FALSE])
         \o Repeated(agents, [method |-> "GET", validators |-> FALSE])

FetchInit ==
  /\ \E kind \in {"fetch", "usage"}, agents \in {2, 3}, known, loopback, task \in BOOLEAN :
       /\ kind = "fetch" => task
       /\ kind = "usage" => ~known
       /\ plan = PlanOf(kind, agents)
       /\ fetchOp = [kind |-> kind, known |-> known, loopback |-> loopback, task |-> task,
                     attempts |-> Len(plan)]
       \* validate_subscription_url has refused anything else
       /\ call = [at |-> "check", since |-> 0, until |-> 0, hops |-> 0,
                  url |-> IF loopback THEN "loopback" ELSE "secure"]
  /\ retry = TRUE /\ now = 0 /\ sent = 0 /\ stopped = FALSE /\ told = NotYet

----------------------------------------------------------------------------
(* parse_subscription_usage                                                *)

Fields == {"upload", "download", "total", "expire"}

\* the loop: a name that comes again takes its value away, for good
UsageLoop[h \in Seq(Fields \X {"good", "bad"})] ==
  IF h = <<>> THEN [seen |-> {}, has |-> {}]
  ELSE LET before == UsageLoop[SubSeq(h, 1, Len(h) - 1)]
           name == h[Len(h)][1]
       IN [seen |-> before.seen \union {name},
           has |-> IF name \in before.seen THEN before.has \ {name}
                   ELSE IF h[Len(h)][2] = "good" THEN before.has \union {name} ELSE before.has]

\* the fields the quota has; none of them means no quota at all
UsageOf(h) == UsageLoop[h].has

\* what it is for: a field is believed if it is said once, and well
Unambiguous(h) ==
  {name \in Fields : \E i \in DOMAIN h : h[i] = <<name, "good">>
                                         /\ \A j \in DOMAIN h : h[j][1] = name => j = i}

----------------------------------------------------------------------------
Kept == <<fetchOp, stopped>>

Finish(what) ==
  /\ call' = [call EXCEPT !.at = "end"] /\ Told(what)
  /\ UNCHANGED <<Kept, plan, retry, now, sent>>

\* the next attempt, or the last refusal
Attempt(rest) ==
  /\ plan' = rest
  /\ IF rest = <<>>
     THEN call' = [call EXCEPT !.at = "end"] /\ Told("refused")
     ELSE call' = [call EXCEPT !.at = "check"] /\ UNCHANGED told

\* pause: the same attempt is sent again afterwards
Pause(delay) ==
  /\ retry' = FALSE
  /\ call' = [call EXCEPT !.at = "pause", !.until = now + delay]
  /\ UNCHANGED <<Kept, plan, now, sent, told>>

\* mutant: every failure may be tried again
RetryAlways(delay, otherwise) ==
  IF delay < TotalTime - now THEN Pause(delay) ELSE Finish(otherwise)

\* SubscriptionFetcher::retry
RetryOr(delay, otherwise) ==
  IF retry /\ delay < TotalTime - now THEN Pause(delay) ELSE Finish(otherwise)

\* send_request, up to the request
Send ==
  /\ call.at = "check"
  /\ IF now = TotalTime THEN Finish("timeout")
     ELSE IF stopped THEN Finish("cancelled")
     ELSE /\ sent' = sent + 1
          /\ call' = [call EXCEPT !.at = "sent", !.since = now, !.hops = 0,
                                  !.url = IF fetchOp.loopback THEN "loopback" ELSE "secure"]
          /\ UNCHANGED <<Kept, plan, retry, now, told>>

\* the redirect policy: so many hops, and never to a plain remote address; a
\* redirect that is not followed is an answer like any other
Redirect ==
  /\ call.at = "sent"
  /\ \E target \in {"secure", "loopback", "plain"} :
       IF call.hops < MaxHops /\ target # "plain"
       THEN /\ call' = [call EXCEPT !.hops = @ + 1, !.url = target]
            /\ UNCHANGED <<Kept, plan, retry, now, sent, told>>
       ELSE Finish("status")

\* a transport error of a send; the kinds that are not retryable, and the two
\* timers: of the request, and of the operation
SendFails ==
  /\ call.at = "sent"
  /\ \/ Finish("transport")
     \/ RetryOr(0, "transport")
     \/ now = TotalTime /\ Finish("timeout")

----------------------------------------------------------------------------
(* answers of the server                                                   *)

Forbidden ==
  /\ call.at = "sent"
  /\ Attempt(Tail(plan))
  /\ UNCHANGED <<Kept, retry, now, sent>>

\* 429, 502, 503 and 504
Busy ==
  /\ call.at = "sent"
  /\ \E d \in Delays : RetryOr(d, "status")

OtherStatus == call.at = "sent" /\ Finish("status")

\* 304; without validators there is nothing it could refer to
Unmodified ==
  /\ call.at = "sent" /\ fetchOp.kind = "fetch"
  /\ Finish(IF fetchOp.known THEN "unchanged" ELSE "invalid")

BodyBegins ==
  /\ call.at = "sent" /\ fetchOp.kind = "fetch"
  /\ call' = [call EXCEPT !.at = "body", !.until = now]
  /\ UNCHANGED <<Kept, plan, retry, now, sent, told>>

\* a chunk resets the idle timer
Chunk ==
  /\ call.at = "body" /\ call.until < now
  /\ call' = [call EXCEPT !.until = now]
  /\ UNCHANGED <<Kept, plan, retry, now, sent, told>>

\* too large, empty, not UTF-8, a web page, not a YAML mapping
BodyRefused == call.at = "body" /\ Finish("invalid")

BodyEnds ==
  /\ call.at = "body"
  /\ \E h \in Headers :
       /\ told' = [is |-> "content", usage |-> h]
       /\ call' = [call EXCEPT !.at = "end"]
  /\ UNCHANGED <<Kept, plan, retry, now, sent>>

\* the stream breaks, the idle timer or the request's rings: one more try;
\* past the deadline there is none
BodyFails ==
  /\ call.at = "body"
  /\ IF now = TotalTime THEN Finish("timeout")
     ELSE RetryOr(0, "transport") \/ Finish("transport")

\* fetch_usage: HEAD first, and GET where the answer to HEAD says nothing
RestIsGet(s) == SelectSeq(s, LAMBDA a : a.method = "GET")

UsageAnswer ==
  /\ call.at = "sent" /\ fetchOp.kind = "usage"
  /\ \E h \in Headers :
       IF UsageOf(h) # {} \/ Head(plan).method = "GET"
       THEN /\ told' = [is |-> "usage", usage |-> h]
            /\ call' = [call EXCEPT !.at = "end"] /\ UNCHANGED plan
       ELSE Attempt(RestIsGet(plan))
  /\ UNCHANGED <<Kept, retry, now, sent>>

\* 405 and 501
HeadUnknown ==
  /\ call.at = "sent" /\ fetchOp.kind = "usage" /\ Head(plan).method = "HEAD"
  /\ Attempt(RestIsGet(plan))
  /\ UNCHANGED <<Kept, retry, now, sent>>

----------------------------------------------------------------------------
Resume ==
  /\ call.at = "pause" /\ now >= call.until
  /\ call' = [call EXCEPT !.at = "check"]
  /\ UNCHANGED <<Kept, plan, retry, now, sent, told>>

\* Task::wait gives up whatever it is waiting for
Interrupted ==
  /\ stopped /\ call.at \in {"sent", "body", "pause"}
  /\ Finish("cancelled")

Cancel ==
  /\ fetchOp.task /\ ~stopped /\ call.at # "end"
  /\ stopped' = TRUE
  /\ UNCHANGED <<fetchOp, plan, call, retry, now, sent, told>>

\* the earliest timer of what is awaited
Due ==
  CASE call.at = "sent" -> IF call.since + RequestTime < TotalTime
                           THEN call.since + RequestTime ELSE TotalTime
    [] call.at = "body" -> LET idle == call.until + IdleTime
                               whole == call.since + RequestTime
                               first == IF idle < whole THEN idle ELSE whole
                           IN IF first < TotalTime THEN first ELSE TotalTime
    [] call.at = "pause" -> call.until
    [] OTHER -> now

Tick ==
  /\ now < Due /\ now' = now + 1
  /\ UNCHANGED <<Kept, plan, call, retry, sent, told>>

FetchStep ==
  \/ Send \/ Redirect \/ SendFails \/ Forbidden \/ Busy \/ OtherStatus \/ Unmodified
  \/ BodyBegins \/ Chunk \/ BodyRefused \/ BodyEnds \/ BodyFails
  \/ UsageAnswer \/ HeadUnknown \/ Resume \/ Interrupted

FetchNext == FetchStep \/ Tick \/ Cancel

\* the runtime polls the operation and time passes
FetchProgress == FetchStep \/ Tick

----------------------------------------------------------------------------
\* One retry in all, not one per attempt, per request or per body: no server
\* can make an operation send more than its attempts and one.
RequestsAreFew ==
  sent <= fetchOp.attempts - Len(plan) + (IF retry THEN 1 ELSE 2)

\* What comes back: "unchanged" only to a caller who has a copy, and a field
\* of the quota only if it was said once, and well.
AnswersAreSound ==
  /\ told.is = "unchanged" => fetchOp.known
  /\ told.is = "usage" \/ told.is = "content" => UsageOf(told.usage) = Unambiguous(told.usage)

\* After a cancellation nothing is sent any more, and past the deadline
\* nothing is sent either.
NothingSentLate == sent' > sent => ~stopped /\ now < TotalTime

=============================================================================
