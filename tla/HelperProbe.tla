---------------------------- MODULE HelperProbe ----------------------------
(***************************************************************************)
(* The status of the privileged helper on macOS: SharedProbe of            *)
(* tun_service/lifecycle.rs lets every reader share one request in flight, *)
(* and the mutations of tun_service/admin.rs (register, unregister,        *)
(* repair) invalidate what was asked before them.  macos_service.rs keeps  *)
(* `pending` set after a caller's timeout until the system completes the   *)
(* removal.  Each registered helper process has a number; 0 is none.       *)
(***************************************************************************)
EXTENDS Integers, Sequences

CONSTANTS
  Readers,      \* threads that run admin::status
  Admin,        \* the thread of a mutation when it awaits the handshake
  MaxEpoch,     \* bound: helper processes
  MaxFlights,   \* bound: requests
  MaxResets     \* bound: resets of the probe when a mutation begins

VARIABLES
  service,     \* the system's: [helper, last, approval, pending, removing]
  generation,  \* ProbeState.generation
  flight,      \* ProbeState.flight: index of the shared request, or 0
  requests,    \* every request: [gen, seen, done]; seen -1 is an error
  reader,      \* [at, on, told] of each reader
  mutation,    \* [op, at] of the owner of MUTATION
  gone         \* history: the last helper a mutation has removed or replaced

helperVars == <<service, generation, flight, requests, reader, mutation, gone>>

AllReaders == Readers \union {Admin}
Idle == [op |-> "none", at |-> "idle"]
Reset == generation' = generation + 1 /\ flight' = 0

HelperTypeOK ==
  /\ service.helper \in 0..MaxEpoch /\ service.last \in 0..MaxEpoch
  /\ service.approval \in BOOLEAN /\ service.pending \in BOOLEAN
  /\ service.removing \in {"no", "asked", "removed", "refused"}
  /\ generation \in Nat /\ flight \in 0..Len(requests)
  /\ \A i \in DOMAIN requests :
       requests[i].seen \in -1..MaxEpoch /\ requests[i].done \in BOOLEAN
  /\ \A r \in AllReaders :
       /\ reader[r].at \in {"idle", "checked", "waiting"}
       /\ reader[r].on \in 0..Len(requests) /\ reader[r].told \in -1..MaxEpoch
  /\ mutation.op \in {"none", "register", "unregister", "repair"}
  /\ gone \in 0..MaxEpoch

HelperInit ==
  /\ service = [helper |-> 1, last |-> 1, approval |-> FALSE, pending |-> FALSE, removing |-> "no"]
  /\ generation = 0 /\ flight = 0 /\ requests = <<>>
  /\ reader = [r \in AllReaders |-> [at |-> "idle", on |-> 0, told |-> 0]]
  /\ mutation = Idle /\ gone = 0

----------------------------------------------------------------------------
(* SharedProbe::read                                                       *)

ProbeVars == <<service, mutation, gone>>

\* admin::status: not while the service is unregistering, and only when enabled
StatusChecks(r) ==
  /\ r \in Readers /\ reader[r].at = "idle"
  /\ ~service.pending /\ service.helper # 0 /\ ~service.approval
  /\ reader' = [reader EXCEPT ![r] = [at |-> "checked", on |-> 0, told |-> 0]]
  /\ UNCHANGED <<ProbeVars, generation, flight, requests>>

\* an unfinished request, or a finished one younger than the time to live
Reusable == flight # 0

ReadJoins(r) ==
  /\ reader[r].at = "checked" /\ Reusable
  /\ reader' = [reader EXCEPT ![r].at = "waiting", ![r].on = flight]
  /\ UNCHANGED <<ProbeVars, generation, flight, requests>>

ReadStarts(r) ==
  /\ reader[r].at = "checked"
  /\ flight # 0 => requests[flight].done
  /\ Len(requests) < MaxFlights
  /\ requests' = Append(requests, [gen |-> generation, seen |-> 0, done |-> FALSE])
  /\ flight' = Len(requests')
  /\ reader' = [reader EXCEPT ![r].at = "waiting", ![r].on = flight']
  /\ UNCHANGED <<ProbeVars, generation>>

\* the worker thread: the helper answers, or nobody does; the answer travels
HelperAnswers(i) ==
  /\ requests[i].seen = 0
  /\ requests' = [requests EXCEPT ![i].seen =
       IF service.helper # 0 /\ ~service.approval THEN service.helper ELSE -1]
  /\ UNCHANGED <<ProbeVars, generation, flight, reader>>

WorkerStores(i) ==
  /\ requests[i].seen # 0 /\ ~requests[i].done
  /\ requests' = [requests EXCEPT ![i].done = TRUE]
  /\ UNCHANGED <<ProbeVars, generation, flight, reader>>

\* Registration and repair invalidate older results, late replies included:
\* told stays 0, which is Checking
Outcome(r) ==
  LET q == requests[reader[r].on] IN IF q.done /\ generation = q.gen THEN q.seen ELSE 0

ReadEnds(r) ==
  /\ reader[r].at = "waiting"
  /\ reader' = [reader EXCEPT ![r].at = "idle", ![r].told = Outcome(r)]
  /\ UNCHANGED <<ProbeVars, generation, flight, requests>>

----------------------------------------------------------------------------
(* register, unregister and repair, one at a time (MUTATION)               *)

AdminVars == <<requests, reader, gone>>

BeginRegister ==
  /\ mutation = Idle /\ ~service.pending /\ generation < MaxResets
  /\ mutation' = [op |-> "register", at |-> "enable"]
  /\ Reset
  /\ UNCHANGED <<service, AdminVars>>

BeginRemoval(op) ==
  /\ mutation = Idle /\ generation < MaxResets
  /\ op = "repair" => ~service.approval
  /\ mutation' = [op |-> op, at |-> "remove"]
  /\ Reset
  /\ UNCHANGED <<service, AdminVars>>

\* Service::unregister: a removal still pending refuses, an absent service is done
AskRemoval ==
  /\ mutation.at = "remove"
  /\ \/ /\ service.pending \* "not executed again"
        /\ mutation' = Idle /\ UNCHANGED service
     \/ /\ ~service.pending /\ service.helper = 0
        /\ mutation' = [mutation EXCEPT !.at = "removed"] /\ UNCHANGED service
     \/ /\ ~service.pending /\ service.helper # 0
        /\ mutation' = [mutation EXCEPT !.at = "wait"]
        /\ service' = [service EXCEPT !.pending = TRUE, !.removing = "asked"]
  /\ UNCHANGED <<generation, flight, AdminVars>>

\* the system's completion handler, perhaps after the caller has given up
SystemCompletes ==
  /\ service.removing = "asked"
  /\ \/ service' = [service EXCEPT !.helper = 0, !.pending = FALSE, !.removing = "removed"]
     \/ service' = [service EXCEPT !.pending = FALSE, !.removing = "refused"]
  /\ UNCHANGED <<generation, flight, AdminVars, mutation>>

RemovalDone ==
  /\ mutation.at = "wait" /\ service.removing \in {"removed", "refused"}
  /\ service' = [service EXCEPT !.removing = "no"]
  /\ mutation' = IF service.removing = "removed" THEN [mutation EXCEPT !.at = "removed"] ELSE Idle
  /\ UNCHANGED <<generation, flight, AdminVars>>

RemovalTimesOut ==
  /\ mutation.at = "wait" /\ mutation' = Idle
  /\ UNCHANGED <<service, generation, flight, AdminVars>>

LateCompletionIsDropped ==
  /\ mutation.at # "wait" /\ service.removing \in {"removed", "refused"}
  /\ service' = [service EXCEPT !.removing = "no"]
  /\ UNCHANGED <<generation, flight, AdminVars, mutation>>

\* reset_service_probes after the removal; repair goes on with register_inner
AfterRemoval ==
  /\ mutation.at = "removed"
  /\ Reset /\ gone' = service.last
  /\ mutation' = IF mutation.op = "repair" THEN [mutation EXCEPT !.at = "enable"] ELSE Idle
  /\ UNCHANGED <<service, requests, reader>>

\* register_inner: ensure_settled, then SMAppService registers what is not there
EnableFails == mutation.at = "enable" /\ mutation' = Idle
               /\ UNCHANGED <<service, generation, flight, AdminVars>>

Enable ==
  /\ mutation.at = "enable" /\ ~service.pending
  /\ IF service.helper # 0 THEN UNCHANGED <<service, gone>>
     ELSE /\ service.last < MaxEpoch /\ gone' = service.last
          /\ \E a \in BOOLEAN :
               service' = [service EXCEPT !.helper = service.last + 1, !.last = @ + 1, !.approval = a]
  /\ mutation' = [mutation EXCEPT !.at = "handshake"]
  /\ Reset
  /\ UNCHANGED <<requests, reader>>

\* the loop of register_inner: an enabled service is probed until it answers
HandshakeReads ==
  /\ mutation.at = "handshake" /\ ~service.approval /\ reader[Admin].at = "idle"
  /\ reader[Admin].told \in {0, -1}
  /\ reader' = [reader EXCEPT ![Admin] = [at |-> "checked", on |-> 0, told |-> 0]]
  /\ UNCHANGED <<ProbeVars, generation, flight, requests>>

\* it has answered, awaits approval, or the deadline has passed
HandshakeEnds ==
  /\ mutation.at = "handshake" /\ reader[Admin].at = "idle"
  /\ mutation' = Idle /\ Reset
  /\ reader' = [reader EXCEPT ![Admin].told = 0]
  /\ UNCHANGED <<service, requests, gone>>

UserApproves ==
  /\ service.approval
  /\ service' = [service EXCEPT !.approval = FALSE]
  /\ UNCHANGED <<generation, flight, AdminVars, mutation>>

HelperNext ==
  \/ \E r \in AllReaders : StatusChecks(r) \/ ReadJoins(r) \/ ReadStarts(r) \/ ReadEnds(r)
  \/ \E i \in DOMAIN requests : HelperAnswers(i) \/ WorkerStores(i)
  \/ BeginRegister \/ (\E op \in {"unregister", "repair"} : BeginRemoval(op))
  \/ AskRemoval \/ SystemCompletes \/ RemovalDone \/ RemovalTimesOut \/ LateCompletionIsDropped
  \/ AfterRemoval \/ Enable \/ EnableFails \/ HandshakeReads \/ HandshakeEnds \/ UserApproves

----------------------------------------------------------------------------
\* No reader is told of a helper that a finished mutation has removed or
\* replaced: an answer of the old one that arrives after a repair is dropped
\* (lifecycle.rs 126).
AnswerFollowsRepair ==
  \A r \in AllReaders :
    reader'[r].told > 0 /\ reader[r].at = "waiting" /\ reader'[r].at = "idle"
      => reader'[r].told > gone

=============================================================================
