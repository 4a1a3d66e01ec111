-------------------------- MODULE SubscriptionTask --------------------------
(***************************************************************************)
(* The tasks that ask subscription servers and what they write:            *)
(* subscription_task.rs (start, cancel, begin_commit, finish), the refresh *)
(* and the import of profile_service.rs, the poller of                     *)
(* subscription_quota.rs, the edits of subscription_edit.rs and the        *)
(* observations of storage.rs 310-384.  Profile "p" is there from the      *)
(* start, an import may add "q".  A source (url and client name) is known  *)
(* by the time of the edit that made it, 0 for the first.                  *)
(***************************************************************************)
EXTENDS Naturals

CONSTANTS
  Urls,         \* the addresses a subscription may have
  Bodies,       \* what a server may answer
  MaxClock,     \* bound: moments that are told apart
  Together      \* bound: the sets of operations that run in one behaviour

VARIABLES
  clock,        \* Utc::now, one step for every moment somebody remembers
  profiles,     \* [p, q -> [url, source, body, fresh]]; url "none" when absent
  status,       \* subscription-status.json of p
  task,         \* the snapshot of the latest task of each operation
  job,          \* the thread of control of that task
  taskPermit,   \* which task has the configuration permit
  team          \* the member of Together of this behaviour

subscriptionVars == <<clock, profiles, status, task, job, taskPermit, team>>

Ops == {"refresh", "quota", "import"}
Terminal == {"none", "completed", "failed", "cancelled"}
NoJob == [at |-> "idle", source |-> 0, fresh |-> FALSE, url |-> "none", started |-> 0,
          got |-> "none", ok |-> FALSE, wrote |-> FALSE]
NoTask == [phase |-> "none", flag |-> FALSE, can |-> FALSE]
Absent == [url |-> "none", source |-> 0, body |-> "none", fresh |-> FALSE]

SubscriptionTypeOK ==
  /\ clock \in 0..MaxClock
  /\ profiles \in LET P == [url: Urls \union {"none"}, source: 0..MaxClock,
                            body: Bodies \union {"none"}, fresh: BOOLEAN]
                   IN [p: P, q: P]
  /\ \A k \in {"config", "quota", "summary", "usage", "usageOf"} : status[k] \in 0..MaxClock
  /\ \A o \in Ops :
       /\ task[o].phase \in Terminal \union {"live", "committing"}
       /\ task[o].flag \in BOOLEAN /\ task[o].can \in BOOLEAN
       /\ job[o].started \in 0..MaxClock
  /\ taskPermit \in Ops \union {"free"}

SubscriptionInit ==
  /\ clock = 0 /\ taskPermit = "free" /\ team \in Together
  /\ profiles = [p |-> [url |-> CHOOSE u \in Urls : TRUE, source |-> 0,
                         body |-> CHOOSE b \in Bodies : TRUE, fresh |-> TRUE],
                  q |-> Absent]
  /\ status = [config |-> 0, quota |-> 0, summary |-> 0, usage |-> 0, usageOf |-> 0]
  /\ task = [o \in Ops |-> NoTask] /\ job = [o \in Ops |-> NoJob]

----------------------------------------------------------------------------
(* subscription_task.rs                                                    *)

\* TaskManager::start: no second live task of an operation
NewTask == [phase |-> "live", flag |-> FALSE, can |-> TRUE]
MayStart(o) == o \in team /\ task[o].phase \in Terminal

Cancel(o) ==
  /\ task[o].can /\ task[o].phase \notin Terminal
  /\ task' = [task EXCEPT ![o].flag = TRUE, ![o].can = FALSE]
  /\ UNCHANGED <<clock, profiles, status, job, taskPermit>>

Leave(o, ok) == job' = [job EXCEPT ![o].at = "over", ![o].ok = ok, ![o].got = "none", ![o].url = "none"]
Ended(j) == [NoJob EXCEPT !.wrote = j.wrote]
Release(o) == taskPermit' = IF taskPermit = o THEN "free" ELSE taskPermit

\* mutant: the flag is not read again
CommitsAnyway(o) == task' = [task EXCEPT ![o].phase = "committing", ![o].can = FALSE]

\* begin_commit: the flag is read and can_cancel withdrawn under one lock
Commits(o) == ~task[o].flag /\ task' = [task EXCEPT ![o].phase = "committing", ![o].can = FALSE]

Refused(o) == task[o].flag /\ UNCHANGED task

Finish(o) ==
  task' = [task EXCEPT ![o].can = FALSE,
             ![o].phase = IF job[o].ok THEN "completed"
                          ELSE IF task[o].flag THEN "cancelled" ELSE "failed"]

----------------------------------------------------------------------------
(* What all tasks do: fetch, wait for the permit, fail                     *)

Quiet == UNCHANGED <<clock, profiles, status>>

Fetched(o) ==
  /\ job[o].at = "fetching"
  /\ \E b \in Bodies \union {"same"} :
       /\ b = "same" => o = "refresh" /\ job[o].fresh \* the etag of this source
       /\ job' = [job EXCEPT ![o].got = IF o = "quota" THEN "none" ELSE b, ![o].ok = o = "quota",
                             ![o].at = IF o = "quota" THEN "over" ELSE "waiting"]
  /\ Quiet /\ UNCHANGED <<task, taskPermit>>

\* an error, the time limit of the permit, or the cancellation that wins select!
JobFails(o) ==
  /\ job[o].at \in {"fetching", "waiting"}
  /\ Leave(o, FALSE)
  /\ Quiet /\ UNCHANGED <<task, taskPermit>>

TakePermit(o) ==
  /\ job[o].at = "waiting" /\ taskPermit = "free"
  /\ taskPermit' = o /\ job' = [job EXCEPT ![o].at = "checking"]
  /\ Quiet /\ UNCHANGED task

\* validate, under the permit; the check of the rules may be cancelled
Validated(o) ==
  /\ job[o].at = "validating"
  /\ job' = [job EXCEPT ![o].at = "ready"]
  /\ Quiet /\ UNCHANGED <<task, taskPermit>>

\* where an error under the permit leads: an import removes its profile first
Abandon(o) ==
  IF o = "import" /\ job[o].at \notin {"checking", "found"}
    THEN job' = [job EXCEPT ![o].at = "undo"] /\ UNCHANGED taskPermit
    ELSE Leave(o, FALSE) /\ Release(o)

ValidationFails(o) ==
  /\ job[o].at = "validating" /\ Abandon(o)
  /\ Quiet /\ UNCHANGED task

BeginCommit(o) ==
  /\ job[o].at = "ready"
  /\ \/ Commits(o) /\ job' = [job EXCEPT ![o].at = "writing"] /\ UNCHANGED taskPermit
     \/ Refused(o) /\ Abandon(o)
  /\ Quiet

\* an unchanged body, or an address that is there: committed without a write
CommitFound(o) ==
  /\ job[o].at = "found"
  /\ \/ Commits(o) /\ Leave(o, TRUE)
     \/ Refused(o) /\ Leave(o, FALSE)
  /\ Release(o) /\ Quiet

\* save_revision, then the profile; an error may leave the revision behind
Write(o) ==
  LET p == IF o = "import" THEN "q" ELSE "p"
      written == [profiles EXCEPT ![p].body = job[o].got, ![p].fresh = TRUE]
  IN
  /\ job[o].at = "writing"
  /\ \/ /\ profiles' = written
        /\ job' = [job EXCEPT ![o] = [NoJob EXCEPT !.at = "over", !.ok = TRUE, !.wrote = TRUE,
                                                !.source = job[o].source, !.started = job[o].started]]
        /\ Release(o)
     \/ /\ profiles' = written \/ UNCHANGED profiles
        /\ job' = [job EXCEPT ![o].at = IF o = "import" THEN "undo" ELSE "over", ![o].wrote = TRUE]
        /\ IF o = "import" THEN UNCHANGED taskPermit ELSE Release(o)
  /\ UNCHANGED <<clock, status, task>>

----------------------------------------------------------------------------
(* refresh_profile                                                         *)

RefreshLoads ==
  /\ MayStart("refresh") /\ job["refresh"].at = "idle"
  /\ task' = [task EXCEPT !["refresh"] = NewTask]
  /\ job' = [job EXCEPT !["refresh"] = [NoJob EXCEPT !.at = "loaded", !.source = profiles.p.source,
                                                     !.fresh = profiles.p.fresh]]
  /\ Quiet /\ UNCHANGED taskPermit

\* request_started: read after the profile
Stamp(o, from) ==
  /\ job[o].at = from /\ clock < MaxClock
  /\ clock' = clock + 1
  /\ job' = [job EXCEPT ![o].at = "fetching", ![o].started = clock']
  /\ UNCHANGED <<profiles, status, taskPermit>>

RefreshStamps == Stamp("refresh", "loaded") /\ UNCHANGED task

\* mutant: the source is not compared after the download
SourceAssumed == TRUE

SourceKept == profiles.p.source = job["refresh"].source

RefreshChecks ==
  LET j == job["refresh"] IN
  /\ j.at = "checking"
  /\ IF ~SourceKept \/ task["refresh"].flag
       THEN Leave("refresh", FALSE) /\ Release("refresh")
       ELSE /\ job' = [job EXCEPT !["refresh"].at =
                         IF j.got \in {"same", profiles.p.body} THEN "found" ELSE "validating"]
            /\ UNCHANGED taskPermit
  /\ Quiet /\ UNCHANGED task

----------------------------------------------------------------------------
(* create_subscription and persist_new_subscription                        *)

Taken(u) == \E p \in DOMAIN profiles : profiles[p].url = u

ImportStarts(u) ==
  /\ MayStart("import") /\ job["import"].at = "idle" /\ profiles.q.url = "none"
  /\ task' = [task EXCEPT !["import"] = NewTask]
  /\ job' = [job EXCEPT !["import"] = [NoJob EXCEPT !.at = IF Taken(u) THEN "found" ELSE "fetching",
                                                    !.url = u]]
  /\ Quiet /\ UNCHANGED taskPermit

\* mutant: the address is not looked for again under the permit
ImportChecksFlagOnly ==
  LET u == job["import"].url IN
  /\ job["import"].at = "checking" /\ ~task["import"].flag
  /\ job' = [job EXCEPT !["import"].at = "validating"]
  /\ profiles' = [profiles EXCEPT !.q = [Absent EXCEPT !.url = u]]
  /\ UNCHANGED <<clock, status, task, taskPermit>>

\* the address is looked for once more, now under the permit
ImportChecks ==
  LET u == job["import"].url IN
  /\ job["import"].at = "checking"
  /\ IF task["import"].flag
       THEN Leave("import", FALSE) /\ Release("import") /\ UNCHANGED profiles
       ELSE /\ UNCHANGED taskPermit
            /\ IF Taken(u)
                 THEN job' = [job EXCEPT !["import"].at = "found"] /\ UNCHANGED profiles
                 ELSE /\ job' = [job EXCEPT !["import"].at = "validating"]
                      /\ profiles' = [profiles EXCEPT !.q = [Absent EXCEPT !.url = u]]
  /\ UNCHANGED <<clock, status, task>>

\* delete_profile, whose error is ignored
ImportUndo ==
  /\ job["import"].at = "undo"
  /\ Leave("import", FALSE) /\ Release("import")
  /\ profiles' = [profiles EXCEPT !.q = Absent] \/ UNCHANGED profiles
  /\ UNCHANGED <<clock, status, task>>

ImportEnds ==
  /\ job["import"].at = "over" /\ Finish("import")
  /\ job' = [job EXCEPT !["import"] = Ended(@)]
  /\ Quiet /\ UNCHANGED taskPermit

----------------------------------------------------------------------------
(* the poller of subscription_quota.rs                                     *)

\* all profiles are listed once for a round
QuotaLists ==
  /\ "quota" \in team /\ job["quota"].at = "idle"
  /\ job' = [job EXCEPT !["quota"] = [NoJob EXCEPT !.at = "listed", !.source = profiles.p.source]]
  /\ Quiet /\ UNCHANGED <<task, taskPermit>>

\* the turn of p comes when the earlier profiles of the round have been asked
QuotaStarts ==
  /\ MayStart("quota") /\ Stamp("quota", "listed")
  /\ task' = [task EXCEPT !["quota"] = NewTask]

QuotaFinishes ==
  /\ job["quota"].at = "over" /\ Finish("quota")
  /\ job' = [job EXCEPT !["quota"].at = "observing"]
  /\ Quiet /\ UNCHANGED taskPermit

----------------------------------------------------------------------------
(* record_subscription_observation, under OBSERVATION_WRITE                *)

Channel(o) == IF o = "quota" THEN "quota" ELSE "config"

\* the shared summary and the usage take no answer older than the one they have
Summary(s, j, usage) ==
  IF s.summary > j.started THEN s
  ELSE IF j.ok /\ usage
    THEN [s EXCEPT !.summary = j.started, !.usage = j.started, !.usageOf = j.source]
    ELSE [s EXCEPT !.summary = j.started]

Observed(o, usage) ==
  LET j == job[o] IN
  IF j.started < profiles.p.source \/ status[Channel(o)] > j.started
    THEN status
    ELSE Summary([status EXCEPT ![Channel(o)] = j.started], j, usage)

\* a cancelled refresh records nothing; the file may refuse
Records(o) ==
  \/ UNCHANGED status
  \/ /\ o = "quota" \/ job[o].ok \/ ~task[o].flag
     /\ \E usage \in BOOLEAN : status' = Observed(o, usage)

RefreshObserves ==
  /\ job["refresh"].at = "over"
  /\ Records("refresh") /\ job' = [job EXCEPT !["refresh"].at = "observed"]
  /\ UNCHANGED <<clock, profiles, task, taskPermit>>

RefreshEnds ==
  /\ job["refresh"].at = "observed" /\ Finish("refresh")
  /\ job' = [job EXCEPT !["refresh"] = Ended(@)]
  /\ Quiet /\ UNCHANGED taskPermit

QuotaObserves ==
  /\ job["quota"].at = "observing"
  /\ Records("quota") /\ job' = [job EXCEPT !["quota"] = Ended(@)]
  /\ UNCHANGED <<clock, profiles, task, taskPermit>>

----------------------------------------------------------------------------
(* the user; whoever else has the permit only makes a task wait           *)

\* subscription_edit.rs save; an address of another profile is refused
EditSource(u) ==
  /\ taskPermit = "free" /\ clock < MaxClock
  /\ u # profiles.p.url => ~Taken(u)
  /\ clock' = clock + 1
  /\ profiles' = [profiles EXCEPT !.p.url = u, !.p.source = clock', !.p.fresh = FALSE]
  /\ UNCHANGED <<status, task, job, taskPermit>>

DeleteImported ==
  /\ taskPermit = "free" /\ profiles.q.url # "none"
  /\ profiles' = [profiles EXCEPT !.q = Absent]
  /\ UNCHANGED <<clock, status, task, job, taskPermit>>

SubscriptionStep ==
  \/ \E o \in Ops :
       \/ Cancel(o) \/ Fetched(o) \/ JobFails(o) \/ TakePermit(o) \/ Validated(o)
       \/ ValidationFails(o) \/ BeginCommit(o) \/ CommitFound(o) \/ Write(o)
  \/ RefreshLoads \/ RefreshStamps \/ RefreshChecks \/ RefreshObserves \/ RefreshEnds
  \/ (\E u \in Urls : ImportStarts(u) \/ EditSource(u))
  \/ ImportChecks \/ ImportUndo \/ ImportEnds
  \/ QuotaLists \/ QuotaStarts \/ QuotaFinishes \/ QuotaObserves
  \/ DeleteImported

SubscriptionNext == SubscriptionStep /\ UNCHANGED team

----------------------------------------------------------------------------
\* Cancel or commit, exactly one side wins (the comment in begin_commit): a task
\* that has accepted a cancellation writes nothing and does not complete, one
\* that reports "cancelled" has written nothing.
CancelOrCommit ==
  \A o \in {"refresh", "import"} :
    /\ task[o].flag \/ task[o].phase = "cancelled" => ~job[o].wrote
    /\ task[o].phase = "completed" => ~task[o].flag

\* No two subscriptions have one address, although an import looks for it
\* before a download and an edit may come in between.
UniqueUrls == profiles.p.url # profiles.q.url

\* However the answers of a refresh and of the poller overtake each other, no
\* channel, summary or usage goes back to an older request (storage.rs 340).
ObservationAdvances == \A k \in {"config", "quota", "summary", "usage"} : status'[k] >= status[k]

\* A revision is written only with a body of the source the profile has then,
\* however long the download took (profile_service.rs 552-558).
RevisionOfSource == profiles'.p.body # profiles.p.body => job["refresh"].source = profiles.p.source

\* "Old download results are checked" (release notes 0.7.25, line 21): a usage
\* that was asked for after the last edit of the source is that of this source.
UsageOfSource == status.usage > profiles.p.source => status.usageOf = profiles.p.source

=============================================================================
