------------------------------ MODULE AtomicFile ------------------------------
(***************************************************************************)
(* write_private_atomic (storage.rs 755-791) at the grain of its calls of  *)
(* the file system, for one JSON file that exists since the first launch.  *)
(* Commands write it under the configuration permit.  AppStorage::settings *)
(* (57-74) is called without it by every status query, and writes the      *)
(* defaults when it finds no file.                                         *)
(*                                                                         *)
(* Every call may fail, and the process may die between any two.           *)
(***************************************************************************)
CONSTANTS Commands, Queries, NoOne, Contents, Default, Missing

ASSUME ActorsAssumption ==
  Commands \intersect Queries = {} /\ NoOne \notin Commands \union Queries
ASSUME ContentsAssumption == Default \in Contents /\ Missing \notin Contents

VARIABLES
  file,     \* the content under the file's name
  backup,   \* the content under ".<name>.backup"
  permit,   \* the command that holds the configuration permit
  pc,       \* the next call of each writer
  value,    \* the content of each writer's temporary file
  answer,   \* what the last command was told, until the next one
  before,   \* history: the file when the last command began
  latest,   \* history: the content that a command put in place last
  faults    \* history: what has gone wrong

vars == <<file, backup, permit, pc, value, answer, before, latest, faults>>

Actors == Commands \union Queries
Stored == Contents \union {Missing}
Calls == {"create", "exists", "stale", "aside", "swap", "putback", "clean"}

(* "gap": a query took a file that was being replaced for one that was     *)
(* never written.  "died": the process ended.  "error": a write failed.    *)
Faults == {"gap", "died", "error"}

TypeOK ==
  /\ file \in Stored /\ backup \in Stored
  /\ permit \in Commands \union {NoOne}
  /\ pc \in [Actors -> Calls \union {"idle"}]
  /\ value \in [Actors -> Contents]
  /\ answer \in {"none", "ok", "failed", "gone"}
  /\ before \in Stored /\ latest \in Contents
  /\ faults \in SUBSET Faults

Init ==
  /\ file \in Contents /\ backup = Missing
  /\ permit = NoOne
  /\ pc = [a \in Actors |-> "idle"] /\ value = [a \in Actors |-> Default]
  /\ answer = "none"
  /\ before = file /\ latest = file /\ faults = {}

At(a, call) == pc[a] = call
Goto(a, call) == pc' = [pc EXCEPT ![a] = call]

(* The writer returns; a command drops its permit.                         *)
Returns(a, what) ==
  /\ Goto(a, "idle")
  /\ faults' = IF what = "ok" THEN faults ELSE faults \union {"error"}
  /\ IF a \in Commands THEN permit' = NoOne /\ answer' = what
                       ELSE UNCHANGED <<permit, answer>>

Proceeds(a, call) == Goto(a, call) /\ UNCHANGED <<permit, answer, faults>>

---------------------------------------------------------------------------
(* Mutant: a command that writes without the permit.                       *)
SaveAnytime(c, v) ==
  /\ At(c, "idle")
  /\ permit' = c /\ value' = [value EXCEPT ![c] = v]
  /\ before' = file /\ answer' = "none"
  /\ Goto(c, "create")
  /\ UNCHANGED <<file, backup, latest, faults>>

Save(c, v) ==
  /\ permit = NoOne /\ At(c, "idle")
  /\ permit' = c /\ value' = [value EXCEPT ![c] = v]
  /\ before' = file /\ answer' = "none"
  /\ Goto(c, "create")
  /\ UNCHANGED <<file, backup, latest, faults>>

(* settings(): no file, so the defaults are saved.                         *)
SaveDefaults(q) ==
  /\ At(q, "idle") /\ file = Missing
  /\ value' = [value EXCEPT ![q] = Default]
  /\ faults' = faults \union {"gap"}
  /\ Goto(q, "create")
  /\ UNCHANGED <<file, backup, permit, answer, before, latest>>

(* The temporary file is created, written, synced and made private.        *)
Create(a) ==
  /\ At(a, "create")
  /\ Proceeds(a, "exists") \/ Returns(a, "failed")
  /\ UNCHANGED <<file, backup, value, before, latest>>

Exists(a) ==
  /\ At(a, "exists")
  /\ Proceeds(a, IF file = Missing THEN "swap" ELSE "stale")
  /\ UNCHANGED <<file, backup, value, before, latest>>

(* A backup that an earlier write has left is removed.                     *)
RemoveStale(a) ==
  /\ At(a, "stale")
  /\ \/ backup' = Missing /\ Proceeds(a, "aside")
     \/ backup # Missing /\ UNCHANGED backup /\ Returns(a, "failed")
  /\ UNCHANGED <<file, value, before, latest>>

Aside(a) ==
  /\ At(a, "aside")
  /\ \/ /\ file # Missing
        /\ backup' = file /\ file' = Missing
        /\ Proceeds(a, "swap")
     \/ UNCHANGED <<file, backup>> /\ Returns(a, "failed")
  /\ UNCHANGED <<value, before, latest>>

Swap(a) ==
  /\ At(a, "swap")
  /\ \/ /\ file' = value[a]
        /\ latest' = IF a \in Commands THEN value[a] ELSE latest
        /\ Proceeds(a, "clean")
     \/ UNCHANGED <<file, latest>> /\ Proceeds(a, "putback")
  /\ UNCHANGED <<backup, value, before>>

(* The way back, whose own error is ignored.                               *)
PutBack(a) ==
  /\ At(a, "putback")
  /\ \/ /\ backup # Missing
        /\ file' = backup /\ backup' = Missing
        /\ Returns(a, "failed")
     \/ UNCHANGED <<file, backup>> /\ Returns(a, "gone")
  /\ UNCHANGED <<value, before, latest>>

(* A failure here is reported although the new content is in place.        *)
Clean(a) ==
  /\ At(a, "clean")
  /\ \/ backup' = Missing /\ Returns(a, "ok")
     \/ backup # Missing /\ UNCHANGED backup /\ Returns(a, "failed")
  /\ UNCHANGED <<file, value, before, latest>>

(* Mutant: a dead process leaves its permit behind and its position.       *)
DieWithPermit ==
  /\ faults' = faults \union {"died"}
  /\ pc' = [a \in Actors |-> "idle"] /\ permit' = Missing /\ answer' = "none"
  /\ UNCHANGED <<file, backup, value, before, latest>>

(* The process dies; the next one starts with the files as they are.       *)
Die ==
  /\ faults' = faults \union {"died"}
  /\ pc' = [a \in Actors |-> "idle"] /\ permit' = NoOne /\ answer' = "none"
  /\ UNCHANGED <<file, backup, value, before, latest>>

Write(a) ==
  \/ Create(a) \/ Exists(a) \/ RemoveStale(a) \/ Aside(a)
  \/ Swap(a) \/ PutBack(a) \/ Clean(a)

Next ==
  \/ \E c \in Commands, v \in Contents : Save(c, v)
  \/ \E q \in Queries : SaveDefaults(q)
  \/ \E a \in Actors : Write(a)
  \/ Die

Spec == Init /\ [][Next]_vars

---------------------------------------------------------------------------
(* Whatever fails and whenever the process dies: what can be read is the   *)
(* latest content or nothing, never an older one, and if it is nothing the *)
(* backup has the latest.  Claimed until a query takes the gap between the *)
(* two renames for a first launch.                                         *)
LatestIsThere ==
  "gap" \notin faults =>
    file = latest \/ (file = Missing /\ backup = latest)

(* What a write may tell its caller: ok means the new content; an error    *)
(* means the old one or, after the swap, the new one (the callers' undo    *)
(* counts on both); the file is missing only if it was, or if the way back *)
(* failed as well.                                                         *)
AnswersAreKnown ==
  "gap" \notin faults =>
    /\ answer = "ok" => file = latest /\ backup = Missing
    /\ answer = "failed" => file \in {before, latest}
    /\ answer = "gone" => file = Missing

(* A replacement is atomic for those who read, as docs section 15.2 asks:  *)
(* if no process has died, no write has failed and none is under way, the  *)
(* file has what a command saved last.  A query that looks between the two *)
(* renames breaks it: the defaults stay.                                   *)
SettingsAreKept ==
  faults \subseteq {"gap"} /\ (\A a \in Actors : At(a, "idle")) => file = latest
=============================================================================
