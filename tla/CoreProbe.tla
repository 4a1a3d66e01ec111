------------------------------- MODULE CoreProbe -------------------------------
(***************************************************************************)
(* The version of the core's file (binary_probe.rs): one probe at a time   *)
(* runs the file, its answer is kept with the identity of the file, status *)
(* calls read what is kept and never wait.  The file is replaced while     *)
(* probes run: by an update, by hand.                                      *)
(***************************************************************************)
EXTENDS Integers

CONSTANTS
  Callers,         \* threads that ask for the version
  Content,         \* what each file answers that may be at the path, in their order
  FlightTime,      \* how long a caller waits for the one that probes
  ErrorTime,       \* how long an error is kept
  MaxNow, MaxUpdates  \* bounds: time, updates

VARIABLES
  onDisk,          \* the identity of the file at the path, 0 for none
  files, backup,   \* the number of files so far; the one an update set aside
  kept,            \* ProbeCache.entry: identity, result, time
  flight,          \* who holds ProbeCache.flight
  caller,          \* per caller: step, ticket, start, identity, result
  clock,           \* time
  phaseOf,         \* the gate: generation, whether it admits
  seen             \* history: per caller the files at the path since it began

probeVars == <<onDisk, files, backup, kept, flight, caller, clock, phaseOf, seen>>

NoOne == "none"
NoFile == 0
Empty == [id |-> NoFile, result |-> "none", at |-> 0]
Asleep == [at |-> "idle", ticket |-> 0, since |-> 0, id |-> NoFile, result |-> "none"]
Broken == "broken"
Files == DOMAIN Content
Versions == {Content[f] : f \in Files} \ {Broken}

ProbeInit ==
  /\ onDisk = 1 /\ files = 1 /\ backup = NoFile
  /\ kept = Empty /\ flight = NoOne
  /\ caller = [c \in Callers |-> Asleep] /\ clock = 0
  /\ phaseOf = [generation |-> 0, open |-> TRUE]
  /\ seen = [c \in Callers |-> {}]

At(c, step) == caller[c].at = step
World == UNCHANGED <<onDisk, files, backup, clock, phaseOf>>
\* gate.check
Admitted(c) == phaseOf.open /\ phaseOf.generation = caller[c].ticket

\* the answer of a call; dropping the guard frees the flight
Answers(c, result) ==
  /\ caller' = [caller EXCEPT
       ![c] = [Asleep EXCEPT !.result = IF result \in Versions THEN result ELSE "none"]]
  /\ flight' = IF flight = c THEN NoOne ELSE flight
  /\ seen' = [seen EXCEPT ![c] = {}]

----------------------------------------------------------------------------
Ask(c) ==
  /\ At(c, "idle") /\ phaseOf.open
  /\ caller' = [caller EXCEPT ![c] =
       [Asleep EXCEPT !.at = "queue", !.ticket = phaseOf.generation, !.since = clock]]
  /\ seen' = [seen EXCEPT ![c] = {onDisk}]
  /\ World /\ UNCHANGED <<kept, flight>>

\* the bounded wait for the flight, the gate asked in every round
Queue(c) ==
  /\ At(c, "queue")
  /\ \/ ~Admitted(c) /\ Answers(c, "refused")
     \/ /\ Admitted(c) /\ flight = NoOne
        /\ flight' = c /\ caller' = [caller EXCEPT ![c].at = "look"]
        /\ UNCHANGED seen
     \/ /\ Admitted(c) /\ flight # NoOne /\ clock - caller[c].since >= FlightTime
        /\ Answers(c, "busy")
  /\ World /\ UNCHANGED kept

\* what is kept for this very file, an error for a short time only
Fresh(id) == kept.id = id /\ (kept.result \in Versions \/ clock - kept.at < ErrorTime)

Look(c) ==
  /\ At(c, "look")
  /\ IF ~Admitted(c) THEN Answers(c, "refused")
     ELSE IF onDisk = NoFile THEN Answers(c, "missing")
     ELSE IF Fresh(onDisk) THEN Answers(c, kept.result)
     ELSE /\ caller' = [caller EXCEPT ![c].at = "run", ![c].id = onDisk]
          /\ UNCHANGED <<flight, seen>>
  /\ World /\ UNCHANGED kept

\* the operation runs the file that is there now, whose first line is its
\* version; it may fail though the file is good
Run(c) ==
  /\ At(c, "run")
  /\ \E result \in {"error"} \union
       (IF onDisk = NoFile THEN {} ELSE {Content[onDisk]} \intersect Versions) :
       caller' = [caller EXCEPT ![c].at = "compare", ![c].result = result]
  /\ World /\ UNCHANGED <<kept, flight, seen>>

\* an answer counts only for the file that was there before and after
Compare(c) ==
  /\ At(c, "compare")
  /\ IF ~Admitted(c) THEN Answers(c, "refused") /\ UNCHANGED kept
     ELSE IF onDisk # caller[c].id THEN Answers(c, "changed") /\ UNCHANGED kept
     ELSE /\ kept' = [id |-> caller[c].id, result |-> caller[c].result, at |-> clock]
          /\ Answers(c, caller[c].result)
  /\ World

----------------------------------------------------------------------------
Put(file) ==
  /\ onDisk' = file
  /\ seen' = [c \in Callers |-> IF caller[c].at = "idle" THEN {} ELSE seen[c] \union {file}]
  /\ UNCHANGED <<kept, flight, caller, clock>>

\* by hand: another file, of an identity of its own, or none
Replace ==
  /\ \/ files + 1 \in Files /\ files' = files + 1 /\ Put(files')
     \/ onDisk # NoFile /\ Put(NoFile) /\ UNCHANGED files
  /\ UNCHANGED <<backup, phaseOf>>

\* an update pauses the gate; it may put the file it replaced back
Update ==
  /\ \/ /\ phaseOf.open /\ phaseOf.generation < MaxUpdates
        /\ phaseOf' = [generation |-> phaseOf.generation + 1, open |-> FALSE]
        /\ UNCHANGED <<onDisk, files, backup, seen>>
     \/ /\ ~phaseOf.open /\ backup = NoFile /\ onDisk # NoFile /\ files + 1 \in Files
        /\ backup' = onDisk /\ files' = files + 1 /\ Put(files') /\ UNCHANGED phaseOf
     \/ /\ ~phaseOf.open /\ backup # NoFile
        /\ Put(backup) /\ backup' = NoFile /\ UNCHANGED <<files, phaseOf>>
     \/ /\ ~phaseOf.open /\ phaseOf' = [phaseOf EXCEPT !.open = TRUE]
        /\ backup' = NoFile /\ UNCHANGED <<onDisk, files, seen>>
  /\ UNCHANGED <<kept, flight, caller, clock>>

Tick ==
  /\ clock < MaxNow /\ clock' = clock + 1
  /\ UNCHANGED <<onDisk, files, backup, kept, flight, caller, phaseOf, seen>>

ProbeNext ==
  \/ \E c \in Callers : Ask(c) \/ Queue(c) \/ Look(c) \/ Run(c) \/ Compare(c)
  \/ Replace \/ Update \/ Tick

Results == Versions \union {"none", "error"}

ProbeTypeOK ==
  /\ {onDisk, backup} \subseteq Files \union {NoFile} /\ files \in Files
  /\ kept.id \in {NoFile} \union Files /\ kept.result \in Results /\ kept.at \in 0..MaxNow
  /\ flight \in Callers \union {NoOne} /\ clock \in 0..MaxNow
  /\ \A c \in Callers :
       /\ caller[c].at \in {"idle", "queue", "look", "run", "compare"}
       /\ caller[c].result \in Results /\ seen[c] \subseteq {NoFile} \union Files

----------------------------------------------------------------------------
\* What is kept for a file is what that file answers, although the file that
\* was run may have been another: one set there by hand has another identity,
\* one an update took back has had the gate's generation changed.
KeptIsTrue ==
  kept.result \in Versions => Content[kept.id] = kept.result

\* One probe at a time runs the file; a version that is answered is that of a
\* file that was there during the call.
AnswersAreOfTheCall ==
  /\ \A c, d \in Callers :
       {caller[c].at, caller[d].at} \subseteq {"look", "run", "compare"} => c = d
  /\ \A c \in Callers :
       At(c, "idle") = FALSE /\ caller'[c].at = "idle" /\ caller'[c].result \in Versions =>
         \E file \in seen[c] \ {NoFile} : Content[file] = caller'[c].result
=============================================================================
