--------------------------- MODULE ProfileDeletion ---------------------------
(***************************************************************************)
(* The deletion of a profile (storage.rs 405-511, lib.rs 426-477): a       *)
(* transaction over state.json, runtime/active.yaml, settings.json and the *)
(* directory of the profile, under the journal profile-deletion.json.      *)
(* Every write may fail, and the process may die between any two; the next *)
(* launch completes what the journal names before anything else.           *)
(*                                                                         *)
(* Other commands are excluded by the configuration permit, and are one    *)
(* step each: their detail is in SessionControl.                           *)
(***************************************************************************)
EXTENDS Naturals

CONSTANTS Profiles, NoProfile

ASSUME ProfilesAssumption == NoProfile \notin Profiles

VARIABLES
  state,      \* active profile and desired_running of state.json
  where,      \* directory of a profile: "unborn", "here", "staged", "gone"
  yaml,       \* the profile that runtime/active.yaml was built from
  pinned,     \* profile of the legacy manual_outbound of settings.json
  journal,    \* profile-deletion.json
  phase,      \* "down", "launching" (the journal is worked off), "up"
  running,    \* the core runs with the selected profile
  pc,         \* the next step of the deletion
  old,        \* locals of delete_profile and delete_profile_transaction
  answer      \* what the last deletion has returned, until the next command

files == <<state, where, yaml, pinned, journal>>
vars == <<files, phase, running, pc, old, answer>>

MaybeProfile == Profiles \union {NoProfile}
States == [profile : MaybeProfile, desired : BOOLEAN]
Journals == [profile : MaybeProfile, active : BOOLEAN]
NoJournal == [profile |-> NoProfile, active |-> FALSE]

(* Mutant: the deletion clears the intent and not the selection.           *)
OnlyIntent == [profile |-> state.profile, desired |-> FALSE]

(* What commit_profile_deletion leaves of a selection.                     *)
Cleared == [profile |-> NoProfile, desired |-> FALSE]

Commit == {"state", "yaml", "settings", "move"}
Undo == {"undoSettings", "undoYaml", "undoState", "undoJournal"}
Finish == {"purge", "unjournal"}
Locations == {"idle", "stop", "check"} \union Commit \union Undo \union Finish

(* An atomic write replaces the file or not; one that fails afterwards, on *)
(* the removal of the backup, reports an error over the new content.       *)
Outcomes == {"ok", "kept", "leftover"}
Wrote(outcome, new, now) == IF outcome = "kept" THEN now ELSE new

TypeOK ==
  /\ state \in States
  /\ where \in [Profiles -> {"unborn", "here", "staged", "gone"}]
  /\ yaml \in MaybeProfile /\ pinned \in MaybeProfile
  /\ journal \in Journals
  /\ phase \in {"down", "launching", "up"} /\ running \in BOOLEAN
  /\ pc \in Locations
  /\ old \in [profile : MaybeProfile, state : States,
              yaml : MaybeProfile, pinned : MaybeProfile]
  /\ answer \in {"none", "ok", "refused", "undone", "announced", "unfinished"}

NoLocals == [profile |-> NoProfile, state |-> Cleared,
             yaml |-> NoProfile, pinned |-> NoProfile]

Init ==
  /\ where \in [Profiles -> {"unborn", "here"}]
  /\ state \in States
  /\ state.profile # NoProfile => where[state.profile] = "here"
  /\ yaml = state.profile
  /\ pinned \in MaybeProfile
  /\ pinned # NoProfile => where[pinned] = "here"
  /\ journal = NoJournal
  /\ phase = "down" /\ running = FALSE
  /\ pc = "idle" /\ old = NoLocals /\ answer = "none"

Ready == phase = "up" /\ pc = "idle"
Goto(next) == pc' = next
Reply(a) == pc' = "idle" /\ answer' = a

---------------------------------------------------------------------------
(* The other commands, each under the permit.                              *)

Add(p) ==
  /\ Ready /\ where[p] = "unborn"
  /\ where' = [where EXCEPT ![p] = "here"]
  /\ answer' = "none"
  /\ UNCHANGED <<state, yaml, pinned, journal, phase, running, pc, old>>

(* A selection is reloaded by the core, if that runs.                      *)
Select(p) ==
  /\ Ready /\ pinned = NoProfile /\ where[p] = "here"
  /\ state' = [state EXCEPT !.profile = p]
  /\ yaml' = p
  /\ answer' = "none"
  /\ UNCHANGED <<where, pinned, journal, phase, running, pc, old>>

Unpin ==
  /\ Ready /\ pinned # NoProfile
  /\ pinned' = NoProfile
  /\ answer' = "none"
  /\ UNCHANGED <<state, where, yaml, journal, phase, running, pc, old>>

Start ==
  /\ Ready /\ pinned = NoProfile /\ state.profile # NoProfile
  /\ running' = TRUE
  /\ state' = [state EXCEPT !.desired = TRUE]
  /\ answer' = "none"
  /\ UNCHANGED <<where, yaml, pinned, journal, phase, pc, old>>

Stop ==
  /\ Ready
  /\ running' = FALSE
  /\ state' = [state EXCEPT !.desired = FALSE]
  /\ answer' = "none"
  /\ UNCHANGED <<where, yaml, pinned, journal, phase, pc, old>>

---------------------------------------------------------------------------
(* delete_profile takes the permit; a selected profile is stopped first.   *)
Delete(p) ==
  /\ Ready /\ where[p] = "here"
  /\ old' = [NoLocals EXCEPT !.profile = p]
  /\ answer' = "none"
  /\ Goto(IF state.profile = p THEN "stop" ELSE "check")
  /\ UNCHANGED <<files, phase, running>>

StopFirst ==
  /\ pc = "stop"
  /\ state' = [state EXCEPT !.desired = FALSE]
  /\ running' = FALSE
  /\ Goto("check")
  /\ UNCHANGED <<where, yaml, pinned, journal, phase, old, answer>>

(* The intent is stored before proxy and core, which may fail too.         *)
StopFails ==
  /\ pc = "stop"
  /\ \/ UNCHANGED <<state, running>>
     \/ /\ state' = [state EXCEPT !.desired = FALSE]
        /\ running' \in {FALSE, running}
  /\ Reply("refused")
  /\ UNCHANGED <<where, yaml, pinned, journal, phase, old>>

Wanted == state.profile = old.profile /\ state.desired

Journal ==
  /\ pc = "check" /\ ~Wanted /\ journal = NoJournal
  /\ journal' = [profile |-> old.profile, active |-> state.profile = old.profile]
  /\ old' = [old EXCEPT !.state = state, !.yaml = yaml, !.pinned = pinned]
  /\ Goto("state")
  /\ UNCHANGED <<state, where, yaml, pinned, phase, running, answer>>

(* A conflict, an earlier journal, or the journal cannot be written.       *)
Refuse ==
  /\ pc = "check"
  /\ Reply("refused")
  /\ UNCHANGED <<files, phase, running, old>>

---------------------------------------------------------------------------
(* commit_profile_deletion, in the transaction and at launch.  A failure   *)
(* begins the undo, or aborts the launch.                                  *)
Failed ==
  IF phase = "up" THEN pc' = "undoSettings" /\ UNCHANGED <<phase, answer>>
  ELSE pc' = "idle" /\ phase' = "down" /\ UNCHANGED answer

Then(outcome, next) ==
  IF outcome = "ok" THEN pc' = next /\ UNCHANGED <<phase, answer>> ELSE Failed

ClearState ==
  /\ pc = "state"
  /\ IF state.profile = journal.profile
     THEN \E outcome \in Outcomes :
            /\ state' = Wrote(outcome, Cleared, state)
            /\ Then(outcome, "yaml")
     ELSE UNCHANGED state /\ Then("ok", "yaml")
  /\ UNCHANGED <<where, yaml, pinned, journal, running, old>>

(* Mutant: the runtime file goes whenever the deleted profile had been     *)
(* active, whatever is selected now.                                       *)
WasActive == journal.active

(* active.yaml of a profile selected since then is not touched.            *)
Orphaned == journal.active /\ state.profile = NoProfile

RemoveYaml ==
  /\ pc = "yaml"
  /\ IF Orphaned
     THEN \E outcome \in {"ok", "kept"} :
            /\ yaml' = Wrote(outcome, NoProfile, yaml)
            /\ Then(outcome, "settings")
     ELSE UNCHANGED yaml /\ Then("ok", "settings")
  /\ UNCHANGED <<state, where, pinned, journal, running, old>>

ClearPin ==
  /\ pc = "settings"
  /\ IF pinned = journal.profile
     THEN \E outcome \in Outcomes :
            /\ pinned' = Wrote(outcome, NoProfile, pinned)
            /\ Then(outcome, "move")
     ELSE UNCHANGED pinned /\ Then("ok", "move")
  /\ UNCHANGED <<state, where, yaml, journal, running, old>>

(* The rename of the directory is the point of no return.                  *)
Move ==
  /\ pc = "move"
  /\ IF where[journal.profile] = "here"
     THEN \/ /\ where' = [where EXCEPT ![journal.profile] = "staged"]
             /\ Then("ok", "purge")
          \/ UNCHANGED where /\ Failed
     ELSE UNCHANGED where /\ Then("ok", "purge")
  /\ UNCHANGED <<state, yaml, pinned, journal, running, old>>

---------------------------------------------------------------------------
(* finish_profile_deletion                                                 *)
Unfinished ==
  /\ pc' = "idle"
  /\ IF phase = "up" THEN answer' = "unfinished" /\ UNCHANGED phase
     ELSE phase' = "down" /\ UNCHANGED answer

Purge ==
  /\ pc = "purge"
  /\ \/ /\ where' = [where EXCEPT ![journal.profile] = "gone"]
        /\ Goto("unjournal") /\ UNCHANGED <<phase, answer>>
     \/ where[journal.profile] = "staged" /\ Unfinished /\ UNCHANGED where
  /\ UNCHANGED <<state, yaml, pinned, journal, running, old>>

Unjournal ==
  /\ pc = "unjournal"
  /\ \/ /\ journal' = NoJournal
        /\ pc' = "idle" /\ phase' = "up"
        /\ answer' = IF phase = "up" THEN "ok" ELSE answer
     \/ Unfinished /\ UNCHANGED journal
  /\ UNCHANGED <<state, where, yaml, pinned, running, old>>

---------------------------------------------------------------------------
(* Mutant: the undo goes on after a failure and forgets it.                *)
UndoneRegardless(outcome, next) == pc' = next /\ UNCHANGED answer

(* The undo of delete_profile_transaction stops at its first failure and   *)
(* leaves the journal to the next launch.  The directory need not come     *)
(* back: nothing that can fail follows its rename.                         *)
Undone(outcome, next) ==
  IF outcome = "ok" THEN Goto(next) /\ UNCHANGED answer ELSE Reply("announced")

UndoSettings ==
  /\ pc = "undoSettings"
  /\ \E outcome \in Outcomes :
       /\ pinned' = Wrote(outcome, old.pinned, pinned)
       /\ Undone(outcome, "undoYaml")
  /\ UNCHANGED <<state, where, yaml, journal, phase, running, old>>

UndoYaml ==
  /\ pc = "undoYaml"
  /\ \E outcome \in Outcomes :
       /\ yaml' = Wrote(outcome, old.yaml, yaml)
       /\ Undone(outcome, "undoState")
  /\ UNCHANGED <<state, where, pinned, journal, phase, running, old>>

UndoState ==
  /\ pc = "undoState"
  /\ \E outcome \in Outcomes :
       /\ state' = Wrote(outcome, old.state, state)
       /\ Undone(outcome, "undoJournal")
  /\ UNCHANGED <<where, yaml, pinned, journal, phase, running, old>>

UndoJournal ==
  /\ pc = "undoJournal"
  /\ \/ journal' = NoJournal /\ Reply("undone")
     \/ UNCHANGED journal /\ Reply("announced")
  /\ UNCHANGED <<state, where, yaml, pinned, phase, running, old>>

---------------------------------------------------------------------------
(* The process ends or dies.                                               *)
Crash ==
  /\ phase # "down"
  /\ phase' = "down" /\ running' = FALSE
  /\ pc' = "idle" /\ old' = NoLocals /\ answer' = "none"
  /\ UNCHANGED files

(* Mutant: no launch looks at the journal.                                 *)
LaunchWithoutRecovery ==
  /\ phase = "down" /\ phase' = "up"
  /\ UNCHANGED <<files, running, pc, old, answer>>

(* setup calls recover_profile_deletion before it restores a session.      *)
Launch ==
  /\ phase = "down"
  /\ IF journal = NoJournal THEN phase' = "up" /\ UNCHANGED pc
     ELSE phase' = "launching" /\ Goto("state")
  /\ UNCHANGED <<files, running, old, answer>>

Command == \E p \in Profiles : Add(p) \/ Select(p) \/ Delete(p)
Transaction == StopFirst \/ StopFails \/ Journal \/ Refuse
CommitStep == ClearState \/ RemoveYaml \/ ClearPin \/ Move
FinishStep == Purge \/ Unjournal
UndoStep == UndoSettings \/ UndoYaml \/ UndoState \/ UndoJournal

Next ==
  \/ Command \/ Unpin \/ Start \/ Stop
  \/ Transaction \/ CommitStep \/ FinishStep \/ UndoStep
  \/ Crash \/ Launch

Spec == Init /\ [][Next]_vars

---------------------------------------------------------------------------
(* At every instant, a crash included, state.json selects a profile whose  *)
(* directory is in place, and the core runs only with a selection: the     *)
(* selection goes before the files, in the deletion and in its completion  *)
(* (storage.rs 452-482), and a running profile is stopped first.           *)
SelectionIsHere ==
  /\ state.profile # NoProfile => where[state.profile] = "here"
  /\ running => state.profile # NoProfile

(* A directory moved aside is named by the journal until it is removed, so *)
(* that some launch removes it (finish_profile_deletion, 484-497).         *)
StagedIsJournaled ==
  \A p \in Profiles : where[p] = "staged" => journal.profile = p

(* While no deletion is at work, active.yaml belongs to the selection: the *)
(* completion of an old journal spares the file of a profile selected in   *)
(* the meantime (466-470).                                                 *)
YamlFollowsSelection == Ready => yaml = state.profile \/ state.profile = NoProfile

(* What delete_profile answers is so: deleted means that files, selection  *)
(* and journal are gone; an error without a word about the journal means   *)
(* that everything is as it was; otherwise the journal names the profile.  *)
AnswersAreTrue ==
  /\ answer = "ok" => /\ where[old.profile] = "gone"
                      /\ journal = NoJournal
                      /\ old.profile \notin {state.profile, pinned}
  /\ answer = "undone" => /\ where[old.profile] = "here"
                          /\ journal = NoJournal
                          /\ state = old.state
                          /\ yaml = old.yaml /\ pinned = old.pinned
  /\ answer = "announced" => /\ where[old.profile] = "here"
                             /\ journal.profile = old.profile

---------------------------------------------------------------------------
(* The abstract set: a profile exists until its directory is moved, or the *)
(* process ends with a journal that names it; the selection during a       *)
(* transaction is the one it would restore.                                *)
Existing ==
  {p \in Profiles : where[p] = "here"
                    /\ ~(journal.profile = p /\ phase # "up")}

AtWork == phase = "up" /\ pc \in Commit \union Undo

ExistingOrNone(p) == IF p \in Existing THEN p ELSE NoProfile

Selected == ExistingOrNone(IF AtWork THEN old.state.profile ELSE state.profile)

Announced ==
  IF phase = "up" /\ ~AtWork THEN ExistingOrNone(journal.profile) ELSE NoProfile

Set == INSTANCE ProfileSet WITH
  profiles <- Existing, selected <- Selected, announced <- Announced

(* With every step failing and a crash at every instant, a deletion is all *)
(* or nothing or announced, and an announced one is not forgotten.         *)
ImplementsProfileSet == Set!SetSpec
=============================================================================
