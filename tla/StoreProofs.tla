---------------------------- MODULE StoreProofs ----------------------------
(***************************************************************************)
(* The components that change a store which outlives them, and take it     *)
(* back when they fail: the deletion of a profile by itself (the core of   *)
(* MCServices), and of its services the login entry and the local route,   *)
(* for any number of profiles, requests and clients, failures and crashes. *)
(*                                                                         *)
(* One section per component: its variables under names of their own, the  *)
(* inductive invariant in named parts, its lemmas, and what ServicesProofs *)
(* needs of it (first state, step, stutter).                               *)
(*                                                                         *)
(* The argument of the deletion: journal, locals and the selection tell    *)
(* the same story at every step, so the undo restores what the journal was *)
(* written over, and the completion clears a selection before it touches   *)
(* the directory.                                                          *)
(***************************************************************************)
EXTENDS MCServices, FiniteSetTheorems, TLAPS

-----------------------------------------------------------------------------
(* The deletion of a profile: ProfileDeletion, by itself.                  *)

Journaled == journal.profile \in Profiles

(* Where the deletion can be, and what it then works on.                   *)
Stages ==
  /\ phase = "down" => pc = "idle"
  /\ phase = "launching" => pc \in Commit \union Finish
  /\ pc \in Commit \union Undo \union Finish => Journaled
  /\ phase = "up" /\ pc # "idle" => old.profile \in Profiles
  /\ phase # "up" => ~running
  /\ answer # "none" => Ready
  /\ journal = NoJournal \/ Journaled
  /\ pc \in {"stop", "check"} => where[old.profile] = "here"
  /\ pc = "check" /\ state.profile = old.profile => ~running

(* A transaction in memory agrees with its journal.                        *)
Agreement ==
  phase = "up" /\ pc \in Commit \union Undo \union Finish =>
    /\ journal.profile = old.profile
    /\ journal.active <=> old.state.profile = old.profile
    /\ journal.active => ~running
    /\ old.yaml = old.state.profile \/ old.state.profile = NoProfile
    /\ pc \in Commit \union Undo =>
         \/ state = old.state
         \/ state = Cleared /\ old.state.profile = old.profile

(* How far the commit and the undo have come.                              *)
Progress ==
  /\ pc \in {"yaml", "settings", "move"} \union Finish =>
       state.profile # journal.profile
  /\ pc \in {"move"} \union Finish => pinned # journal.profile
  /\ pc \in Undo \union Commit /\ phase = "up" => where[journal.profile] = "here"
  /\ pc \in Finish => where[journal.profile] \in {"staged", "gone"}
  /\ pc = "unjournal" => where[journal.profile] = "gone"
  /\ pc \in {"undoYaml", "undoState", "undoJournal"} => pinned = old.pinned
  /\ pc \in {"undoState", "undoJournal"} => yaml = old.yaml
  /\ pc = "undoJournal" => state = old.state

Directories ==
  /\ Journaled => where[journal.profile] # "unborn"
  /\ Journaled /\ where[journal.profile] # "here" => state.profile # journal.profile
  /\ yaml = state.profile \/ state.profile = NoProfile

IInv ==
  /\ TypeOK
  /\ Stages
  /\ Agreement
  /\ Progress
  /\ Directories
  /\ SelectionIsHere
  /\ StagedIsJournaled
  /\ AnswersAreTrue

(* The records that the steps write.                                       *)
LEMMA Records ==
  /\ Cleared \in States /\ NoJournal \in Journals
  /\ NoLocals \in [profile : MaybeProfile, state : States,
                  yaml : MaybeProfile, pinned : MaybeProfile]
<1>1. Cleared \in States /\ NoJournal \in Journals
  BY DEF Cleared, States, NoJournal, Journals, MaybeProfile
<1> QED BY <1>1 DEF NoLocals, MaybeProfile

(* An update of one field leaves a state.                                  *)
LEMMA StateUpdates ==
  ASSUME NEW s \in States
  PROVE  /\ s.profile \in MaybeProfile
         /\ \A b \in BOOLEAN : [s EXCEPT !.desired = b] \in States
         /\ \A q \in MaybeProfile : [s EXCEPT !.profile = q] \in States
<1>1. \A b \in BOOLEAN : [s EXCEPT !.desired = b] \in States
  BY Zenon DEF States
<1>2. \A q \in MaybeProfile : [s EXCEPT !.profile = q] \in States
  BY Zenon DEF States
<1> QED BY <1>1, <1>2 DEF States

(* The first state and every step respect the type of every variable.      *)
LEMMA InitTypeOK == Init => TypeOK
<1> SUFFICES ASSUME Init PROVE TypeOK
  OBVIOUS
<1>3. where \in [Profiles -> {"unborn", "here", "staged", "gone"}]
  BY DEF Init
<1>4. yaml \in MaybeProfile
  BY DEF Init, States
<1> QED BY Records, <1>3, <1>4 DEF Init, TypeOK, Locations

(* No step takes a variable out of its type.                               *)
LEMMA StepTypeOK == TypeOK /\ [Next]_vars => TypeOK'
<1> SUFFICES ASSUME TypeOK, [Next]_vars PROVE TypeOK'
  OBVIOUS
<1> USE DEF TypeOK, files, MaybeProfile, Locations, Commit, Undo, Finish
<1>1. ASSUME NEW p \in Profiles, Add(p) PROVE TypeOK'
  BY <1>1 DEF Add
<1>2. ASSUME NEW p \in Profiles, Select(p) PROVE TypeOK'
  BY <1>2, StateUpdates DEF Select
<1>3. ASSUME NEW p \in Profiles, Delete(p) PROVE TypeOK'
  BY <1>3, Records DEF Delete, Goto, NoLocals
<1>4. CASE Unpin
  BY <1>4 DEF Unpin
<1>5. CASE Start
  BY <1>5, StateUpdates DEF Start
<1>6. CASE Stop
  BY <1>6, StateUpdates DEF Stop
<1>7. CASE StopFirst
  BY <1>7, StateUpdates DEF StopFirst, Goto
<1>8. CASE StopFails
  BY <1>8, StateUpdates DEF StopFails, Reply
<1>9. CASE Journal
  <2>1. (state.profile = old.profile) \in BOOLEAN
    OBVIOUS
  <2>2. journal' \in Journals
    BY <1>9, <2>1, Zenon DEF Journal, Journals
  <2>3. old' \in [profile : MaybeProfile, state : States,
                  yaml : MaybeProfile, pinned : MaybeProfile]
    BY <1>9 DEF Journal
  <2> QED BY <1>9, <2>2, <2>3 DEF Journal, Goto
<1>10. CASE Refuse
  BY <1>10 DEF Refuse, Reply
<1>11. CASE ClearState
  BY <1>11, Records DEF ClearState, Wrote, Then, Failed, Outcomes
<1>12. CASE RemoveYaml
  BY <1>12 DEF RemoveYaml, Orphaned, Wrote, Then, Failed
<1>13. CASE ClearPin
  BY <1>13 DEF ClearPin, Wrote, Then, Failed, Outcomes
<1>14. CASE Move
  BY <1>14 DEF Move, Then, Failed
<1>15. CASE Purge
  BY <1>15 DEF Purge, Unfinished, Goto
<1>16. CASE Unjournal
  BY <1>16, Records DEF Unjournal, Unfinished
<1>17. CASE UndoSettings
  BY <1>17 DEF UndoSettings, Wrote, Undone, Outcomes, Goto, Reply
<1>18. CASE UndoYaml
  BY <1>18 DEF UndoYaml, Wrote, Undone, Outcomes, Goto, Reply
<1>19. CASE UndoState
  BY <1>19 DEF UndoState, Wrote, Undone, Outcomes, Goto, Reply
<1>20. CASE UndoJournal
  BY <1>20, Records DEF UndoJournal, Reply
<1>21. CASE Crash
  BY <1>21, Records DEF Crash, NoLocals
<1>22. CASE Launch
  BY <1>22 DEF Launch, Goto
<1>23. CASE UNCHANGED vars
  BY <1>23 DEF vars, files
<1> QED
  BY <1>1, <1>2, <1>3, <1>4, <1>5, <1>6, <1>7, <1>8, <1>9, <1>10, <1>11, <1>12,
     <1>13, <1>14, <1>15, <1>16, <1>17, <1>18, <1>19, <1>20, <1>21, <1>22,
     <1>23
  DEF Next, Command, Transaction, CommitStep, FinishStep, UndoStep

(* The base of the induction.                                              *)
LEMMA InitIInv == Init => IInv
<1> SUFFICES ASSUME Init PROVE IInv
  OBVIOUS
<1>1. NoJournal.profile = NoProfile /\ NoProfile \notin Profiles
  BY ProfilesAssumption DEF NoJournal
<1> QED BY <1>1, InitTypeOK
  DEF Init, IInv, Stages, Agreement, Progress, Directories, Journaled, Ready,
      SelectionIsHere, StagedIsJournaled, AnswersAreTrue, Commit, Undo, Finish

(* Facts about a state of the invariant that every step below uses.        *)
LEMMA Facts ==
  ASSUME TypeOK
  PROVE  /\ NoProfile \notin Profiles
         /\ NoJournal.profile = NoProfile /\ NoJournal.active = FALSE
         /\ Cleared.profile = NoProfile
         /\ state.profile \in MaybeProfile /\ journal.profile \in MaybeProfile
         /\ DOMAIN where = Profiles
         /\ journal.active \in BOOLEAN
BY ProfilesAssumption DEF TypeOK, NoJournal, Cleared, States, Journals

(* Steps keep to the stages of the deletion.                               *)
LEMMA StepStages == IInv /\ [Next]_vars => Stages'
<1> SUFFICES ASSUME IInv, [Next]_vars PROVE Stages'
  OBVIOUS
<1> TypeOK /\ TypeOK'
  BY StepTypeOK DEF IInv
<1> USE Facts DEF IInv, Stages, Ready, Journaled, Progress, Agreement,
    SelectionIsHere, TypeOK, files, MaybeProfile, Commit, Undo, Finish,
    Locations
<1>1. ASSUME NEW p \in Profiles, Add(p) \/ Select(p) \/ Delete(p)
      PROVE  Stages'
  BY <1>1 DEF Add, Select, Delete, Goto, NoLocals
<1>2. CASE Unpin \/ Start \/ Stop
  BY <1>2 DEF Unpin, Start, Stop
<1>3. CASE Transaction
  <2>1. CASE StopFirst
    BY <2>1 DEF StopFirst, Goto
  <2>2. CASE StopFails
    BY <2>2 DEF StopFails, Reply
  <2>3. CASE Journal
    BY <2>3 DEF Journal, Goto, Wanted, NoJournal
  <2>4. CASE Refuse
    BY <2>4 DEF Refuse, Reply
  <2> QED BY <1>3, <2>1, <2>2, <2>3, <2>4 DEF Transaction
<1>4. CASE CommitStep
  BY <1>4 DEF CommitStep, ClearState, Wrote, Then, Failed, Outcomes, Cleared,
     RemoveYaml, Orphaned, ClearPin, Move
<1>5. CASE FinishStep
  BY <1>5 DEF FinishStep, Purge, Unfinished, Goto, Unjournal, NoJournal
<1>6. CASE UndoStep
  BY <1>6 DEF UndoStep, UndoSettings, Wrote, Undone, Outcomes, Goto, Reply,
     UndoYaml, UndoState, UndoJournal, NoJournal
<1>7. CASE Crash \/ Launch
  BY <1>7 DEF Crash, Launch, Goto, NoJournal
<1>8. CASE UNCHANGED vars
  BY <1>8 DEF vars
<1> QED BY <1>1, <1>2, <1>3, <1>4, <1>5, <1>6, <1>7, <1>8 DEF Next, Command

(* A transaction and its journal keep telling the same story.              *)
LEMMA StepAgreement == IInv /\ [Next]_vars => Agreement'
<1> SUFFICES ASSUME IInv, [Next]_vars PROVE Agreement'
  OBVIOUS
<1> TypeOK /\ TypeOK'
  BY StepTypeOK DEF IInv
<1> USE Facts DEF IInv, Agreement, Stages, Journaled, Progress,
    SelectionIsHere, Directories, Ready, TypeOK, files, MaybeProfile, Commit,
    Undo, Finish, Locations
<1>1. ASSUME NEW p \in Profiles, Add(p) \/ Select(p) \/ Delete(p)
      PROVE  Agreement'
  BY <1>1 DEF Add, Select, Delete, Goto, NoLocals
<1>2. CASE Unpin \/ Start \/ Stop
  BY <1>2 DEF Unpin, Start, Stop
<1>3. CASE Transaction
  <2>1. CASE StopFirst
    BY <2>1 DEF StopFirst, Goto
  <2>2. CASE StopFails
    BY <2>2 DEF StopFails, Reply
  <2>3. CASE Journal
    BY <2>3 DEF Journal, Goto, Wanted, NoJournal
  <2>4. CASE Refuse
    BY <2>4 DEF Refuse, Reply
  <2> QED BY <1>3, <2>1, <2>2, <2>3, <2>4 DEF Transaction
<1>4. CASE CommitStep
  BY <1>4 DEF CommitStep, ClearState, Wrote, Then, Failed, Outcomes, Cleared,
     RemoveYaml, Orphaned, ClearPin, Move
<1>5. CASE FinishStep
  BY <1>5 DEF FinishStep, Purge, Unfinished, Goto, Unjournal, NoJournal
<1>6. CASE UndoStep
  BY <1>6 DEF UndoStep, UndoSettings, Wrote, Undone, Outcomes, Goto, Reply,
     UndoYaml, UndoState, UndoJournal, NoJournal
<1>7. CASE Crash \/ Launch
  BY <1>7 DEF Crash, Launch, Goto, NoJournal
<1>8. CASE UNCHANGED vars
  BY <1>8 DEF vars
<1> QED BY <1>1, <1>2, <1>3, <1>4, <1>5, <1>6, <1>7, <1>8 DEF Next, Command

(* Each step of the commit and of the undo leaves what the next relies on. *)
LEMMA StepProgress == IInv /\ [Next]_vars => Progress'
<1> SUFFICES ASSUME IInv, [Next]_vars PROVE Progress'
  OBVIOUS
<1> TypeOK /\ TypeOK'
  BY StepTypeOK DEF IInv
<1> USE Facts DEF IInv, Progress, Agreement, Stages, Journaled, Directories,
    Ready, TypeOK, files, MaybeProfile, Commit, Undo, Finish, Locations
<1>1. ASSUME NEW p \in Profiles, Add(p) \/ Select(p) \/ Delete(p)
      PROVE  Progress'
  BY <1>1 DEF Add, Select, Delete, Goto, NoLocals
<1>2. CASE Unpin \/ Start \/ Stop
  BY <1>2 DEF Unpin, Start, Stop
<1>3. CASE Transaction
  <2>1. CASE StopFirst
    BY <2>1 DEF StopFirst, Goto
  <2>2. CASE StopFails
    BY <2>2 DEF StopFails, Reply
  <2>3. CASE Journal
    BY <2>3 DEF Journal, Goto, Wanted, NoJournal
  <2>4. CASE Refuse
    BY <2>4 DEF Refuse, Reply
  <2> QED BY <1>3, <2>1, <2>2, <2>3, <2>4 DEF Transaction
<1>4. CASE CommitStep
  <2>1. CASE ClearState
    <3>1. CASE state.profile = journal.profile /\ pc' = "yaml"
      <4>1. PICK outcome \in Outcomes : /\ state' = Wrote(outcome, Cleared, state)
                                       /\ Then(outcome, "yaml")
        BY <2>1, <3>1 DEF ClearState
      <4>2. state' = Cleared
        BY <3>1, <4>1 DEF Wrote, Then, Failed, Outcomes
      <4>3. journal'.profile # state'.profile
        BY <2>1, <4>2, ProfilesAssumption DEF ClearState, Cleared
      <4> QED BY <2>1, <3>1, <4>3 DEF ClearState, Then, Failed
    <3> QED BY <2>1, <3>1 DEF ClearState, Then, Failed
  <2>2. CASE RemoveYaml
    BY <2>2 DEF RemoveYaml, Orphaned, Wrote, Then, Failed
  <2>3. CASE ClearPin
    <3>1. CASE pinned = journal.profile /\ pc' = "move"
      <4>1. PICK outcome \in Outcomes : /\ pinned' = Wrote(outcome, NoProfile, pinned)
                                       /\ Then(outcome, "move")
        BY <2>3, <3>1 DEF ClearPin
      <4>2. pinned' = NoProfile
        BY <3>1, <4>1 DEF Wrote, Then, Failed, Outcomes
      <4>3. pinned' # journal'.profile
        BY <2>3, <4>2, ProfilesAssumption DEF ClearPin
      <4> QED BY <2>3, <3>1, <4>3 DEF ClearPin, Then, Failed
    <3> QED BY <2>3, <3>1 DEF ClearPin, Then, Failed
  <2>4. CASE Move
    BY <2>4 DEF Move, Then, Failed
  <2> QED BY <1>4, <2>1, <2>2, <2>3, <2>4 DEF CommitStep
<1>5. CASE FinishStep
  BY <1>5 DEF FinishStep, Purge, Unfinished, Goto, Unjournal, NoJournal
<1>6. CASE UndoStep
  BY <1>6 DEF UndoStep, UndoSettings, Wrote, Undone, Outcomes, Goto, Reply,
     UndoYaml, UndoState, UndoJournal, NoJournal
<1>7. CASE Crash \/ Launch
  BY <1>7 DEF Crash, Launch, Goto, NoJournal
<1>8. CASE UNCHANGED vars
  BY <1>8 DEF vars
<1> QED BY <1>1, <1>2, <1>3, <1>4, <1>5, <1>6, <1>7, <1>8 DEF Next, Command

(* A directory is moved only when the selection is cleared.                *)
LEMMA StepDirectories == IInv /\ [Next]_vars => Directories'
<1> SUFFICES ASSUME IInv, [Next]_vars PROVE Directories'
  OBVIOUS
<1> TypeOK /\ TypeOK'
  BY StepTypeOK DEF IInv
<1> USE Facts DEF IInv, States, Directories, Progress, Agreement, Stages,
    Journaled, Ready, StagedIsJournaled, TypeOK, files, MaybeProfile, Commit,
    Undo, Finish, Locations
<1>1. ASSUME NEW p \in Profiles, Add(p) \/ Select(p) \/ Delete(p)
      PROVE  Directories'
  BY <1>1 DEF Add, Select, Delete, Goto, NoLocals
<1>2. CASE Unpin \/ Start \/ Stop
  BY <1>2 DEF Unpin, Start, Stop
<1>3. CASE Transaction
  <2>1. CASE StopFirst
    BY <2>1 DEF StopFirst, Goto
  <2>2. CASE StopFails
    <3>1. UNCHANGED <<where, yaml, journal>>
      BY <2>2 DEF StopFails, Reply
    <3>2. state'.profile = state.profile
      BY <2>2 DEF StopFails, Reply
    <3> QED BY ONLY Directories, <3>1, <3>2 DEF Directories, Journaled
  <2>3. CASE Journal
    BY <2>3 DEF Journal, Goto, Wanted, NoJournal
  <2>4. CASE Refuse
    BY <2>4 DEF Refuse, Reply
  <2> QED BY <1>3, <2>1, <2>2, <2>3, <2>4 DEF Transaction
<1>4. CASE CommitStep
  BY <1>4 DEF CommitStep, ClearState, Wrote, Then, Failed, Outcomes, Cleared,
     RemoveYaml, Orphaned, ClearPin, Move
<1>5. CASE FinishStep
  BY <1>5 DEF FinishStep, Purge, Unfinished, Goto, Unjournal, NoJournal
<1>6. CASE UndoStep
  BY <1>6 DEF UndoStep, UndoSettings, Wrote, Undone, Outcomes, Goto, Reply,
     UndoYaml, UndoState, UndoJournal, NoJournal
<1>7. CASE Crash \/ Launch
  BY <1>7 DEF Crash, Launch, Goto, NoJournal
<1>8. CASE UNCHANGED vars
  BY <1>8 DEF vars
<1> QED BY <1>1, <1>2, <1>3, <1>4, <1>5, <1>6, <1>7, <1>8 DEF Next, Command

(* No step moves a selected directory or selects a missing one.            *)
LEMMA StepSelectionIsHere == IInv /\ [Next]_vars => SelectionIsHere'
<1> SUFFICES ASSUME IInv, [Next]_vars PROVE SelectionIsHere'
  OBVIOUS
<1> TypeOK /\ TypeOK'
  BY StepTypeOK DEF IInv
<1> USE Facts DEF IInv, States, SelectionIsHere, Progress, Agreement, Stages,
    Journaled, Directories, Ready, TypeOK, files, MaybeProfile, Commit, Undo,
    Finish, Locations
<1>1. ASSUME NEW p \in Profiles, Add(p) \/ Select(p) \/ Delete(p)
      PROVE  SelectionIsHere'
  <2>1. CASE Select(p)
    <3>1. state'.profile = p
      BY <2>1 DEF Select
    <3> QED BY <2>1, <3>1 DEF Select
  <2>2. CASE Add(p) \/ Delete(p)
    BY <2>2 DEF Add, Delete
  <2> QED BY <1>1, <2>1, <2>2
<1>2. CASE Unpin \/ Start \/ Stop
  BY <1>2 DEF Unpin, Start, Stop
<1>3. CASE Transaction
  <2>1. CASE StopFirst
    BY <2>1 DEF StopFirst, Goto
  <2>2. CASE StopFails
    BY <2>2 DEF StopFails, Reply
  <2>3. CASE Journal
    BY <2>3 DEF Journal, Goto, Wanted, NoJournal
  <2>4. CASE Refuse
    BY <2>4 DEF Refuse, Reply
  <2> QED BY <1>3, <2>1, <2>2, <2>3, <2>4 DEF Transaction
<1>4. CASE CommitStep
  BY <1>4 DEF CommitStep, ClearState, Wrote, Then, Failed, Outcomes, Cleared,
     RemoveYaml, Orphaned, ClearPin, Move
<1>5. CASE FinishStep
  BY <1>5 DEF FinishStep, Purge, Unfinished, Goto, Unjournal, NoJournal
<1>6. CASE UndoStep
  BY <1>6 DEF UndoStep, UndoSettings, Wrote, Undone, Outcomes, Goto, Reply,
     UndoYaml, UndoState, UndoJournal, NoJournal
<1>7. CASE Crash \/ Launch
  BY <1>7 DEF Crash, Launch, Goto, NoJournal
<1>8. CASE UNCHANGED vars
  BY <1>8 DEF vars
<1> QED BY <1>1, <1>2, <1>3, <1>4, <1>5, <1>6, <1>7, <1>8 DEF Next, Command

(* No step drops the journal of a directory moved aside.                   *)
LEMMA StepStagedIsJournaled == IInv /\ [Next]_vars => StagedIsJournaled'
<1> SUFFICES ASSUME IInv, [Next]_vars PROVE StagedIsJournaled'
  OBVIOUS
<1> TypeOK /\ TypeOK'
  BY StepTypeOK DEF IInv
<1> USE Facts DEF IInv, StagedIsJournaled, Progress, Stages, Journaled, Ready,
    Directories, TypeOK, files, MaybeProfile, Commit, Undo, Finish, Locations
<1>1. ASSUME NEW p \in Profiles, Add(p) \/ Select(p) \/ Delete(p)
      PROVE  StagedIsJournaled'
  BY <1>1 DEF Add, Select, Delete, Goto, NoLocals
<1>2. CASE Unpin \/ Start \/ Stop
  BY <1>2 DEF Unpin, Start, Stop
<1>3. CASE Transaction
  <2>1. CASE StopFirst
    BY <2>1 DEF StopFirst, Goto
  <2>2. CASE StopFails
    BY <2>2 DEF StopFails, Reply
  <2>3. CASE Journal
    BY <2>3 DEF Journal, Goto, Wanted, NoJournal
  <2>4. CASE Refuse
    BY <2>4 DEF Refuse, Reply
  <2> QED BY <1>3, <2>1, <2>2, <2>3, <2>4 DEF Transaction
<1>4. CASE CommitStep
  BY <1>4 DEF CommitStep, ClearState, Wrote, Then, Failed, Outcomes, Cleared,
     RemoveYaml, Orphaned, ClearPin, Move
<1>5. CASE FinishStep
  BY <1>5 DEF FinishStep, Purge, Unfinished, Goto, Unjournal, NoJournal
<1>6. CASE UndoStep
  BY <1>6 DEF UndoStep, UndoSettings, Wrote, Undone, Outcomes, Goto, Reply,
     UndoYaml, UndoState, UndoJournal, NoJournal
<1>7. CASE Crash \/ Launch
  BY <1>7 DEF Crash, Launch, Goto, NoJournal
<1>8. CASE UNCHANGED vars
  BY <1>8 DEF vars
<1> QED BY <1>1, <1>2, <1>3, <1>4, <1>5, <1>6, <1>7, <1>8 DEF Next, Command

(* An answer describes the files it leaves.                                *)
LEMMA StepAnswersAreTrue == IInv /\ [Next]_vars => AnswersAreTrue'
<1> SUFFICES ASSUME IInv, [Next]_vars PROVE AnswersAreTrue'
  OBVIOUS
<1> TypeOK /\ TypeOK'
  BY StepTypeOK DEF IInv
<1> USE Facts DEF IInv, AnswersAreTrue, Progress, Agreement, Stages, Journaled,
    Ready, TypeOK, files, MaybeProfile, Commit, Undo, Finish, Locations
<1>1. ASSUME NEW p \in Profiles, Add(p) \/ Select(p) \/ Delete(p)
      PROVE  AnswersAreTrue'
  BY <1>1 DEF Add, Select, Delete, Goto, NoLocals
<1>2. CASE Unpin \/ Start \/ Stop
  BY <1>2 DEF Unpin, Start, Stop
<1>3. CASE Transaction
  BY <1>3 DEF Transaction, StopFirst, Goto, StopFails, Reply, Journal, Wanted,
     NoJournal, Refuse
<1>4. CASE CommitStep
  BY <1>4 DEF CommitStep, ClearState, Wrote, Then, Failed, Outcomes, Cleared,
     RemoveYaml, Orphaned, ClearPin, Move
<1>5. CASE FinishStep
  BY <1>5 DEF FinishStep, Purge, Unfinished, Goto, Unjournal, NoJournal
<1>6. CASE UndoStep
  BY <1>6 DEF UndoStep, UndoSettings, Wrote, Undone, Outcomes, Goto, Reply,
     UndoYaml, UndoState, UndoJournal, NoJournal
<1>7. CASE Crash \/ Launch
  BY <1>7 DEF Crash, Launch, Goto, NoJournal
<1>8. CASE UNCHANGED vars
  BY <1>8 DEF vars
<1> QED BY <1>1, <1>2, <1>3, <1>4, <1>5, <1>6, <1>7, <1>8 DEF Next, Command

(* The induction.                                                          *)
LEMMA StepIInv == IInv /\ [Next]_vars => IInv'
BY StepTypeOK, StepStages, StepAgreement, StepProgress, StepDirectories,
   StepSelectionIsHere, StepStagedIsJournaled, StepAnswersAreTrue DEF IInv

(* The invariant holds in every behaviour.                                 *)
LEMMA InductiveInvariant == Spec => []IInv
BY InitIInv, StepIInv, PTL DEF Spec

---------------------------------------------------------------------------
(* The variables of the deletion keep their types in every behaviour.      *)
THEOREM TypeCorrect == Spec => []TypeOK
BY InductiveInvariant, PTL DEF IInv

(* The selected profile is there at every instant of every behaviour, and  *)
(* a core runs with a selection only.                                      *)
THEOREM SelectionIsThere == Spec => []SelectionIsHere
BY InductiveInvariant, PTL DEF IInv

(* No directory that was moved aside is forgotten.                         *)
THEOREM NothingIsForgotten == Spec => []StagedIsJournaled
BY InductiveInvariant, PTL DEF IInv

(* The runtime file belongs to the selection while no deletion is at work. *)
THEOREM RuntimeFileFollows == Spec => []YamlFollowsSelection
<1>1. IInv => YamlFollowsSelection
  BY DEF IInv, Directories, YamlFollowsSelection
<1> QED BY <1>1, InductiveInvariant, PTL

(* A deletion that says it is done, or undone, or kept for later, is.      *)
THEOREM AnswersHold == Spec => []AnswersAreTrue
BY InductiveInvariant, PTL DEF IInv

---------------------------------------------------------------------------
(* The refinement.  Most steps change nothing of the abstract set: a lemma *)
(* for them, then one step for each way a profile leaves it.               *)
Abstract == <<Existing, Selected, Announced>>

(* The first state is one of the abstract set.                             *)
LEMMA InitRefines == Init => Set!SetInit
<1> SUFFICES ASSUME Init PROVE Set!SetInit
  OBVIOUS
<1>1. NoJournal.profile = NoProfile
  BY DEF NoJournal
<1> QED BY <1>1, ProfilesAssumption
  DEF Init, Set!SetInit, Existing, Selected, Announced, ExistingOrNone, AtWork

(* Each step is one of the abstract set or leaves it alone.                *)
LEMMA StepRefines == IInv /\ IInv' /\ [Next]_vars => [Set!SetNext]_(Set!svars)
<1> SUFFICES ASSUME IInv, IInv', [Next]_vars
             PROVE  Set!SetNext \/ UNCHANGED Abstract
  BY DEF Abstract, Set!svars
<1> USE Facts DEF IInv, Stages, Agreement, Progress, Directories, Ready,
    Journaled, SelectionIsHere, StagedIsJournaled, TypeOK, States, files,
    MaybeProfile, Commit, Undo, Finish, Locations
<1>0. where' = where /\ journal' = journal /\ phase' = phase
      => Existing' = Existing
  BY DEF Existing
<1>1. ASSUME NEW p \in Profiles, Add(p) PROVE Set!Add(p)
  BY <1>1 DEF Add, Set!Add, Existing, Selected, Announced, ExistingOrNone,
     AtWork
<1>2. ASSUME NEW p \in Profiles, Select(p) PROVE Set!Select(p)
  <2>1. state'.profile = p
    BY <1>2 DEF Select
  <2> QED BY <1>2, <2>1 DEF Select, Set!Select, Existing, Selected, Announced,
        ExistingOrNone, AtWork
<1>3. ASSUME NEW p \in Profiles, Delete(p) PROVE UNCHANGED Abstract
  <2>1. Existing' = Existing
    BY <1>0, <1>3 DEF Delete, Goto, NoLocals
  <2>2. Selected' = Selected
    BY <1>3, <2>1 DEF Delete, Goto, NoLocals, Selected, ExistingOrNone, AtWork
  <2>3. Announced' = Announced
    BY <1>3, <2>1 DEF Delete, Goto, NoLocals, Announced, ExistingOrNone, AtWork
  <2> QED BY <2>1, <2>2, <2>3 DEF Abstract
<1>4. CASE Unpin \/ Start \/ Stop
  <2>1. Existing' = Existing
    BY <1>0, <1>4 DEF Unpin, Start, Stop
  <2>2. Selected' = Selected
    BY <1>4, <2>1 DEF Unpin, Start, Stop, Selected, ExistingOrNone, AtWork
  <2>3. Announced' = Announced
    BY <1>4, <2>1 DEF Unpin, Start, Stop, Announced, ExistingOrNone, AtWork
  <2> QED BY <2>1, <2>2, <2>3 DEF Abstract
<1>5. CASE StopFirst \/ StopFails \/ Refuse
  <2>1. Existing' = Existing
    BY <1>0, <1>5 DEF StopFirst, StopFails, Refuse, Goto, Reply
  <2>2. Selected' = Selected
    <3>1. state'.profile = state.profile
      <4>1. CASE StopFirst
        BY <4>1 DEF StopFirst
      <4>2. CASE StopFails
        BY <4>2 DEF StopFails
      <4>3. CASE Refuse
        BY <4>3 DEF Refuse
      <4> QED BY <1>5, <4>1, <4>2, <4>3
    <3> QED BY <1>5, <2>1, <3>1 DEF StopFirst, StopFails, Refuse, Goto, Reply,
          Selected, ExistingOrNone, AtWork
  <2>3. Announced' = Announced
    BY <1>5, <2>1 DEF StopFirst, StopFails, Refuse, Goto, Reply, Announced,
       ExistingOrNone, AtWork
  <2> QED BY <2>1, <2>2, <2>3 DEF Abstract
<1>6. CASE Journal
  <2>1. Existing' = Existing
    BY <1>0, <1>6 DEF Journal, Goto, NoJournal, Existing
  <2>2. Selected' = Selected
    BY <1>6, <2>1 DEF Journal, Goto, NoJournal, Existing, Selected,
       ExistingOrNone, AtWork
  <2>3. Announced' = Announced
    BY <1>6, <2>1 DEF Journal, Goto, NoJournal, Existing, Announced,
       ExistingOrNone, AtWork
  <2> QED BY <2>1, <2>2, <2>3 DEF Abstract
<1>7. CASE ClearState \/ RemoveYaml \/ ClearPin
  <2>1. Existing' = Existing
    BY <1>0, <1>7 DEF ClearState, RemoveYaml, ClearPin, Then, Failed, Wrote,
       Outcomes, Cleared, Existing
  <2>2. Selected' = Selected
    BY <1>7, <2>1 DEF ClearState, RemoveYaml, ClearPin, Then, Failed, Wrote,
       Outcomes, Cleared, Existing, Selected, ExistingOrNone, AtWork
  <2>3. Announced' = Announced
    BY <1>7, <2>1 DEF ClearState, RemoveYaml, ClearPin, Then, Failed, Wrote,
       Outcomes, Cleared, Existing, Announced, ExistingOrNone, AtWork
  <2> QED BY <2>1, <2>2, <2>3 DEF Abstract
<1>8. CASE Move
  <2>1. CASE where' # where /\ phase = "up"
    <3>1. /\ journal.profile \in Profiles /\ where[journal.profile] = "here"
          /\ where' = [where EXCEPT ![journal.profile] = "staged"]
          /\ pc' = "purge" /\ UNCHANGED <<state, journal, phase, old>>
      BY <1>8, <2>1 DEF Move, Then, Failed
    <3>2. Existing' = Existing \ {journal.profile}
      BY <2>1, <3>1 DEF Existing
    <3>3. journal.profile \in Existing /\ Announced = NoProfile /\ Announced' = NoProfile
      BY <1>8, <2>1, <3>1, <3>2 DEF Move, Existing, Announced, ExistingOrNone,
         AtWork
    <3>4. Selected' = Set!Without(journal.profile, Selected)
      BY <1>8, <2>1, <3>1, <3>2, <3>3
      DEF Move, Set!Without, Selected, ExistingOrNone, AtWork, Cleared
    <3>5. Set!Remove(journal.profile)
      BY <3>2, <3>3, <3>4 DEF Set!Remove
    <3> QED BY <3>1, <3>5 DEF Set!SetNext
  <2>2. CASE ~(where' # where /\ phase = "up")
    <3>1. Existing' = Existing
      BY <1>8, <2>2 DEF Move, Then, Failed, Existing
    <3>2. Selected' = Selected
      BY <1>8, <2>2, <3>1 DEF Move, Then, Failed, Selected, ExistingOrNone,
         AtWork
    <3>3. Announced' = Announced
      BY <1>8, <2>2, <3>1 DEF Move, Then, Failed, Announced, ExistingOrNone,
         AtWork
    <3> QED BY <3>1, <3>2, <3>3 DEF Abstract
  <2> QED BY <2>1, <2>2
<1>9. CASE Purge \/ Unjournal
  <2>1. Existing' = Existing
    BY <1>0, <1>9 DEF Purge, Unjournal, Unfinished, Goto, NoJournal, Existing
  <2>2. Selected' = Selected
    BY <1>9, <2>1 DEF Purge, Unjournal, Unfinished, Goto, NoJournal, Existing,
       Selected, ExistingOrNone, AtWork
  <2>3. Announced' = Announced
    BY <1>9, <2>1 DEF Purge, Unjournal, Unfinished, Goto, NoJournal, Existing,
       Announced, ExistingOrNone, AtWork
  <2> QED BY <2>1, <2>2, <2>3 DEF Abstract
<1>10. CASE UndoStep
  <2>1. CASE pc' = "idle" /\ answer' = "announced"
    <3>1. Set!Announce(journal.profile)
      BY <1>10, <2>1 DEF UndoStep, UndoSettings, UndoYaml, UndoState,
         UndoJournal,
        Undone, Reply, Goto, Wrote, Outcomes, Cleared, Set!Announce, Set!Without, Existing,
        Selected, Announced, ExistingOrNone, AtWork
    <3>2. journal.profile \in Profiles
      BY <1>10 DEF UndoStep, UndoSettings, UndoYaml, UndoState, UndoJournal
    <3> QED BY <3>1, <3>2 DEF Set!SetNext
  <2>2. CASE ~(pc' = "idle" /\ answer' = "announced")
    <3>1. Existing' = Existing
      BY <1>10, <2>2 DEF UndoStep, UndoSettings, UndoYaml, UndoState,
         UndoJournal,
        Undone, Reply, Goto, NoJournal, Existing
    <3>2. Selected' = Selected
      BY <1>10, <2>2, <3>1 DEF UndoStep, UndoSettings, UndoYaml, UndoState,
        UndoJournal, Undone, Reply, Goto, Selected, ExistingOrNone, AtWork
    <3>3. Announced' = Announced
      BY <1>10, <2>2, <3>1 DEF UndoStep, UndoSettings, UndoYaml, UndoState,
        UndoJournal, Undone, Reply, Goto, NoJournal, Announced, ExistingOrNone, AtWork
    <3> QED BY <3>1, <3>2, <3>3 DEF Abstract
  <2> QED BY <2>1, <2>2
<1>11. CASE Crash
  <2>1. CASE Journaled /\ phase = "up" /\ where[journal.profile] = "here"
    <3>1. Set!Remove(journal.profile)
      BY <1>11, <2>1 DEF Crash, Set!Remove, Set!Without, Cleared, Existing,
         Selected,
        Announced, ExistingOrNone, AtWork
    <3> QED BY <2>1, <3>1 DEF Set!SetNext
  <2>2. CASE ~(Journaled /\ phase = "up" /\ where[journal.profile] = "here")
    <3>1. Existing' = Existing
      BY <1>11, <2>2 DEF Crash, Existing
    <3>2. Selected' = Selected
      BY <1>11, <2>2, <3>1 DEF Crash, Selected, ExistingOrNone, AtWork
    <3>3. Announced' = Announced
      BY <1>11, <2>2, <3>1 DEF Crash, Announced, ExistingOrNone, AtWork,
         Existing
    <3> QED BY <3>1, <3>2, <3>3 DEF Abstract
  <2> QED BY <2>1, <2>2
<1>12. CASE Launch
  <2>1. Existing' = Existing
    BY <1>0, <1>12 DEF Launch, Goto, NoJournal, Existing
  <2>2. Selected' = Selected
    BY <1>12, <2>1 DEF Launch, Goto, NoJournal, Existing, Selected,
       ExistingOrNone, AtWork
  <2>3. Announced' = Announced
    BY <1>12, <2>1 DEF Launch, Goto, NoJournal, Existing, Announced,
       ExistingOrNone, AtWork
  <2> QED BY <2>1, <2>2, <2>3 DEF Abstract
<1>13. CASE UNCHANGED vars
  <2>1. Existing' = Existing
    BY <1>0, <1>13 DEF vars
  <2>2. Selected' = Selected
    BY <1>13, <2>1 DEF vars, Selected, ExistingOrNone, AtWork
  <2>3. Announced' = Announced
    BY <1>13, <2>1 DEF vars, Announced, ExistingOrNone, AtWork
  <2> QED BY <2>1, <2>2, <2>3 DEF Abstract
<1> QED
  BY <1>1, <1>2, <1>3, <1>4, <1>5, <1>6, <1>7, <1>8, <1>9, <1>10, <1>11, <1>12,
     <1>13
  DEF Next, Command, Transaction, CommitStep, FinishStep, Set!SetNext

(* With every step failing and a crash at every instant, for any number of *)
(* profiles, the deletion implements the set that storage.rs promises.     *)
THEOREM Implements == Spec => ImplementsProfileSet
BY InitRefines, StepRefines, InductiveInvariant, PTL
DEF Spec, ImplementsProfileSet, Set!SetSpec

-----------------------------------------------------------------------------
(* LoginEntry                                                              *)

os == v1
pref == v2
entry == v3
allowed == v4
removing == v5
marker == v6
queued == v7
job == v8
saved == v9
USE DEF os, pref, entry, allowed, removing, marker, queued, job, saved

Entries2 == [LE!Names -> {"none", "ours", "other"}]
Switches == [LE!Names -> {"unset", "on", "off"}]
Olds ==
  [entry : Entries2, allowed : Switches, pref : BOOLEAN, present : BOOLEAN,
   effective : BOOLEAN, disabled : BOOLEAN]
OnWindows == {"approve", "backRun", "backApproval", "own", "adopt", "forget", "names"}
OnMac == {"drop", "wait", "remove", "unregister", "register", "enabled"}
Jobs ==
  [op : {"none", "save", "repair", "migrate", "recover", "detach", "cleanup"},
   at : {"idle", "write", "verify", "persist"} \union OnWindows \union OnMac,
   value : BOOLEAN, back : BOOLEAN, old : Olds, outside : BOOLEAN]

LoginTypes ==
  /\ os \in {"windows", "macos"} /\ pref \in BOOLEAN
  /\ entry \in Entries2 /\ allowed \in Switches
  /\ removing \in {"no", "asked", "orphan"} /\ marker \in BOOLEAN /\ queued \in BOOLEAN
  /\ job \in Jobs /\ saved \in {"none", "saved", "refused", "both"}

(* What a job remembers is one state of the two stores.                    *)
Remembers ==
  LET Had(n) == job.old.entry[n] = "ours" IN
  /\ job.old.present <=>
       IF os = "windows" THEN job.old.entry["new"] # "none" ELSE Had("new") \/ Had("old")
  /\ job.old.effective <=> \E n \in LE!Names : Had(n) /\ job.old.allowed[n] # "off"
  /\ job.old.disabled <=> ~job.old.effective /\ \E n \in LE!Names : Had(n)

(* Where each operation can be, on which system.                           *)
Places ==
  \/ job.op = "none" /\ job.at = "idle"
  \/ /\ os = "windows"
     /\ \/ /\ job.op = "save"
           /\ job.at \in {"write", "verify", "persist", "approve", "backRun", "backApproval"}
        \/ job.op = "repair" /\ job.at \in {"write", "approve"}
        \/ job.op = "migrate" /\ job.at \in {"own", "adopt", "forget"}
        \/ job.op = "cleanup" /\ job.at = "names"
  \/ /\ os = "macos"
     /\ \/ /\ job.op = "save"
           /\ job.at \in {"write", "verify", "persist", "drop", "wait", "remove"}
        \/ job.op = "repair" /\ job.at \in {"unregister", "wait", "register", "drop"}
        \/ job.op = "migrate" /\ job.at \in {"write", "drop"}
        \/ job.op = "recover" /\ job.at \in {"write", "drop", "enabled"}
        \/ job.op = "detach" /\ job.at \in {"unregister", "wait"}

Owners ==
  /\ os = "windows" => removing = "no" /\ ~marker
  /\ os = "windows" /\ job.op = "save" /\ job.at = "write" => ~job.back
  /\ os = "macos" => entry["new"] # "other"
  /\ job.op \in {"repair", "recover"} => job.value /\ pref
  /\ job.op = "migrate" /\ job.at \in {"write", "drop"} => job.value /\ pref
  /\ saved = "saved" => job.at \in {"idle", "own", "adopt", "forget"}
  /\ saved \in {"refused", "both"} => job.at = "idle"

(* How far a save has come, forward and back.                              *)
SaveInv ==
  /\ job.op = "save" => pref = job.old.pref
  /\ job.op = "save" /\ os = "macos" /\ job.back => job.value = job.old.present
  /\ job.op = "save" /\ job.at \in {"approve", "drop"} => job.value
  /\ job.op = "save" /\ job.at \in {"remove", "wait"} => ~job.value
  /\ job.op = "save" /\ job.at \in {"approve", "verify", "persist"} => ~job.back
  /\ job.at = "persist" /\ (os = "windows" \/ ~job.outside) => (LE!Present <=> job.value)
  /\ job.at = "drop" /\ ~job.outside => entry["new"] = "ours"
  /\ job.at = "remove" /\ ~job.outside => entry["new"] # "ours"
  /\ os = "windows" /\ job.op = "save" /\ ~job.outside =>
       entry["old"] = job.old.entry["old"] /\ allowed["old"] = job.old.allowed["old"]
  /\ job.at = "backApproval" /\ job.value /\ ~job.outside =>
       entry["new"] = job.old.entry["new"]

(* What a migration and a recovery have done so far.                       *)
Untouched == entry = job.old.entry /\ allowed = job.old.allowed
MigrationInv ==
  /\ job.at = "own" /\ ~job.outside => Untouched
  /\ job.at = "adopt" => pref /\ entry["new"] # "other"
  /\ job.at \in {"adopt", "forget"} => entry["old"] = "ours"
  /\ job.at \in {"adopt", "forget"} /\ ~job.outside /\ pref =>
       /\ entry["old"] = job.old.entry["old"] /\ allowed["old"] = job.old.allowed["old"]
       /\ allowed["new"] = IF job.old.allowed["new"] = "unset" THEN job.old.allowed["old"]
                           ELSE job.old.allowed["new"]
       /\ job.at = "forget" => entry["new"] = "ours"
       /\ job.at = "adopt" => entry["new"] = job.old.entry["new"]
  /\ job.at = "forget" /\ ~job.outside /\ ~pref => Untouched
  /\ os = "macos" /\ job.op = "migrate" =>
       /\ ~job.old.disabled
       /\ ~job.outside => allowed = job.old.allowed
       /\ ~job.outside /\ job.at = "write" => entry = job.old.entry
  /\ job.op = "recover" /\ job.old.disabled /\ ~job.outside =>
       /\ job.at = "write"
       /\ entry["new"] # "ours" /\ entry["old"] = "ours" /\ allowed["old"] = "off"

LoginInv ==
  /\ LoginTypes /\ Remembers /\ Places /\ Owners /\ SaveInv /\ MigrationInv
  /\ LE!SaveIsWhole

(* The first state.                                                        *)
LEMMA LoginStarts == LE!LoginInit => LoginInv
<1> SUFFICES ASSUME LE!LoginInit PROVE LoginInv
  OBVIOUS
<1> USE DEF LE!LoginInit, LE!NoJob, LE!Stores, LE!Names, LE!Present, LE!Effective, LE!Disabled
<1>1. LoginTypes
  BY DEF LoginTypes, Jobs, Olds, Entries2, Switches
<1>2. Remembers
  BY DEF Remembers
<1>3. Places /\ Owners
  BY DEF Places, Owners, OnWindows, OnMac
<1>4. SaveInv /\ MigrationInv
  BY DEF SaveInv, MigrationInv
<1>5. LE!SaveIsWhole
  BY DEF LE!SaveIsWhole
<1> QED BY <1>1, <1>2, <1>3, <1>4, <1>5 DEF LoginInv

(* The two stores, as a job remembers them.                                *)
LEMMA StoresTyped ==
  ASSUME LoginTypes
  PROVE  LE!Stores \in Olds /\ LE!NoJob \in Jobs
BY DEF LoginTypes, LE!Stores, Olds, LE!NoJob, Jobs, LE!Present, LE!Effective, LE!Disabled

(* Some fields of a job replaced.                                          *)
LEMMA JobUpdates ==
  ASSUME LoginTypes
  PROVE  /\ [job EXCEPT !.at = "backApproval", !.value = TRUE] \in Jobs
         /\ [job EXCEPT !.at = "backApproval", !.value = FALSE] \in Jobs
         /\ [job EXCEPT !.outside = TRUE] \in Jobs
         /\ [job EXCEPT !.op = "migrate", !.at = "own", !.old = LE!Stores, !.outside = FALSE]
              \in Jobs
         /\ [LE!NoJob EXCEPT !.old = job.old, !.outside = job.outside] \in Jobs
         /\ [job EXCEPT !.op = "recover", !.at = "write", !.value = TRUE, !.old = LE!Stores]
              \in Jobs
BY StoresTyped DEF LoginTypes, Jobs, OnWindows

(* How the steps leave the permit.                                         *)
LEMMA JobsTyped ==
  ASSUME LoginTypes
  PROVE  /\ \A at \in {"idle", "write", "verify", "persist"} \union OnWindows \union OnMac :
               LE!Goto(at) => job' \in Jobs
         /\ \A a : LE!Done(a) => job' \in Jobs /\ saved' = a
         /\ LE!Failed => job' \in Jobs /\ saved' \in {"none", "saved", "refused", "both"}
         /\ LE!Written => job' \in Jobs /\ saved' \in {"none", "saved", "refused", "both"}
         /\ LE!AfterRemoval => job' \in Jobs /\ saved' \in {"none", "saved", "refused", "both"}
<1> LE!Stores \in Olds /\ LE!NoJob \in Jobs
  BY StoresTyped
<1> USE DEF LoginTypes
<1>1. ASSUME NEW at \in {"idle", "write", "verify", "persist"} \union OnWindows \union OnMac,
             LE!Goto(at)
      PROVE  job' \in Jobs
  BY <1>1 DEF LE!Goto, Jobs
<1>2. ASSUME NEW a, LE!Done(a) PROVE job' \in Jobs /\ saved' = a
  BY <1>2 DEF LE!Done, Jobs
<1>3. ASSUME LE!Failed
      PROVE  job' \in Jobs /\ saved' \in {"none", "saved", "refused", "both"}
  BY <1>2, <1>3 DEF LE!Failed, Jobs, OnWindows, Olds
<1>4. ASSUME LE!Written
      PROVE  job' \in Jobs /\ saved' \in {"none", "saved", "refused", "both"}
  BY <1>1, <1>2, <1>4, JobUpdates DEF LE!Written, OnMac
<1>5. ASSUME LE!AfterRemoval
      PROVE  job' \in Jobs /\ saved' \in {"none", "saved", "refused", "both"}
  BY <1>1, <1>2, <1>5 DEF LE!AfterRemoval, OnMac
<1> QED BY <1>1, <1>2, <1>3, <1>4, <1>5
(* What a step leaves of the job, and what becomes of it.                  *)
Goes(at) ==
  /\ job'.at = at /\ job'.op = job.op /\ job'.value = job.value /\ job'.back = job.back
  /\ job'.old = job.old /\ job'.outside = job.outside
Ends(a) ==
  /\ saved' = a /\ job'.op = "none" /\ job'.at = "idle"
  /\ job'.old = job.old /\ job'.outside = job.outside
Fails ==
  \/ /\ job.op = "save" /\ ~job.back /\ saved' = saved
     /\ job'.at = (IF os = "windows" THEN "backRun" ELSE "write") /\ job'.back = TRUE
     /\ job'.value = job.old.present /\ job'.op = "save"
     /\ job'.old = job.old /\ job'.outside = job.outside
  \/ job.op = "save" /\ job.back /\ Ends("both")
  \/ job.op # "save" /\ Ends("none")
Succeeds ==
  \/ job.op = "save" /\ ~job.back /\ Goes("verify") /\ saved' = saved
  \/ job.op = "save" /\ job.back /\ Ends("refused")
  \/ job.op = "recover" /\ Goes("enabled") /\ saved' = saved
  \/ /\ job.op = "repair" /\ marker /\ ~LE!NativeOff /\ saved' = saved
     /\ job'.op = "recover" /\ job'.at = "write" /\ job'.value = TRUE /\ job'.back = job.back
     /\ job'.old = LE!Stores /\ job'.outside = job.outside
  \/ /\ job.op \notin {"save", "recover"} /\ (job.op = "repair" => ~marker \/ LE!NativeOff)
     /\ Ends("none")
Detached ==
  \/ job.op = "repair" /\ Goes("register") /\ saved' = saved
  \/ job.op = "detach" /\ Ends("none")
  \/ job.op \notin {"repair", "detach"} /\ Goes("remove") /\ saved' = saved

JobSteps ==
  /\ \A at : LE!Goto(at) => Goes(at)
  /\ \A a : LE!Done(a) => Ends(a)
  /\ LE!Failed => Fails
  /\ LE!Written => Succeeds
  /\ LE!AfterRemoval => Detached

(* The steps of the code do no more.                                       *)
LEMMA JobsStep ==
  ASSUME LoginTypes
  PROVE  JobSteps
<1> LE!Stores \in Olds /\ LE!NoJob \in Jobs
  BY StoresTyped
<1> USE DEF LoginTypes
<1>1. ASSUME NEW at, LE!Goto(at) PROVE Goes(at)
  BY <1>1 DEF LE!Goto, Goes, Jobs
<1>2. ASSUME NEW a, LE!Done(a) PROVE Ends(a)
  BY <1>2 DEF LE!Done, Ends, LE!NoJob
<1>3. ASSUME LE!Failed PROVE Fails
  BY <1>2, <1>3 DEF LE!Failed, Fails, Jobs
<1>4. ASSUME LE!Written PROVE Succeeds
  BY <1>1, <1>2, <1>4 DEF LE!Written, Succeeds, Jobs
<1>5. ASSUME LE!AfterRemoval PROVE Detached
  BY <1>1, <1>2, <1>5 DEF LE!AfterRemoval, Detached
<1> QED BY <1>1, <1>2, <1>3, <1>4, <1>5 DEF JobSteps

(* The two stores of this moment.                                          *)
LEMMA StoresAre ==
  /\ LE!Stores.entry = entry /\ LE!Stores.allowed = allowed /\ LE!Stores.pref = pref
  /\ LE!Stores.present = LE!Present /\ LE!Stores.effective = LE!Effective
  /\ LE!Stores.disabled = LE!Disabled
BY DEF LE!Stores

(* The fields of the job.                                                  *)
JobFields ==
  /\ os \in {"windows", "macos"} /\ pref \in BOOLEAN /\ marker \in BOOLEAN
  /\ entry \in Entries2 /\ allowed \in Switches
  /\ removing \in {"no", "asked", "orphan"}
  /\ saved \in {"none", "saved", "refused", "both"}
  /\ job.value \in BOOLEAN /\ job.back \in BOOLEAN /\ job.outside \in BOOLEAN
  /\ job.old.pref \in BOOLEAN /\ job.old.present \in BOOLEAN
  /\ job.old.effective \in BOOLEAN /\ job.old.disabled \in BOOLEAN
  /\ job.old.entry \in Entries2 /\ job.old.allowed \in Switches
  /\ job.op \in {"none", "save", "repair", "migrate", "recover", "detach", "cleanup"}

(* In a typed store the fields of the job are typed one by one.             *)
LEMMA JobTyped ==
  ASSUME LoginTypes
  PROVE  JobFields
BY DEF JobFields, LoginTypes, Jobs, Olds

(* A job that begins is typed.                                             *)
LEMMA BeginTyped ==
  ASSUME LoginTypes,
         NEW op \in {"save", "repair", "migrate", "recover", "detach", "cleanup"},
         NEW at \in {"write", "own", "names", "unregister"}, NEW value \in BOOLEAN,
         LE!Begin(op, at, value)
  PROVE  job' \in Jobs /\ saved' = "none"
BY StoresTyped DEF LE!Begin, Jobs, OnWindows, OnMac

(* What the updates of a job leave in its fields.                          *)
JobUpdated ==
  /\ LET j == [job EXCEPT !.op = "migrate", !.at = "own", !.old = LE!Stores, !.outside = FALSE]
     IN  j.op = "migrate" /\ j.at = "own" /\ j.old = LE!Stores /\ j.outside = FALSE
  /\ LET j == [LE!NoJob EXCEPT !.old = job.old, !.outside = job.outside]
     IN  j.op = "none" /\ j.at = "idle" /\ j.old = job.old /\ j.outside = job.outside
  /\ LET j == [job EXCEPT !.at = "backApproval", !.value = TRUE]
     IN  /\ j.op = job.op /\ j.at = "backApproval" /\ j.value = TRUE /\ j.back = job.back
         /\ j.old = job.old /\ j.outside = job.outside
  /\ LET j == [job EXCEPT !.at = "backApproval", !.value = FALSE]
     IN  /\ j.op = job.op /\ j.at = "backApproval" /\ j.value = FALSE /\ j.back = job.back
         /\ j.old = job.old /\ j.outside = job.outside
  /\ LET j == [job EXCEPT !.outside = TRUE]
     IN  /\ j.op = job.op /\ j.at = job.at /\ j.value = job.value /\ j.back = job.back
         /\ j.old = job.old /\ j.outside = TRUE

(* An update of the job by EXCEPT changes the fields it names, no others.   *)
LEMMA JobUpdatedHolds ==
  ASSUME LoginTypes
  PROVE  JobUpdated
BY DEF JobUpdated, LoginTypes, Jobs, LE!NoJob

(* What a step that fails leaves alone.                                    *)
Frame == UNCHANGED <<os, pref, entry, allowed, marker>>
Failing ==
  /\ LE!Failed /\ Frame /\ (os = "windows" => removing' = "no")
  /\ job.at \in {"write", "verify", "persist", "approve", "drop", "unregister", "wait",
                 "remove", "register"}

(* A step that fails changes nothing but the job.                          *)
LEMMA FailureKeeps ==
  ASSUME LoginInv, LoginTypes', Failing
  PROVE  LoginInv'
<1>0. Fails /\ JobFields
  BY JobsStep, JobTyped DEF JobSteps, LoginInv, Failing
<1> USE <1>0 DEF JobFields, LoginInv, Failing, Frame, Fails, Ends
<1>1. Places'
  BY DEF Places
<1>2. Owners'
  BY DEF Owners, SaveInv, Places
<1>3. Remembers'
  <2>1. job'.old = job.old /\ os' = os
    OBVIOUS
  <2> QED BY ONLY <2>1, Remembers DEF Remembers
<1>4. SaveInv'
  BY DEF Places, Owners, SaveInv, Remembers
<1>5. MigrationInv'
  BY DEF MigrationInv, Untouched, Places, SaveInv
<1>6. LE!SaveIsWhole'
  BY DEF LE!SaveIsWhole, LE!Present, LE!Names, Places, SaveInv, Owners
<1> QED BY <1>1, <1>2, <1>3, <1>4, <1>5, <1>6

(* What a job remembers stays true.                                        *)
LEMMA RemembersKept ==
  ASSUME LoginInv, os' = os, job'.old = job.old \/ job'.old = LE!Stores
  PROVE  Remembers'
<1>1. CASE job'.old = job.old
  BY <1>1 DEF LoginInv, Remembers
<1>2. CASE job'.old = LE!Stores
  BY <1>2, StoresAre
     DEF LoginInv, LoginTypes, Remembers, LE!Present, LE!Effective, LE!Disabled, LE!Names
<1> QED BY <1>1, <1>2

(* A save that has persisted, and its migration on Windows.                *)
Persisted ==
  /\ job.at = "persist" /\ UNCHANGED <<os, marker, entry, allowed, removing>>
  /\ pref' = job.value /\ saved' = "saved"
  /\ os = "windows" => /\ job'.op = "migrate" /\ job'.at = "own" /\ job'.old = LE!Stores
                       /\ job'.outside = FALSE
  /\ os # "windows" => /\ job'.op = "none" /\ job'.at = "idle" /\ job'.old = job.old
                       /\ job'.outside = job.outside

(* Apart from its failures, Persist is such a save.                         *)
LEMMA PersistStep ==
  ASSUME LoginInv, ~Failing, LE!Persist
  PROVE  Persisted
<1>1. JobUpdated
  BY JobUpdatedHolds DEF LoginInv
<1>2. ~(LE!Failed /\ UNCHANGED <<pref, queued>>)
  BY DEF LE!Persist, Failing, Frame, LE!System, LoginInv, Owners
<1>3. CASE os = "windows"
  BY <1>1, <1>2, <1>3 DEF LE!Persist, JobUpdated, Persisted, LE!System
<1>4. CASE os # "windows"
  BY <1>1, <1>2, <1>4 DEF LE!Persist, JobUpdated, Persisted, LE!System
<1> QED BY <1>3, <1>4

(* The first value of the way back.                                        *)
RunRestored ==
  /\ os = "windows" /\ job.at = "backRun" /\ job'.at = "backApproval"
  /\ job'.op = job.op /\ job'.back = job.back /\ job'.old = job.old
  /\ job'.outside = job.outside /\ job'.value \in BOOLEAN
  /\ entry'["old"] = entry["old"] /\ (job'.value => entry'["new"] = job.old.entry["new"])
  /\ UNCHANGED <<os, pref, marker, queued, allowed, removing, saved>>

(* RestoreRun is such a step, whether or not the entry could be restored.   *)
LEMMA RestoreRunStep ==
  ASSUME LoginTypes, LE!RestoreRun
  PROVE  RunRestored
<1>1. JobUpdated /\ JobFields
  BY JobUpdatedHolds, JobTyped
<1>2. CASE job' = [job EXCEPT !.at = "backApproval", !.value = FALSE] /\ entry' = entry
  BY <1>1, <1>2 DEF LE!RestoreRun, JobUpdated, RunRestored, LE!Rest
<1>3. CASE /\ entry' = [entry EXCEPT !["new"] = job.old.entry["new"]]
           /\ job' = [job EXCEPT !.at = "backApproval", !.value = TRUE]
  BY <1>1, <1>3 DEF LE!RestoreRun, JobUpdated, RunRestored, LE!Rest, JobFields, Entries2, LE!Names
<1> QED BY <1>2, <1>3 DEF LE!RestoreRun

(* Every step of the entry keeps the types.                                *)
LEMMA LoginTypeStep ==
  ASSUME LoginTypes, LE!LoginNext
  PROVE  LoginTypes'
<1> LE!Stores \in Olds /\ LE!NoJob \in Jobs
  BY StoresTyped
<1> JobFields
  BY JobTyped
<1> USE JobsTyped, BeginTyped, JobUpdates DEF JobFields, LoginTypes, LE!Rest, LE!System, Entries2, Switches, LE!Names, OnWindows, OnMac
<1>1. CASE \E to \in BOOLEAN : LE!SaveBegins(to)
  BY <1>1 DEF LE!SaveBegins
<1>2. CASE LE!PlainSave
  BY <1>2 DEF LE!PlainSave
<1>3. CASE LE!Verify
  BY <1>3 DEF LE!Verify
<1>4. CASE LE!Persist
  BY <1>4 DEF LE!Persist
<1>5. CASE LE!WindowsEnable
  BY <1>5 DEF LE!WindowsEnable
<1>6. CASE LE!WindowsApprove
  BY <1>6 DEF LE!WindowsApprove
<1>7. CASE LE!WindowsDisable
  BY <1>7 DEF LE!WindowsDisable
<1>8. CASE LE!RestoreRun
  BY <1>8 DEF LE!RestoreRun
<1>9. CASE LE!RestoreApproval
  BY <1>9 DEF LE!RestoreApproval
<1>10. CASE LE!WindowsMigrates
  BY <1>10 DEF LE!WindowsMigrates
<1>11. CASE LE!CarrySwitch
  BY <1>11 DEF LE!CarrySwitch
<1>12. CASE LE!Adopt
  BY <1>12 DEF LE!Adopt
<1>13. CASE LE!Forget
  BY <1>13 DEF LE!Forget
<1>14. CASE LE!Cleanup
  BY <1>14 DEF LE!Cleanup
<1>15. CASE LE!CleanupNames
  BY <1>15 DEF LE!CleanupNames
<1>16. CASE LE!MacEnable
  BY <1>16 DEF LE!MacEnable, LE!MayRegister, LE!LegacyOn
<1>17. CASE LE!Drop
  BY <1>17 DEF LE!Drop, LE!NativeOn, LE!LegacyOn, LE!NativeOff
<1>18. CASE LE!Unregister
  BY <1>18 DEF LE!Unregister, LE!AfterRemoval
<1>19. CASE LE!RemovalCompletes
  BY <1>19 DEF LE!RemovalCompletes, LE!AfterRemoval
<1>20. CASE LE!RemovalTimesOut
  BY <1>20 DEF LE!RemovalTimesOut
<1>21. CASE LE!RemoveLegacy
  BY <1>21 DEF LE!RemoveLegacy, LE!NativeOff
<1>22. CASE LE!MacMigrates
  BY <1>22 DEF LE!MacMigrates, LE!LegacyOn, LE!NativeOff
<1>23. CASE LE!MigrationDropped
  BY <1>23 DEF LE!MigrationDropped
<1>24. CASE LE!RepairBegins
  BY <1>24 DEF LE!RepairBegins
<1>25. CASE LE!RepairRegisters
  BY <1>25 DEF LE!RepairRegisters
<1>26. CASE LE!UpgradeDetaches
  BY <1>26 DEF LE!UpgradeDetaches, LE!NativeOn
<1>27. CASE LE!UpgradeRecovers
  BY <1>27 DEF LE!UpgradeRecovers, LE!NativeOff
<1>28. CASE LE!UpgradeRecovered
  BY <1>28 DEF LE!UpgradeRecovered, LE!NativeOn
<1>29. ASSUME NEW n \in LE!Names, LE!UserSwitches(n) PROVE LoginTypes'
  <2>1. allowed' \in Switches
    BY <1>29 DEF LE!UserSwitches
  <2> QED BY <1>29, <2>1 DEF LE!UserSwitches, LE!Outside
<1>30. CASE LE!LateRemoval
  BY <1>30 DEF LE!LateRemoval
<1>31. CASE LE!LoginCrash
  BY <1>31 DEF LE!LoginCrash, LE!NoJob
<1> QED BY <1>1, <1>2, <1>3, <1>4, <1>5, <1>6, <1>7, <1>8, <1>9, <1>10, <1>11, <1>12, <1>13, <1>14, <1>15, <1>16, <1>17, <1>18, <1>19, <1>20, <1>21, <1>22, <1>23, <1>24, <1>25, <1>26, <1>27, <1>28, <1>29, <1>30, <1>31 DEF LE!LoginNext

(* What the steps do.  Only Windows keeps no removal and no marker.        *)
Calm == os' = os /\ (os = "windows" => removing' = "no" /\ ~marker')
Stays == UNCHANGED <<pref, entry, allowed>>
NewOnly == UNCHANGED <<pref, allowed>> /\ entry'["old"] = entry["old"]
Waits == Stays /\ UNCHANGED <<job, saved>>
Begins ==
  /\ Stays /\ job.at = "idle" /\ saved' = "none"
  /\ job'.back = FALSE /\ job'.old = LE!Stores /\ job'.outside = FALSE
  /\ \/ job'.op = "save" /\ job'.at = "write"
     \/ /\ job'.op = "repair" /\ job'.at = (IF os = "windows" THEN "write" ELSE "unregister")
        /\ job'.value /\ pref
     \/ os = "windows" /\ job'.op = "migrate" /\ job'.at = "own"
     \/ os = "windows" /\ job'.op = "cleanup" /\ job'.at = "names"
     \/ os = "macos" /\ job'.op = "detach" /\ job'.at = "unregister"
     \/ /\ os = "macos" /\ job'.op = "migrate" /\ job'.at = "write" /\ job'.value /\ pref
        /\ entry["old"] = "ours" /\ allowed["old"] # "off"
     \/ /\ os = "macos" /\ job'.op = "recover" /\ job'.at = "write" /\ job'.value /\ pref
        /\ ~(entry["new"] = "ours" /\ allowed["new"] = "off")
Verified ==
  job.at = "verify" /\ Stays /\ LE!Present = job.value /\ Goes("persist") /\ saved' = saved
RunWritten ==
  /\ os = "windows" /\ job.at = "write" /\ job.value /\ job.op \in {"save", "repair"}
  /\ NewOnly /\ entry'["new"] = "ours" /\ Goes("approve") /\ saved' = saved
Approved ==
  /\ os = "windows" /\ job.at = "approve" /\ UNCHANGED <<pref, entry>>
  /\ allowed'["new"] = "on" /\ allowed'["old"] = allowed["old"] /\ Succeeds
RunDeleted ==
  /\ os = "windows" /\ job.at = "write" /\ ~job.value /\ NewOnly /\ entry'["new"] = "none"
  /\ Succeeds
ApprovalRestored ==
  /\ os = "windows" /\ job.at = "backApproval" /\ UNCHANGED <<pref, entry>>
  /\ \/ Ends("both")
     \/ /\ allowed'["new"] = job.old.allowed["new"] /\ allowed'["old"] = allowed["old"]
        /\ job.value /\ Ends("refused")
SwitchCarried ==
  /\ job.at = "own" /\ UNCHANGED <<pref, entry>>
  /\ \/ Ends(saved) /\ allowed' = allowed
     \/ /\ entry["new"] # "other" /\ entry["old"] = "ours" /\ saved' = saved
        /\ \/ /\ pref /\ Goes("adopt") /\ allowed'["old"] = allowed["old"]
              /\ allowed'["new"] = IF allowed["new"] = "unset" THEN allowed["old"]
                                   ELSE allowed["new"]
           \/ ~pref /\ Goes("forget") /\ allowed' = allowed
Adopted ==
  /\ job.at = "adopt" /\ NewOnly
  /\ \/ Ends(saved) /\ entry' = entry
     \/ Goes("forget") /\ saved' = saved /\ entry'["new"] = "ours"
Forgotten ==
  /\ job.at = "forget" /\ UNCHANGED <<pref, allowed>> /\ entry'["new"] = entry["new"]
  /\ Ends(saved)
NamesGone == job.at = "names" /\ UNCHANGED <<pref, allowed>> /\ Ends("none")
Registered ==
  /\ \/ os = "macos" /\ job.at = "write" /\ job.value
     \/ job.at = "register"
  /\ NewOnly /\ entry'["new"] = "ours" /\ Goes("drop") /\ saved' = saved
  /\ job.at = "write" => \/ entry["new"] = "ours" \/ entry["old"] # "ours"
                         \/ allowed["old"] # "off"
Dropped ==
  /\ job.at = "drop" /\ UNCHANGED <<pref, allowed>> /\ entry'["new"] = entry["new"]
  /\ entry'["old"] # "ours" => entry["old"] # "ours" \/ entry["new"] = "ours"
  /\ Succeeds
Unregistered ==
  /\ os = "macos" /\ Stays
  /\ (job.at = "write" /\ ~job.value) \/ job.at = "unregister"
  /\ \/ entry["new"] = "none" /\ Detached
     \/ Goes("wait") /\ saved' = saved
Removed == job.at = "wait" /\ NewOnly /\ entry'["new"] = "none" /\ Detached
LegacyGone ==
  /\ job.at = "remove" /\ UNCHANGED <<pref, allowed>> /\ entry'["new"] = entry["new"]
  /\ entry'["old"] # "ours" /\ Succeeds
Recovered == job.at = "enabled" /\ Stays /\ Ends("none")
Meddled ==
  /\ pref' = pref /\ saved' \in {saved, "none"} /\ (os = "windows" => entry' = entry)
  /\ entry'["new"] \in {entry["new"], "none"} /\ entry'["old"] = entry["old"]
  /\ job'.op = job.op /\ job'.at = job.at /\ job'.value = job.value /\ job'.back = job.back
  /\ job'.old = job.old /\ job'.outside = TRUE
Crashed ==
  /\ Stays /\ saved' = "none" /\ job'.op = "none" /\ job'.at = "idle" /\ job'.old = LE!Stores

Effects ==
  \/ Waits \/ Begins \/ Verified \/ Persisted \/ RunWritten \/ Approved \/ RunDeleted
  \/ RunRestored \/ ApprovalRestored \/ SwitchCarried \/ Adopted \/ Forgotten \/ NamesGone
  \/ Registered \/ Dropped \/ Unregistered \/ Removed \/ LegacyGone \/ Recovered \/ Meddled
  \/ Crashed

(* Every step that does not fail does one of these.                        *)
LEMMA LoginEffects ==
  ASSUME LoginInv, ~Failing, LE!LoginNext
  PROVE  Calm /\ Effects
<1>u. JobUpdated
  BY JobUpdatedHolds DEF LoginInv
<1> JobSteps /\ JobFields
  BY JobsStep, JobTyped DEF LoginInv
<1> Places /\ Owners
  BY DEF LoginInv
<1> USE DEF JobSteps, JobFields, Failing, Frame, LE!Rest, LE!System, Owners, Calm
<1>1. CASE \E to \in BOOLEAN : LE!SaveBegins(to)
  <2>1. Calm /\ Begins
    BY <1>1 DEF LE!SaveBegins, Stays, LE!Begin, Places, Begins
  <2> QED BY <2>1 DEF Effects
<1>2. CASE LE!PlainSave
  <2>1. Calm /\ Waits
    BY <1>2 DEF LE!PlainSave, Stays, Places, Waits
  <2> QED BY <2>1 DEF Effects
<1>3. CASE LE!Verify
  <2>1. Calm /\ Verified
    BY <1>3 DEF LE!Verify, Stays, Places, Verified
  <2> QED BY <2>1 DEF Effects
<1>4. CASE LE!Persist
  <2>1. Persisted
    BY <1>4, PersistStep
  <2> QED BY <2>1 DEF Persisted, Effects
<1>5. CASE LE!WindowsEnable
  <2>1. Calm /\ RunWritten
    BY <1>5 DEF LE!WindowsEnable, NewOnly, LE!Names, Entries2, Places, RunWritten
  <2> QED BY <2>1 DEF Effects
<1>6. CASE LE!WindowsApprove
  <2>1. Calm /\ Approved
    BY <1>6 DEF LE!WindowsApprove, LE!Names, Switches, Places, Approved
  <2> QED BY <2>1 DEF Effects
<1>7. CASE LE!WindowsDisable
  <2>1. Calm /\ RunDeleted
    BY <1>7 DEF LE!WindowsDisable, NewOnly, LE!Names, Entries2, Places, RunDeleted
  <2> QED BY <2>1 DEF Effects
<1>8. CASE LE!RestoreRun
  <2>1. RunRestored
    BY <1>8, RestoreRunStep DEF LoginInv
  <2>2. UNCHANGED <<os, marker, removing>>
    BY <2>1 DEF RunRestored
  <2> QED BY <2>1, <2>2 DEF Effects
<1>9. CASE LE!RestoreApproval
  <2>1. Calm /\ ApprovalRestored
    BY <1>9 DEF LE!RestoreApproval, LE!Names, Switches, Places, ApprovalRestored
  <2> QED BY <2>1 DEF Effects
<1>10. CASE LE!WindowsMigrates
  <2>1. Calm /\ Begins
    BY <1>10 DEF LE!WindowsMigrates, Stays, LE!Begin, Places, Begins
  <2> QED BY <2>1 DEF Effects
<1>11. CASE LE!CarrySwitch
  <2>1. Calm /\ SwitchCarried
    BY <1>11 DEF LE!CarrySwitch, LE!Names, Switches, Places, SwitchCarried
  <2> QED BY <2>1 DEF Effects
<1>12. CASE LE!Adopt
  <2>1. Calm /\ Adopted
    BY <1>12 DEF LE!Adopt, NewOnly, LE!Names, Entries2, Places, Adopted
  <2> QED BY <2>1 DEF Effects
<1>13. CASE LE!Forget
  <2>1. Calm /\ Forgotten
    BY <1>13 DEF LE!Forget, LE!Names, Entries2, Places, Forgotten
  <2> QED BY <2>1 DEF Effects
<1>14. CASE LE!Cleanup
  <2>1. Calm /\ Begins
    BY <1>14 DEF LE!Cleanup, Stays, LE!Begin, Places, Begins
  <2> QED BY <2>1 DEF Effects
<1>15. CASE LE!CleanupNames
  <2>1. Calm /\ NamesGone
    BY <1>15 DEF LE!CleanupNames, Places, NamesGone
  <2> QED BY <2>1 DEF Effects
<1>16. CASE LE!MacEnable
  <2>1. Calm /\ Registered
    BY <1>16 DEF LE!MacEnable, NewOnly, LE!MayRegister, LE!LegacyOn, LE!Names, Entries2, Places, Registered
  <2> QED BY <2>1 DEF Effects
<1>17. CASE LE!Drop
  <2>1. Calm /\ Dropped
    BY <1>17 DEF LE!Drop, LE!NativeOn, LE!LegacyOn, LE!Names, Entries2, Places, Dropped
  <2> QED BY <2>1 DEF Effects
<1>18. CASE LE!Unregister
  <2>1. Calm /\ Unregistered
    BY <1>18 DEF LE!Unregister, Stays, Places, Unregistered
  <2> QED BY <2>1 DEF Effects
<1>19. CASE LE!RemovalCompletes
  <2>1. Calm /\ Removed
    BY <1>19 DEF LE!RemovalCompletes, NewOnly, LE!Names, Entries2, Places, Removed
  <2> QED BY <2>1 DEF Effects
<1>20. CASE LE!RemovalTimesOut
  BY <1>20 DEF LE!RemovalTimesOut, Places
<1>21. CASE LE!RemoveLegacy
  <2>1. Calm /\ LegacyGone
    BY <1>21 DEF LE!RemoveLegacy, LE!Names, Entries2, Places, LegacyGone
  <2> QED BY <2>1 DEF Effects
<1>22. CASE LE!MacMigrates
  <2>1. Calm /\ (Begins \/ Waits)
    BY <1>22 DEF LE!MacMigrates, Stays, LE!Begin, LE!LegacyOn, Places, Begins, Waits
  <2> QED BY <2>1 DEF Effects
<1>23. CASE LE!MigrationDropped
  <2>1. Calm /\ Waits
    BY <1>23 DEF LE!MigrationDropped, Stays, Places, Waits
  <2> QED BY <2>1 DEF Effects
<1>24. CASE LE!RepairBegins
  <2>1. Calm /\ Begins
    BY <1>24 DEF LE!RepairBegins, Stays, LE!Begin, Places, Begins
  <2> QED BY <2>1 DEF Effects
<1>25. CASE LE!RepairRegisters
  <2>1. Calm /\ Registered
    BY <1>25 DEF LE!RepairRegisters, NewOnly, LE!Names, Entries2, Places, Registered
  <2> QED BY <2>1 DEF Effects
<1>26. CASE LE!UpgradeDetaches
  <2>1. Calm /\ (Begins \/ Waits)
    BY <1>26 DEF LE!UpgradeDetaches, Stays, LE!Begin, Places, Begins, Waits
  <2> QED BY <2>1 DEF Effects
<1>27. CASE LE!UpgradeRecovers
  <2>1. Calm /\ (Begins \/ Waits)
    <3>1. CASE pref
      BY <1>27, <3>1 DEF LE!UpgradeRecovers, Stays, LE!Begin, LE!NativeOff, Places, Begins
    <3>2. CASE ~pref
      BY <1>27, <3>2 DEF LE!UpgradeRecovers, Stays, Places, Waits
    <3> QED BY <3>1, <3>2
  <2> QED BY <2>1 DEF Effects
<1>28. CASE LE!UpgradeRecovered
  <2>1. Calm /\ Recovered
    BY <1>28 DEF LE!UpgradeRecovered, Stays, Places, Recovered
  <2> QED BY <2>1 DEF Effects
<1>29. CASE \E n \in LE!Names : LE!UserSwitches(n)
  <2>1. Calm /\ Meddled
    BY <1>29, <1>u DEF LE!UserSwitches, LE!Outside, JobUpdated, LE!Names, Entries2, Places, Meddled
  <2> QED BY <2>1 DEF Effects
<1>30. CASE LE!LateRemoval
  <2>1. Calm /\ Meddled
    BY <1>30, <1>u DEF LE!LateRemoval, JobUpdated, LE!Names, Entries2, Places, Meddled
  <2> QED BY <2>1 DEF Effects
<1>31. CASE LE!LoginCrash
  <2>1. Calm /\ Crashed
    BY <1>31 DEF LE!LoginCrash, Stays, LE!NoJob, Places, Crashed
  <2> QED BY <2>1 DEF Effects
<1> QED BY <1>1, <1>2, <1>3, <1>4, <1>5, <1>6, <1>7, <1>8, <1>9, <1>10, <1>11, <1>12, <1>13, <1>14, <1>15, <1>16, <1>17, <1>18, <1>19, <1>20, <1>21, <1>22, <1>23, <1>24, <1>25, <1>26, <1>27, <1>28, <1>29, <1>30, <1>31 DEF LE!LoginNext

(* So after a step.                                                        *)
LEMMA JobTypedNext ==
  ASSUME LoginTypes'
  PROVE  JobFields'
BY DEF JobFields, LoginTypes, Jobs, Olds

(* Every step leads to a place of its operation.                           *)
LEMMA LoginPlacesStep ==
  ASSUME LoginInv, LoginTypes', Calm, Effects
  PROVE  Places' /\ Owners'
<1> JobFields /\ JobFields'
  BY JobTyped, JobTypedNext DEF LoginInv
<1> USE StoresAre DEF LoginInv, JobFields, Calm, Stays, NewOnly, Goes, Ends, Places, Owners, SaveInv
<1>1. CASE Waits
  BY <1>1 DEF Waits
<1>2. CASE Begins
  BY <1>2 DEF Begins
<1>3. CASE Verified
  BY <1>3 DEF Verified
<1>4. CASE Persisted
  BY <1>4 DEF Persisted
<1>5. CASE RunWritten
  BY <1>5 DEF RunWritten
<1>6. CASE Approved
  BY <1>6 DEF Approved, Succeeds
<1>7. CASE RunDeleted
  BY <1>7 DEF RunDeleted, Succeeds
<1>8. CASE RunRestored
  BY <1>8 DEF RunRestored
<1>9. CASE ApprovalRestored
  BY <1>9 DEF ApprovalRestored
<1>10. CASE SwitchCarried
  BY <1>10 DEF SwitchCarried
<1>11. CASE Adopted
  BY <1>11 DEF Adopted
<1>12. CASE Forgotten
  BY <1>12 DEF Forgotten
<1>13. CASE NamesGone
  BY <1>13 DEF NamesGone
<1>14. CASE Registered
  BY <1>14 DEF Registered
<1>15. CASE Dropped
  BY <1>15 DEF Dropped, Succeeds
<1>16. CASE Unregistered
  BY <1>16 DEF Unregistered, Detached
<1>17. CASE Removed
  BY <1>17 DEF Removed, Detached
<1>18. CASE LegacyGone
  BY <1>18 DEF LegacyGone, Succeeds
<1>19. CASE Recovered
  BY <1>19 DEF Recovered
<1>20. CASE Meddled
  BY <1>20 DEF Meddled
<1>21. CASE Crashed
  BY <1>21 DEF Crashed
<1> QED BY <1>1, <1>2, <1>3, <1>4, <1>5, <1>6, <1>7, <1>8, <1>9, <1>10, <1>11, <1>12, <1>13, <1>14, <1>15, <1>16, <1>17, <1>18, <1>19, <1>20, <1>21 DEF Effects

(* Every step keeps the account of a save.                                 *)
LEMMA LoginSaveStep ==
  ASSUME LoginInv, LoginTypes', Calm, Effects
  PROVE  SaveInv'
<1> JobFields /\ JobFields'
  BY JobTyped, JobTypedNext DEF LoginInv
<1> USE StoresAre DEF LoginInv, JobFields, Calm, Stays, NewOnly, Goes, Ends, Places, Owners, SaveInv, Remembers, LE!Present
<1>1. CASE Waits
  BY <1>1 DEF Waits
<1>2. CASE Begins
  BY <1>2 DEF Begins
<1>3. CASE Verified
  BY <1>3 DEF Verified
<1>4. CASE Persisted
  BY <1>4 DEF Persisted
<1>5. CASE RunWritten
  BY <1>5 DEF RunWritten
<1>6. CASE Approved
  BY <1>6 DEF Approved, Succeeds
<1>7. CASE RunDeleted
  BY <1>7 DEF RunDeleted, Succeeds
<1>8. CASE RunRestored
  BY <1>8 DEF RunRestored
<1>9. CASE ApprovalRestored
  BY <1>9 DEF ApprovalRestored
<1>10. CASE SwitchCarried
  BY <1>10 DEF SwitchCarried
<1>11. CASE Adopted
  BY <1>11 DEF Adopted
<1>12. CASE Forgotten
  BY <1>12 DEF Forgotten
<1>13. CASE NamesGone
  BY <1>13 DEF NamesGone
<1>14. CASE Registered
  BY <1>14 DEF Registered
<1>15. CASE Dropped
  BY <1>15 DEF Dropped, Succeeds
<1>16. CASE Unregistered
  BY <1>16 DEF Unregistered, Detached
<1>17. CASE Removed
  BY <1>17 DEF Removed, Detached
<1>18. CASE LegacyGone
  BY <1>18 DEF LegacyGone, Succeeds
<1>19. CASE Recovered
  BY <1>19 DEF Recovered
<1>20. CASE Meddled
  BY <1>20 DEF Meddled
<1>21. CASE Crashed
  BY <1>21 DEF Crashed
<1> QED BY <1>1, <1>2, <1>3, <1>4, <1>5, <1>6, <1>7, <1>8, <1>9, <1>10, <1>11, <1>12, <1>13, <1>14, <1>15, <1>16, <1>17, <1>18, <1>19, <1>20, <1>21 DEF Effects

(* Every step keeps the account of a migration.                            *)
LEMMA LoginMigrationStep ==
  ASSUME LoginInv, LoginTypes', Calm, Effects
  PROVE  MigrationInv'
<1> JobFields /\ JobFields'
  BY JobTyped, JobTypedNext DEF LoginInv
<1> USE StoresAre DEF LoginInv, JobFields, Calm, Stays, NewOnly, Goes, Ends, Places, Owners, MigrationInv, Untouched, SaveInv, Remembers, LE!Effective, LE!Disabled, LE!Names
<1>1. CASE Waits
  BY <1>1 DEF Waits
<1>2. CASE Begins
  BY <1>2 DEF Begins
<1>3. CASE Verified
  BY <1>3 DEF Verified
<1>4. CASE Persisted
  BY <1>4 DEF Persisted
<1>5. CASE RunWritten
  BY <1>5 DEF RunWritten
<1>6. CASE Approved
  BY <1>6 DEF Approved, Succeeds
<1>7. CASE RunDeleted
  BY <1>7 DEF RunDeleted, Succeeds
<1>8. CASE RunRestored
  BY <1>8 DEF RunRestored
<1>9. CASE ApprovalRestored
  BY <1>9 DEF ApprovalRestored
<1>10. CASE SwitchCarried
  BY <1>10 DEF SwitchCarried
<1>11. CASE Adopted
  BY <1>11 DEF Adopted
<1>12. CASE Forgotten
  BY <1>12 DEF Forgotten
<1>13. CASE NamesGone
  BY <1>13 DEF NamesGone
<1>14. CASE Registered
  BY <1>14 DEF Registered
<1>15. CASE Dropped
  <2>1. CASE job.op = "repair"
    BY <1>15, <2>1 DEF Dropped, Succeeds, LE!NativeOff
  <2>2. CASE job.op # "repair"
    BY <1>15, <2>2 DEF Dropped, Succeeds
  <2> QED BY <2>1, <2>2
<1>16. CASE Unregistered
  BY <1>16 DEF Unregistered, Detached
<1>17. CASE Removed
  BY <1>17 DEF Removed, Detached
<1>18. CASE LegacyGone
  BY <1>18 DEF LegacyGone, Succeeds
<1>19. CASE Recovered
  BY <1>19 DEF Recovered
<1>20. CASE Meddled
  BY <1>20 DEF Meddled
<1>21. CASE Crashed
  BY <1>21 DEF Crashed
<1> QED BY <1>1, <1>2, <1>3, <1>4, <1>5, <1>6, <1>7, <1>8, <1>9, <1>10, <1>11, <1>12, <1>13, <1>14, <1>15, <1>16, <1>17, <1>18, <1>19, <1>20, <1>21 DEF Effects

(* An answer of a save is true, and stays true.                            *)
LEMMA LoginWholeStep ==
  ASSUME LoginInv, LoginTypes', Calm, Effects
  PROVE  LE!SaveIsWhole'
<1> JobFields /\ JobFields'
  BY JobTyped, JobTypedNext DEF LoginInv
<1> USE StoresAre DEF LoginInv, JobFields, Calm, Stays, NewOnly, Goes, Ends, Places, Owners, LE!SaveIsWhole, SaveInv, LE!Present, LE!Names
<1>1. CASE Waits
  BY <1>1 DEF Waits
<1>2. CASE Begins
  BY <1>2 DEF Begins
<1>3. CASE Verified
  BY <1>3 DEF Verified
<1>4. CASE Persisted
  BY <1>4 DEF Persisted
<1>5. CASE RunWritten
  BY <1>5 DEF RunWritten
<1>6. CASE Approved
  BY <1>6 DEF Approved, Succeeds
<1>7. CASE RunDeleted
  BY <1>7 DEF RunDeleted, Succeeds
<1>8. CASE RunRestored
  BY <1>8 DEF RunRestored
<1>9. CASE ApprovalRestored
  <2>1. CASE Ends("both")
    BY <1>9, <2>1 DEF ApprovalRestored
  <2>2. CASE Ends("refused")
    BY <1>9, <2>2 DEF ApprovalRestored, Remembers
  <2> QED BY <1>9, <2>1, <2>2 DEF ApprovalRestored
<1>10. CASE SwitchCarried
  BY <1>10 DEF SwitchCarried
<1>11. CASE Adopted
  <2>1. CASE Ends(saved) /\ entry' = entry
    BY <1>11, <2>1 DEF Adopted
  <2>2. CASE Goes("forget") /\ saved' = saved /\ entry'["new"] = "ours"
    BY <1>11, <2>2 DEF Adopted, MigrationInv
  <2> QED BY <1>11, <2>1, <2>2 DEF Adopted
<1>12. CASE Forgotten
  BY <1>12 DEF Forgotten
<1>13. CASE NamesGone
  BY <1>13 DEF NamesGone
<1>14. CASE Registered
  BY <1>14 DEF Registered
<1>15. CASE Dropped
  BY <1>15 DEF Dropped, Succeeds
<1>16. CASE Unregistered
  BY <1>16 DEF Unregistered, Detached
<1>17. CASE Removed
  BY <1>17 DEF Removed, Detached
<1>18. CASE LegacyGone
  BY <1>18 DEF LegacyGone, Succeeds
<1>19. CASE Recovered
  BY <1>19 DEF Recovered
<1>20. CASE Meddled
  BY <1>20 DEF Meddled
<1>21. CASE Crashed
  BY <1>21 DEF Crashed
<1> QED BY <1>1, <1>2, <1>3, <1>4, <1>5, <1>6, <1>7, <1>8, <1>9, <1>10, <1>11, <1>12, <1>13, <1>14, <1>15, <1>16, <1>17, <1>18, <1>19, <1>20, <1>21 DEF Effects

(* Every step remembers one state.                                         *)
LEMMA LoginRemembersStep ==
  ASSUME LoginInv, Calm, Effects
  PROVE  os' = os /\ (job'.old = job.old \/ job'.old = LE!Stores)
BY DEF Calm, Effects, Goes, Ends, Succeeds, Detached, Waits, Begins, Verified, Persisted, RunWritten, Approved, RunDeleted, RunRestored, ApprovalRestored, SwitchCarried, Adopted, Forgotten, NamesGone, Registered, Dropped, Unregistered, Removed, LegacyGone, Recovered, Meddled, Crashed

(* What moves an entry by itself neither revives a login nor loses one.     *)
LEMMA LoginMigrates ==
  ASSUME LoginTypes, Remembers, Places, SaveInv, MigrationInv
  PROVE  LE!MigrationRevivesNothing /\ LE!MigrationKeepsLogin
<1> JobFields
  BY JobTyped
<1> USE DEF JobFields, MigrationInv, Untouched, Remembers, Places, LE!Effective, LE!Names, Entries2, Switches
<1>1. LE!MigrationRevivesNothing
  BY DEF LE!MigrationRevivesNothing
<1>2. LE!MigrationKeepsLogin
  <2> USE DEF LE!MigrationKeepsLogin
  <2>1. CASE job.at = "own"
    BY <2>1
  <2>2. CASE job.at = "adopt"
    BY <2>2
  <2>3. CASE job.at = "forget"
    BY <2>3
  <2>4. CASE job.at = "write"
    BY <2>4
  <2>5. CASE job.at = "drop"
    BY <2>5 DEF SaveInv
  <2> QED BY <2>1, <2>2, <2>3, <2>4, <2>5
<1> QED BY <1>1, <1>2

(* Every step of the entry keeps the invariant.                            *)
LEMMA LoginSteps ==
  ASSUME LoginInv, LE!LoginNext
  PROVE  LoginInv'
<1>1. LoginTypes'
  BY LoginTypeStep DEF LoginInv
<1>2. CASE Failing
  BY <1>1, <1>2, FailureKeeps
<1>3. CASE ~Failing
  <2>0. Calm /\ Effects
    BY <1>3, LoginEffects
  <2>1. Places' /\ Owners'
    BY <1>1, <2>0, LoginPlacesStep
  <2>2. Remembers'
    BY <1>1, <2>0, LoginRemembersStep, RemembersKept
  <2>3. SaveInv' /\ LE!SaveIsWhole'
    BY <1>1, <2>0, LoginSaveStep, LoginWholeStep
  <2>4. MigrationInv'
    BY <1>1, <2>0, LoginMigrationStep
  <2> QED BY <1>1, <2>1, <2>2, <2>3, <2>4 DEF LoginInv
<1> QED BY <1>2, <1>3

(* It is about these nine variables only.                                  *)
LEMMA LoginStutters ==
  ASSUME LoginInv, UNCHANGED <<v1, v2, v3, v4, v5, v6, v7, v8, v9>>
  PROVE  LoginInv'
BY DEF LoginInv, LoginTypes, Remembers, Places, Owners, SaveInv, MigrationInv, Untouched,
       LE!SaveIsWhole, LE!Present, LE!Names

(* What the invariant says of the entry.                                   *)
LEMMA LoginHolds ==
  ASSUME LoginInv
  PROVE  /\ LE!LoginTypeOK /\ LE!SaveIsWhole
         /\ LE!MigrationRevivesNothing /\ LE!MigrationKeepsLogin
BY JobTyped, LoginMigrates DEF LoginInv, LE!LoginTypeOK, LoginTypes, JobFields, Entries2, Switches, LE!Names

(* Only for a user who wants it is an entry made, and nothing but a save   *)
(* touches the entry of another copy.                                      *)
LEMMA LoginIsCareful ==
  ASSUME LoginInv, LE!LoginNext
  PROVE  LE!LoginStepOK
<1> JobSteps /\ JobFields
  BY JobsStep, JobTyped DEF LoginInv
<1> USE DEF LoginInv, JobFields, Entries2, LE!Names, Places, Owners, MigrationInv
<1>1. CASE entry' = entry
  BY <1>1 DEF LE!LoginStepOK
<1>2. CASE LE!WindowsEnable
  BY <1>2 DEF LE!WindowsEnable, LE!LoginStepOK, LE!Failed, LE!System
<1>3. CASE LE!WindowsDisable
  BY <1>3 DEF LE!WindowsDisable, LE!LoginStepOK
<1>4. CASE LE!RestoreRun
  BY <1>4 DEF LE!RestoreRun, LE!LoginStepOK
<1>5. CASE LE!Adopt
  BY <1>5 DEF LE!Adopt, LE!LoginStepOK
<1>6. CASE LE!Forget
  BY <1>6 DEF LE!Forget, LE!LoginStepOK
<1>7. CASE LE!CleanupNames
  BY <1>7 DEF LE!CleanupNames, LE!LoginStepOK
<1>8. CASE LE!MacEnable
  BY <1>8 DEF LE!MacEnable, LE!LoginStepOK
<1>9. CASE LE!Drop
  BY <1>9 DEF LE!Drop, LE!LoginStepOK, LE!LegacyOn
<1>10. CASE LE!RemovalCompletes
  BY <1>10 DEF LE!RemovalCompletes, LE!LoginStepOK
<1>11. CASE LE!RemoveLegacy
  BY <1>11 DEF LE!RemoveLegacy, LE!LoginStepOK
<1>12. CASE LE!RepairRegisters
  BY <1>12 DEF LE!RepairRegisters, LE!LoginStepOK
<1>13. CASE LE!LateRemoval
  BY <1>13 DEF LE!LateRemoval, LE!LoginStepOK
<1> QED BY <1>1, <1>2, <1>3, <1>4, <1>5, <1>6, <1>7, <1>8, <1>9, <1>10, <1>11, <1>12, <1>13
        DEF LE!LoginNext, LE!SaveBegins, LE!PlainSave, LE!Verify, LE!Persist, LE!WindowsApprove,
            LE!RestoreApproval, LE!WindowsMigrates, LE!CarrySwitch, LE!Cleanup, LE!Unregister,
            LE!RemovalTimesOut, LE!MacMigrates, LE!MigrationDropped, LE!RepairBegins,
            LE!UpgradeDetaches, LE!UpgradeRecovers, LE!UpgradeRecovered, LE!UserSwitches,
            LE!LoginCrash, LE!System, LE!Rest

HIDE DEF os, pref, entry, allowed, removing, marker, queued, job, saved

-----------------------------------------------------------------------------
(* LocalRoute                                                              *)

routeDoc == v1
config == v2
lease == v3
relay == v4
request == v5
stats == v6
command == v7
lateEdit == v8
attachable == v9
USE DEF routeDoc, config, lease, relay, request, stats, command, lateEdit, attachable

Configs == [exists : BOOLEAN, provider : LR!Providers, table : LR!Tables, rest : 0..MaxEdits]
RouteOps ==
  {"none", "enable", "disable", "attach", "restore", "starting", "bootstrap", "shutdown"}
RouteSteps ==
  {"idle", "lease", "compare", "rename", "unlease", "document", "conflict", "stop", "drain",
   "close"}
RouteCommands == [op : RouteOps, at : RouteSteps, before : Configs, after : Configs]
RequestSteps == {"idle", "permit", "active", "forward", "stream", "drop"}
RouteRequests == [at : RequestSteps, counted : BOOLEAN, complete : BOOLEAN]

FilesTyped ==
  /\ routeDoc \in [revision : Nat, enabled : BOOLEAN] /\ config \in Configs
  /\ lease \in [held : BOOLEAN, original : Configs]
  /\ relay \in [up : BOOLEAN, accepting : BOOLEAN]
  /\ command \in RouteCommands /\ lateEdit \in BOOLEAN
RequestsTyped ==
  /\ request \in [Requests -> RouteRequests]
  /\ stats \in [requests : Nat, active : Nat, completed : Nat, failed : Nat]

(* A document that a command still has to write is below its bound.        *)
Revisions ==
  /\ routeDoc.revision <= MaxRevision
  /\ command.op = "disable" /\ command.at # "close" => routeDoc.revision < MaxRevision
  /\ command.op = "bootstrap" /\ routeDoc.enabled => routeDoc.revision < MaxRevision

(* The commands and their steps; what they write over what.                *)
LeaseInv ==
  /\ LR!TakenCanBeGivenBack
  /\ lease.held => lease.original.provider # "ours"
  /\ command.op = "attach" => command.at \in {"lease", "compare", "rename"}
  /\ command.at = "lease" => command.op = "attach" /\ command.before.provider # "ours"
  /\ command.at \in {"compare", "rename"} => lease.held
  /\ command.at \in {"compare", "rename"} /\ command.op # "attach" =>
       /\ LR!Owns(command.before) /\ command.after.provider = lease.original.provider
  /\ command.at \in {"compare", "rename"} => command.after.rest = command.before.rest
  /\ command.at = "lease" => command.after.rest = command.before.rest
  /\ command.at = "unlease" => config.provider # "ours"
  /\ command.at = "rename" /\ ~lateEdit => config = command.before

(* Who closes the relay, and which requests there can be by then.          *)
ClosingInv ==
  /\ command.at \in {"drain", "close"} => command.op = "disable"
  /\ command.op \in {"none", "starting", "enable"} => command.at = "idle"
  /\ command.at = "document" => command.op \in {"disable", "bootstrap"}
  /\ command.op = "disable" => ~relay.accepting
  /\ command.op = "disable" /\ command.at # "drain" =>
       \A r \in Requests : request[r].at \notin {"forward", "stream"}

UnderWay == {r \in Requests : request[r].at \in {"active", "forward", "stream", "drop"}}
Admitted == {r \in Requests : request[r].at # "idle"}
Uncounted == {r \in Requests : request[r].at # "idle" /\ ~request[r].counted}
CountsInv ==
  /\ \A r \in Requests : request[r].at = "idle" => ~request[r].counted
  /\ stats.active = Cardinality(UnderWay)
  /\ Cardinality(Admitted) <= MaxActive
  /\ stats.requests = stats.completed + stats.failed + Cardinality(Uncounted)

RouteInv ==
  /\ FilesTyped /\ RequestsTyped /\ Revisions /\ LeaseInv /\ ClosingInv /\ CountsInv

(* The records of the route, field by field.                               *)
RouteFields ==
  /\ routeDoc.revision \in Nat /\ routeDoc.enabled \in BOOLEAN
  /\ lease.held \in BOOLEAN /\ lease.original \in Configs
  /\ relay.up \in BOOLEAN /\ relay.accepting \in BOOLEAN
  /\ command.op \in RouteOps /\ command.at \in RouteSteps
  /\ command.before \in Configs /\ command.after \in Configs

(* The typed records of the route, field by field.                          *)
LEMMA RouteFieldsTyped == FilesTyped => RouteFields
BY DEF FilesTyped, RouteFields, RouteCommands

(* A configuration whose keys have been changed.                           *)
LEMMA ConfigUpdates ==
  ASSUME NEW c \in Configs, NEW p \in LR!Providers, NEW t \in LR!Tables, NEW n \in 0..MaxEdits
  PROVE  /\ [c EXCEPT !.exists = TRUE] \in Configs
         /\ [c EXCEPT !.exists = TRUE].provider = c.provider
         /\ [c EXCEPT !.exists = TRUE].rest = c.rest
         /\ [c EXCEPT !.provider = p, !.table = t] \in Configs
         /\ [c EXCEPT !.provider = p, !.table = t].provider = p
         /\ [c EXCEPT !.provider = p, !.table = t].rest = c.rest
         /\ [c EXCEPT !.exists = TRUE, !.provider = p, !.table = t] \in Configs
         /\ [c EXCEPT !.exists = TRUE, !.provider = p, !.table = t].rest = c.rest
         /\ [c EXCEPT !.exists = TRUE, !.rest = n] \in Configs
         /\ [c EXCEPT !.exists = TRUE, !.rest = n].provider = c.provider
         /\ [c EXCEPT !.provider = p, !.rest = n] \in Configs
         /\ [c EXCEPT !.provider = p, !.rest = n].provider = p
         /\ [c EXCEPT !.table = t, !.rest = n] \in Configs
         /\ [c EXCEPT !.table = t, !.rest = n].provider = c.provider
BY DEF Configs

(* What attaching and restoring write.                                     *)
LEMMA WrittenConfigs ==
  ASSUME NEW c \in Configs, lease.original \in Configs
  PROVE  /\ LR!Installed(c) \in Configs /\ LR!Installed(c).rest = c.rest
         /\ LR!Restored(c) \in Configs /\ LR!Restored(c).rest = c.rest
         /\ LR!Restored(c).provider = lease.original.provider
<1>0. "ours" \in LR!Providers /\ "installed" \in LR!Tables /\ "absent" \in LR!Tables
      /\ lease.original.provider \in LR!Providers
  BY DEF LR!Providers, LR!Tables, Configs
<1>1. LR!Installed(c) \in Configs /\ LR!Installed(c).rest = c.rest
  BY <1>0 DEF LR!Installed, Configs
<1>2. CASE c = LR!Installed(lease.original)
  <2>1. LR!Installed(lease.original).rest = lease.original.rest
    BY <1>0 DEF LR!Installed, Configs
  <2>2. LR!Restored(c) = [lease.original EXCEPT !.exists = TRUE]
    BY <1>2 DEF LR!Restored
  <2>3. /\ [lease.original EXCEPT !.exists = TRUE] \in Configs
        /\ [lease.original EXCEPT !.exists = TRUE].provider = lease.original.provider
        /\ [lease.original EXCEPT !.exists = TRUE].rest = lease.original.rest
    BY DEF Configs
  <2> QED BY <1>1, <1>2, <2>1, <2>2, <2>3
<1>3. CASE c # LR!Installed(lease.original)
  <2>1. LR!Restored(c) = [c EXCEPT !.provider = lease.original.provider, !.table = "absent"]
    BY <1>3 DEF LR!Restored
  <2>2. /\ [c EXCEPT !.provider = lease.original.provider, !.table = "absent"] \in Configs
        /\ [c EXCEPT !.provider = lease.original.provider, !.table = "absent"].provider
             = lease.original.provider
        /\ [c EXCEPT !.provider = lease.original.provider, !.table = "absent"].rest = c.rest
    BY <1>0 DEF Configs
  <2> QED BY <1>1, <2>1, <2>2
<1> QED BY <1>2, <1>3

(* What becomes of the command.                                            *)
GoesOn(at) ==
  /\ command' \in RouteCommands /\ command'.at = at /\ command'.op = command.op
  /\ command'.before = command.before /\ command'.after = command.after
Over == command' \in RouteCommands /\ command'.op = "none" /\ command'.at = "idle"
Restores(op) ==
  /\ command' \in RouteCommands /\ command'.op = op /\ command'.before = config
  /\ command'.after.provider = lease.original.provider /\ command'.after.rest = config.rest
  /\ \/ ~lease.held /\ command'.at = LR!AfterRestore(op)
     \/ lease.held /\ config = lease.original /\ command'.at = "unlease"
     \/ lease.held /\ LR!Owns(config) /\ command'.at = "compare"
     \/ lease.held /\ command'.at = "conflict"

CommandSteps ==
  /\ \A at \in RouteSteps : LR!Step(at) => GoesOn(at)
  /\ LR!End => Over
  /\ \A op \in {"restore", "shutdown", "disable", "bootstrap"} : LR!RestoreFrom(op) => Restores(op)

(* The steps of the code do no more.                                       *)
LEMMA CommandGoes ==
  ASSUME FilesTyped
  PROVE  CommandSteps
<1>0. RouteFields /\ config \in Configs
  BY RouteFieldsTyped DEF FilesTyped
<1>1. ASSUME NEW at \in RouteSteps, LR!Step(at) PROVE GoesOn(at)
  BY <1>1 DEF LR!Step, GoesOn, FilesTyped, RouteCommands
<1>2. ASSUME LR!End PROVE Over
  BY <1>2, RouteAssumption
     DEF LR!End, LR!NoCommand, LR!NoLease, Over, RouteCommands, RouteOps, RouteSteps, Configs,
         LR!Providers, LR!Tables
<1>3. ASSUME NEW op \in {"restore", "shutdown", "disable", "bootstrap"}, LR!RestoreFrom(op)
      PROVE  Restores(op)
  <2>1. /\ LR!Restored(config) \in Configs /\ LR!Restored(config).rest = config.rest
        /\ LR!Restored(config).provider = lease.original.provider
    BY <1>0, WrittenConfigs DEF RouteFields
  <2> DEFINE at == IF ~lease.held THEN LR!AfterRestore(op)
                   ELSE IF config = lease.original THEN "unlease"
                   ELSE IF LR!Owns(config) THEN "compare" ELSE "conflict"
  <2>2. command' = [op |-> op, at |-> at, before |-> config, after |-> LR!Restored(config)]
    BY <1>3 DEF LR!RestoreFrom
  <2>3. at \in RouteSteps
    BY DEF LR!AfterRestore, RouteSteps
  <2>4. command' \in RouteCommands
    BY <1>0, <2>1, <2>2, <2>3 DEF RouteCommands, RouteOps
  <2> QED BY <2>1, <2>2, <2>4 DEF Restores
<1> QED BY <1>1, <1>2, <1>3 DEF CommandSteps

(* A step of a request leaves the files and the commands alone.            *)
Serving ==
  \E r \in Requests :
    \/ LR!Admit(r) \/ LR!CountActive(r) \/ LR!LookAccepting(r) \/ LR!ForwardFails(r)
    \/ LR!Upstream(r) \/ LR!Completes(r) \/ LR!StreamEnds(r) \/ LR!StreamBreaks(r)
    \/ LR!DropGuard(r)

(* Serving a request changes nothing but requests and the statistics.       *)
LEMMA ServingKeeps ==
  ASSUME Serving
  PROVE  UNCHANGED <<routeDoc, config, lease, relay, command, lateEdit, attachable>>
BY DEF Serving, LR!Admit, LR!CountActive, LR!LookAccepting, LR!ForwardFails, LR!Upstream,
       LR!Completes, LR!StreamEnds, LR!StreamBreaks, LR!DropGuard, LR!Finish, LR!NotServing,
       LR!Files

(* The files and the commands keep their types.                            *)
LEMMA FilesTypedStep ==
  ASSUME FilesTyped, LR!RouteNext
  PROVE  FilesTyped'
<1> CommandSteps /\ RouteFields
  BY CommandGoes, RouteFieldsTyped
<1> USE DEF FilesTyped, RouteFields, CommandSteps, LR!Files, LR!Served, GoesOn, Over, Restores
<1>1. CASE LR!CommandFails
  BY <1>1 DEF LR!CommandFails
<1>2. CASE LR!AttachBegins
  <2>1. LR!Installed(config) \in Configs
    BY WrittenConfigs
  <2>2. command' \in RouteCommands
    BY <1>2, <2>1 DEF LR!AttachBegins, RouteCommands, RouteOps, RouteSteps
  <2> QED BY <1>2, <2>2 DEF LR!AttachBegins
<1>3. CASE LR!WriteLease
  BY <1>3 DEF LR!WriteLease, RouteSteps
<1>4. CASE LR!Compare
  BY <1>4 DEF LR!Compare, RouteSteps
<1>5. CASE LR!Rename
  BY <1>5 DEF LR!Rename, RouteSteps
<1>6. CASE LR!Unlease
  <2>1. lease' \in [held : BOOLEAN, original : Configs]
    BY <1>6, RouteAssumption DEF LR!Unlease, LR!NoLease, Configs, LR!Providers, LR!Tables
  <2>2. LR!AfterRestore(command.op) \in RouteSteps
    BY DEF LR!AfterRestore, RouteSteps
  <2> QED BY <1>6, <2>1, <2>2 DEF LR!Unlease
<1>7. CASE LR!Conflict
  BY <1>7 DEF LR!Conflict
<1>8. CASE LR!RestoreBegins
  BY <1>8 DEF LR!RestoreBegins
<1>9. CASE LR!ShutdownBegins
  BY <1>9 DEF LR!ShutdownBegins
<1>10. CASE LR!RestoreEnds
  BY <1>10 DEF LR!RestoreEnds
<1>11. CASE LR!SaveRoute
  BY <1>11 DEF LR!SaveRoute
<1>12. CASE LR!EnableRoute
  BY <1>12 DEF LR!EnableRoute, LR!StartServer
<1>13. CASE LR!RelayDies
  BY <1>13 DEF LR!RelayDies
<1>14. CASE LR!DisableBegins
  <2>1. LR!NoCommand \in RouteCommands
    BY RouteAssumption DEF LR!NoCommand, LR!NoLease, RouteCommands, RouteOps, RouteSteps, Configs, LR!Providers, LR!Tables
  <2>2. command' \in RouteCommands
    BY <1>14, <2>1 DEF LR!DisableBegins, RouteCommands, RouteOps, RouteSteps
  <2> QED BY <1>14, <2>2 DEF LR!DisableBegins
<1>15. CASE LR!Drain
  BY <1>15 DEF LR!Drain
<1>16. CASE LR!WriteDocument
  BY <1>16 DEF LR!WriteDocument, RouteSteps
<1>17. CASE LR!CloseRelay
  BY <1>17 DEF LR!CloseRelay
<1>18. CASE LR!Bootstrap
  BY <1>18 DEF LR!Bootstrap
<1>19. CASE LR!Edits
  <2>0. config.rest + 1 \in 0..MaxEdits /\ lateEdit' \in BOOLEAN
    BY <1>19, RouteAssumption DEF LR!Edits, Configs
  <2>1. "theirs" \in LR!Providers /\ "edited" \in LR!Tables
    BY DEF LR!Providers, LR!Tables
  <2>2. config' \in Configs
    BY <1>19, <2>0, <2>1, Zenon DEF LR!Edits, Configs
  <2> QED BY <1>19, <2>0, <2>2 DEF LR!Edits
<1>20. CASE LR!RouteCrash
  <2>1. LR!NoCommand \in RouteCommands
    BY RouteAssumption DEF LR!NoCommand, LR!NoLease, RouteCommands, RouteOps, RouteSteps, Configs, LR!Providers, LR!Tables
  <2>2. command' \in RouteCommands
    BY <1>20, <2>1 DEF LR!RouteCrash, RouteCommands, RouteOps, RouteSteps
  <2> QED BY <1>20, <2>2 DEF LR!RouteCrash
<1>21. CASE Serving
  BY <1>21, ServingKeeps
<1> QED BY <1>1, <1>2, <1>3, <1>4, <1>5, <1>6, <1>7, <1>8, <1>9, <1>10, <1>11, <1>12, <1>13, <1>14, <1>15, <1>16, <1>17, <1>18, <1>19, <1>20, <1>21 DEF LR!RouteNext, Serving

(* Every revision is below its bound.                                      *)
LEMMA RevisionsStep ==
  ASSUME FilesTyped, Revisions, ClosingInv, LeaseInv, LR!RouteNext
  PROVE  Revisions'
<1> CommandSteps /\ RouteFields
  BY CommandGoes, RouteFieldsTyped
<1> USE RouteAssumption
    DEF Revisions, RouteFields, CommandSteps, LR!Files, LR!Served, GoesOn, Over, Restores
<1>1. CASE LR!CommandFails
  BY <1>1 DEF LR!CommandFails
<1>2. CASE LR!AttachBegins
  BY <1>2 DEF LR!AttachBegins
<1>3. CASE LR!WriteLease
  BY <1>3 DEF LR!WriteLease, RouteSteps
<1>4. CASE LR!Compare
  BY <1>4 DEF LR!Compare, RouteSteps
<1>5. CASE LR!Rename
  BY <1>5 DEF LR!Rename, RouteSteps
<1>6. CASE LR!Unlease
  <2>1. LR!AfterRestore(command.op) \in RouteSteps
    BY DEF LR!AfterRestore, RouteSteps
  <2> QED BY <1>6, <2>1 DEF LR!Unlease, LR!AfterRestore
<1>7. CASE LR!Conflict
  BY <1>7 DEF LR!Conflict
<1>8. CASE LR!RestoreBegins
  BY <1>8 DEF LR!RestoreBegins
<1>9. CASE LR!ShutdownBegins
  BY <1>9 DEF LR!ShutdownBegins
<1>10. CASE LR!RestoreEnds
  BY <1>10 DEF LR!RestoreEnds
<1>11. CASE LR!SaveRoute
  BY <1>11 DEF LR!SaveRoute, ClosingInv, FilesTyped
<1>12. CASE LR!EnableRoute
  BY <1>12 DEF LR!EnableRoute, ClosingInv, FilesTyped
<1>13. CASE LR!RelayDies
  BY <1>13 DEF LR!RelayDies
<1>14. CASE LR!DisableBegins
  BY <1>14 DEF LR!DisableBegins, LR!NoCommand
<1>15. CASE LR!Drain
  BY <1>15 DEF LR!Drain, ClosingInv
<1>16. CASE LR!WriteDocument
  BY <1>16 DEF LR!WriteDocument, RouteSteps, ClosingInv, FilesTyped
<1>17. CASE LR!CloseRelay
  BY <1>17 DEF LR!CloseRelay
<1>18. CASE LR!Bootstrap
  BY <1>18 DEF LR!Bootstrap
<1>19. CASE LR!Edits
  BY <1>19 DEF LR!Edits
<1>20. CASE LR!RouteCrash
  BY <1>20 DEF LR!RouteCrash, LR!NoCommand
<1>21. CASE Serving
  BY <1>21, ServingKeeps
<1> QED BY <1>1, <1>2, <1>3, <1>4, <1>5, <1>6, <1>7, <1>8, <1>9, <1>10, <1>11, <1>12, <1>13, <1>14, <1>15, <1>16, <1>17, <1>18, <1>19, <1>20, <1>21 DEF LR!RouteNext, Serving

(* What points to the relay can be taken back.                             *)
LEMMA LeaseStep ==
  ASSUME FilesTyped, FilesTyped', LeaseInv, ClosingInv, LR!RouteNext
  PROVE  LeaseInv'
<1> CommandSteps /\ RouteFields /\ config \in Configs
  BY CommandGoes, RouteFieldsTyped DEF FilesTyped
<1> USE DEF LeaseInv, LR!TakenCanBeGivenBack, RouteFields, CommandSteps, LR!Files, LR!Served,
            GoesOn, Over, Restores
<1>1. CASE LR!CommandFails
  BY <1>1 DEF LR!CommandFails
<1>2. CASE LR!AttachBegins
  <2>1. LR!Installed(config).rest = config.rest
    BY WrittenConfigs
  <2> QED BY <1>2, <2>1 DEF LR!AttachBegins
<1>3. CASE LR!WriteLease
  BY <1>3 DEF LR!WriteLease, RouteSteps, LR!Owns
<1>4. CASE LR!Compare
  BY <1>4 DEF LR!Compare, RouteSteps, LR!Owns
<1>5. CASE LR!Rename
  BY <1>5 DEF LR!Rename, RouteSteps, LR!Owns
<1>6. CASE LR!Unlease
  <2>1. LR!AfterRestore(command.op) \in {"stop", "document"}
    BY DEF LR!AfterRestore
  <2>2. LR!AfterRestore(command.op) \in RouteSteps
    BY <2>1 DEF RouteSteps
  <2> QED BY <1>6, <2>1, <2>2 DEF LR!Unlease, LR!NoLease
<1>7. CASE LR!Conflict
  BY <1>7 DEF LR!Conflict
<1>8. CASE LR!RestoreBegins
  BY <1>8 DEF LR!RestoreBegins, LR!AfterRestore, LR!Owns
<1>9. CASE LR!ShutdownBegins
  BY <1>9 DEF LR!ShutdownBegins, LR!AfterRestore, LR!Owns
<1>10. CASE LR!RestoreEnds
  BY <1>10 DEF LR!RestoreEnds
<1>11. CASE LR!SaveRoute
  BY <1>11 DEF LR!SaveRoute
<1>12. CASE LR!EnableRoute
  BY <1>12 DEF LR!EnableRoute
<1>13. CASE LR!RelayDies
  BY <1>13 DEF LR!RelayDies
<1>14. CASE LR!DisableBegins
  BY <1>14 DEF LR!DisableBegins, LR!NoCommand
<1>15. CASE LR!Drain
  BY <1>15 DEF LR!Drain, LR!AfterRestore, LR!Owns
<1>16. CASE LR!WriteDocument
  BY <1>16 DEF LR!WriteDocument, RouteSteps
<1>17. CASE LR!CloseRelay
  BY <1>17 DEF LR!CloseRelay
<1>18. CASE LR!Bootstrap
  BY <1>18 DEF LR!Bootstrap, LR!AfterRestore, LR!Owns
<1>19. CASE LR!Edits
  <2>1. config'.provider = "ours" => config.provider = "ours"
    BY <1>19 DEF LR!Edits, Configs
  <2> QED BY <1>19, <2>1 DEF LR!Edits, LR!Owns
<1>20. CASE LR!RouteCrash
  BY <1>20 DEF LR!RouteCrash, LR!NoCommand
<1>21. CASE Serving
  BY <1>21, ServingKeeps DEF LR!Owns
<1> QED BY <1>1, <1>2, <1>3, <1>4, <1>5, <1>6, <1>7, <1>8, <1>9, <1>10, <1>11, <1>12, <1>13, <1>14, <1>15, <1>16, <1>17, <1>18, <1>19, <1>20, <1>21 DEF LR!RouteNext, Serving

(* Nothing is under way when nothing is counted.                           *)
LEMMA NoneUnderWay ==
  ASSUME CountsInv, RequestsTyped, ~(stats.active > 0)
  PROVE  UnderWay = {}
<1>1. IsFiniteSet(UnderWay)
  BY RouteAssumption, FS_Subset DEF UnderWay
<1>2. Cardinality(UnderWay) = 0
  BY <1>1, FS_CardinalityType DEF CountsInv
<1> QED BY <1>1, <1>2, FS_EmptySet

(* A relay that no longer accepts starts nothing new.                      *)
LEMMA ServingStops ==
  ASSUME RequestsTyped, ClosingInv, command.op = "disable", command.at # "drain", Serving,
         NEW q \in Requests
  PROVE  request'[q].at \notin {"forward", "stream"}
<1>1. ~relay.accepting /\ request[q].at \notin {"forward", "stream"}
  BY DEF ClosingInv
<1>2. PICK r \in Requests :
         \/ LR!Admit(r) \/ LR!CountActive(r) \/ LR!LookAccepting(r) \/ LR!ForwardFails(r)
         \/ LR!Upstream(r) \/ LR!Completes(r) \/ LR!StreamEnds(r) \/ LR!StreamBreaks(r)
         \/ LR!DropGuard(r)
  BY DEF Serving
<1>3. request[r].at \notin {"forward", "stream"}
  BY DEF ClosingInv
<1>4. CASE q # r
  BY <1>1, <1>2, <1>4
     DEF RequestsTyped, LR!Admit, LR!CountActive, LR!LookAccepting, LR!ForwardFails, LR!Upstream,
         LR!Completes, LR!StreamEnds, LR!StreamBreaks, LR!DropGuard, LR!Finish, LR!Move
<1>5. CASE q = r
  <2> USE <1>5 DEF RequestsTyped, LR!Move
  <2>1. CASE LR!Admit(r)
    BY <2>1 DEF LR!Admit
  <2>2. CASE LR!CountActive(r)
    BY <2>2 DEF LR!CountActive
  <2>3. CASE LR!LookAccepting(r)
    BY <1>1, <2>3 DEF LR!LookAccepting
  <2>4. CASE LR!DropGuard(r)
    BY <2>4 DEF LR!DropGuard, LR!NoRequest
  <2>5. ~LR!ForwardFails(r) /\ ~LR!Upstream(r) /\ ~LR!Completes(r) /\ ~LR!StreamEnds(r)
        /\ ~LR!StreamBreaks(r)
    BY <1>3 DEF LR!ForwardFails, LR!Upstream, LR!Completes, LR!StreamEnds, LR!StreamBreaks
  <2> QED BY <1>2, <2>1, <2>2, <2>3, <2>4, <2>5
<1> QED BY <1>4, <1>5

(* Nobody's request is cut by the command that closes the relay.           *)
LEMMA ClosingStep ==
  ASSUME FilesTyped, RequestsTyped, LeaseInv, ClosingInv, CountsInv, LR!RouteNext
  PROVE  ClosingInv'
<1> CommandSteps /\ RouteFields
  BY CommandGoes, RouteFieldsTyped
<1> USE DEF ClosingInv, RouteFields, CommandSteps, LR!Files, LR!Served, GoesOn, Over, Restores
<1>1. CASE LR!CommandFails
  BY <1>1 DEF LR!CommandFails, FilesTyped
<1>2. CASE LR!AttachBegins
  BY <1>2 DEF LR!AttachBegins
<1>3. CASE LR!WriteLease
  BY <1>3 DEF LR!WriteLease, RouteSteps, LeaseInv
<1>4. CASE LR!Compare
  BY <1>4 DEF LR!Compare, RouteSteps, FilesTyped
<1>5. CASE LR!Rename
  BY <1>5 DEF LR!Rename, RouteSteps
<1>6. CASE LR!Unlease
  <2>1. LR!AfterRestore(command.op) \in RouteSteps
    BY DEF LR!AfterRestore, RouteSteps
  <2> QED BY <1>6, <2>1 DEF LR!Unlease, LR!AfterRestore, LeaseInv, RouteOps
<1>7. CASE LR!Conflict
  BY <1>7 DEF LR!Conflict, FilesTyped
<1>8. CASE LR!RestoreBegins
  BY <1>8 DEF LR!RestoreBegins, LR!AfterRestore
<1>9. CASE LR!ShutdownBegins
  BY <1>9 DEF LR!ShutdownBegins, LR!AfterRestore
<1>10. CASE LR!RestoreEnds
  BY <1>10 DEF LR!RestoreEnds
<1>11. CASE LR!SaveRoute
  BY <1>11 DEF LR!SaveRoute
<1>12. CASE LR!EnableRoute
  BY <1>12 DEF LR!EnableRoute, LR!StartServer
<1>13. CASE LR!RelayDies
  <2>1. \A r \in Requests : request'[r].at \in {"forward", "stream"}
                              => request[r].at \in {"forward", "stream"}
    BY <1>13 DEF LR!RelayDies, LR!Abandoned, RequestsTyped, RouteRequests
  <2>2. UNCHANGED command /\ relay'.accepting = relay.accepting
    BY <1>13 DEF LR!RelayDies, FilesTyped
  <2> QED BY <2>1, <2>2
<1>14. CASE LR!DisableBegins
  BY <1>14 DEF LR!DisableBegins, LR!NoCommand, FilesTyped
<1>15. CASE LR!Drain
  <2>1. CASE stats.active > 0
    BY <1>15, <2>1 DEF LR!Drain
  <2>2. CASE ~(stats.active > 0)
    <3>1. UnderWay = {}
      BY <2>2, NoneUnderWay
    <3>2. \A r \in Requests : request'[r].at \notin {"forward", "stream"}
      BY <1>15, <3>1 DEF LR!Drain, UnderWay
    <3>3. Restores("disable") /\ UNCHANGED relay
      BY <1>15, <2>2 DEF LR!Drain
    <3> QED BY <1>15, <3>2, <3>3 DEF LR!AfterRestore, LR!Drain
  <2> QED BY <2>1, <2>2
<1>16. CASE LR!WriteDocument
  BY <1>16 DEF LR!WriteDocument, RouteSteps
<1>17. CASE LR!CloseRelay
  BY <1>17 DEF LR!CloseRelay
<1>18. CASE LR!Bootstrap
  BY <1>18 DEF LR!Bootstrap, LR!AfterRestore
<1>19. CASE LR!Edits
  BY <1>19 DEF LR!Edits
<1>20. CASE LR!RouteCrash
  BY <1>20 DEF LR!RouteCrash, LR!NoCommand
<1>21. CASE Serving
  <2>1. UNCHANGED <<command, relay>>
    BY <1>21, ServingKeeps
  <2>2. ASSUME command.op = "disable", command.at # "drain", NEW q \in Requests
        PROVE  request'[q].at \notin {"forward", "stream"}
    BY <1>21, <2>2, ServingStops
  <2> QED BY <2>1, <2>2
<1> QED BY <1>1, <1>2, <1>3, <1>4, <1>5, <1>6, <1>7, <1>8, <1>9, <1>10, <1>11, <1>12, <1>13, <1>14, <1>15, <1>16, <1>17, <1>18, <1>19, <1>20, <1>21 DEF LR!RouteNext, Serving

(* Each set of requests is finite, and the counters are natural numbers.   *)
RequestSets ==
  /\ IsFiniteSet(UnderWay) /\ IsFiniteSet(Admitted) /\ IsFiniteSet(Uncounted)
  /\ Cardinality(UnderWay) \in Nat /\ Cardinality(Admitted) \in Nat
  /\ Cardinality(Uncounted) \in Nat

(* The sets are finite, as the requests are.                                *)
LEMMA RequestSetsFinite == RequestSets
<1>1. IsFiniteSet(UnderWay) /\ IsFiniteSet(Admitted) /\ IsFiniteSet(Uncounted)
  BY RouteAssumption, FS_Subset DEF UnderWay, Admitted, Uncounted
<1> QED BY <1>1, FS_CardinalityType DEF RequestSets

(* How a step of one request changes the three sets.                       *)
Joins(new, was, r) == r \notin was /\ new = was \union {r}
Leaves(new, was, r) == r \in was /\ new = was \ {r}

(* ... and so their sizes.                                                 *)
LEMMA OneMore ==
  ASSUME NEW was, NEW new, NEW r, IsFiniteSet(was), Joins(new, was, r)
  PROVE  Cardinality(new) = Cardinality(was) + 1
BY FS_AddElement DEF Joins

(* ... the other way.                                                       *)
LEMMA OneLess ==
  ASSUME NEW was, NEW new, NEW r, IsFiniteSet(was), Leaves(new, was, r)
  PROVE  Cardinality(new) = Cardinality(was) - 1
BY FS_RemoveElement DEF Leaves

(* A request with new fields.                                              *)
Becomes(r, at) ==
  /\ request' \in [Requests -> RouteRequests] /\ request'[r].at = at
  /\ \A q \in Requests \ {r} : request'[q] = request[q]

(* What a request that moves on does to the three sets, by where it was.    *)
LEMMA CountsWhenMoved ==
  ASSUME RequestsTyped, CountsInv, NEW r \in Requests,
         NEW at \in RequestSteps, Becomes(r, at)
  PROVE  /\ request[r].at # "idle" /\ at # "idle" => Admitted' = Admitted
         /\ request[r].at = "idle" /\ at # "idle" => Joins(Admitted', Admitted, r)
         /\ request[r].at # "idle" /\ at = "idle" => Leaves(Admitted', Admitted, r)
         /\ request[r].at \in {"idle", "permit"} /\ at \in {"idle", "permit"} =>
              UnderWay' = UnderWay
         /\ request[r].at \notin {"idle", "permit"} /\ at \notin {"idle", "permit"} =>
              UnderWay' = UnderWay
         /\ request[r].at = "permit" /\ at = "active" => Joins(UnderWay', UnderWay, r)
         /\ request[r].at = "drop" /\ at = "idle" => Leaves(UnderWay', UnderWay, r)
         /\ request[r].at = "idle" /\ at # "idle" /\ ~request'[r].counted => Joins(Uncounted', Uncounted, r)
         /\ request[r].at # "idle" /\ at # "idle" /\ request'[r].counted = request[r].counted =>
              Uncounted' = Uncounted
         /\ request[r].at # "idle" /\ ~request[r].counted /\ (at = "idle" \/ request'[r].counted) =>
              Leaves(Uncounted', Uncounted, r)
         /\ request[r].at # "idle" /\ request[r].counted /\ (at = "idle" \/ request'[r].counted) =>
              Uncounted' = Uncounted
<1>1. \A q \in Requests : q # r => request'[q] = request[q]
  BY DEF Becomes
<1>2. request'[r].at = at
  BY DEF Becomes
<1>3. /\ request[r].at # "idle" /\ at # "idle" => Admitted' = Admitted
      /\ request[r].at = "idle" /\ at # "idle" => Joins(Admitted', Admitted, r)
      /\ request[r].at # "idle" /\ at = "idle" => Leaves(Admitted', Admitted, r)
  BY <1>1, <1>2 DEF Admitted, Joins, Leaves
<1>4. /\ request[r].at \in {"idle", "permit"} /\ at \in {"idle", "permit"} =>
           UnderWay' = UnderWay
      /\ request[r].at \notin {"idle", "permit"} /\ at \notin {"idle", "permit"} =>
           UnderWay' = UnderWay
      /\ request[r].at = "permit" /\ at = "active" => Joins(UnderWay', UnderWay, r)
      /\ request[r].at = "drop" /\ at = "idle" => Leaves(UnderWay', UnderWay, r)
  <2>1. request[r].at \in RequestSteps
    BY DEF RequestsTyped, RouteRequests
  <2> QED BY <1>1, <1>2, <2>1 DEF UnderWay, Joins, Leaves, RequestSteps
<1>5. /\ request[r].at = "idle" /\ at # "idle" /\ ~request'[r].counted => Joins(Uncounted', Uncounted, r)
      /\ request[r].at # "idle" /\ at # "idle" /\ request'[r].counted = request[r].counted =>
           Uncounted' = Uncounted
      /\ request[r].at # "idle" /\ ~request[r].counted /\ (at = "idle" \/ request'[r].counted) =>
           Leaves(Uncounted', Uncounted, r)
      /\ request[r].at # "idle" /\ request[r].counted /\ (at = "idle" \/ request'[r].counted) =>
           Uncounted' = Uncounted
  BY <1>1, <1>2 DEF Uncounted, Joins, Leaves
<1> QED BY <1>3, <1>4, <1>5

(* What a step of a request does to it and to the counters.                *)
SameCounts ==
  /\ stats'.requests = stats.requests /\ stats'.active = stats.active
  /\ stats'.completed = stats.completed /\ stats'.failed = stats.failed
Arrives(r) ==
  /\ request[r].at = "idle" /\ Becomes(r, "permit") /\ ~request'[r].counted
  /\ Cardinality(Admitted) < MaxActive /\ stats'.requests = stats.requests + 1
  /\ stats'.active = stats.active /\ stats'.completed = stats.completed
  /\ stats'.failed = stats.failed
GetsCounted(r) ==
  /\ request[r].at = "permit" /\ Becomes(r, "active") /\ request'[r].counted = request[r].counted
  /\ stats'.active = stats.active + 1 /\ stats'.requests = stats.requests
  /\ stats'.completed = stats.completed /\ stats'.failed = stats.failed
IsServed(r) ==
  /\ request[r].at \in {"active", "forward"} /\ SameCounts
  /\ \E at \in {"forward", "stream", "drop"} : Becomes(r, at) /\ request'[r].counted = request[r].counted
IsAnswered(r) ==
  /\ request[r].at = "stream" /\ \E at \in {"stream", "drop"} : Becomes(r, at) /\ request'[r].counted
  /\ stats'.active = stats.active /\ stats'.requests = stats.requests
  /\ stats'.completed \in Nat /\ stats'.failed \in Nat
  /\ stats'.completed + stats'.failed =
       stats.completed + stats.failed + IF request[r].counted THEN 0 ELSE 1
IsForgotten(r) ==
  /\ request[r].at = "drop" /\ Becomes(r, "idle") /\ ~request'[r].counted
  /\ stats'.active = stats.active - 1 /\ stats'.requests = stats.requests
  /\ stats'.completed = stats.completed
  /\ stats'.failed = stats.failed + IF request[r].counted THEN 0 ELSE 1
ServingEffect(r) ==
  /\ stats' \in [requests : Nat, active : Int, completed : Nat, failed : Nat]
  /\ Arrives(r) \/ GetsCounted(r) \/ IsServed(r) \/ IsAnswered(r) \/ IsForgotten(r)

(* The cardinality of the module is that of the library.                   *)
LEMMA SameCardinality == \A S : LR!Cardinality(S) = Cardinality(S)
BY DEF LR!Cardinality, Cardinality

(* An answer that ends is counted unless it has been.                      *)
LEMMA CounterMoves ==
  ASSUME RequestsTyped, NEW r \in Requests, request[r].at = "stream",
         \E at \in {"stream", "drop"} : Becomes(r, at) /\ request'[r].counted,
         \/ stats' = stats /\ request[r].counted
         \/ stats' = [stats EXCEPT !.completed = @ + 1] /\ ~request[r].counted
         \/ stats' = [stats EXCEPT !.failed = @ + 1] /\ ~request[r].counted
  PROVE  ServingEffect(r)
<1>1. /\ stats'.active = stats.active /\ stats'.requests = stats.requests
      /\ stats'.completed \in Nat /\ stats'.failed \in Nat
      /\ stats' \in [requests : Nat, active : Int, completed : Nat, failed : Nat]
  BY DEF RequestsTyped
<1>2. CASE request[r].counted
  BY <1>1, <1>2 DEF RequestsTyped, ServingEffect, IsAnswered
<1>3. CASE ~request[r].counted
  <2>1. stats'.completed + stats'.failed = stats.completed + stats.failed + 1
    BY <1>3 DEF RequestsTyped
  <2> QED BY <1>1, <1>3, <2>1 DEF ServingEffect, IsAnswered
<1> QED BY <1>2, <1>3

(* Each step of a request does one of these.                               *)
LEMMA ServingDoes ==
  ASSUME RequestsTyped, CountsInv, Serving
  PROVE  \E r \in Requests : ServingEffect(r)
<1>1. PICK r \in Requests :
         \/ LR!Admit(r) \/ LR!CountActive(r) \/ LR!LookAccepting(r) \/ LR!ForwardFails(r)
         \/ LR!Upstream(r) \/ LR!Completes(r) \/ LR!StreamEnds(r) \/ LR!StreamBreaks(r)
         \/ LR!DropGuard(r)
  BY DEF Serving
<1>2. /\ stats.requests \in Nat /\ stats.active \in Nat /\ stats.completed \in Nat
      /\ stats.failed \in Nat /\ request[r] \in RouteRequests
  BY DEF RequestsTyped
<1> USE <1>2 DEF RequestsTyped, ServingEffect
<1>3. CASE LR!Admit(r)
  <2>1. request[r].at = "idle" /\ Becomes(r, "permit") /\ ~request'[r].counted
    BY <1>3 DEF LR!Admit, LR!Idle, LR!Move, Becomes, CountsInv, RouteRequests, RequestSteps
  <2>2. Cardinality(Admitted) < MaxActive
    BY <1>3, SameCardinality DEF LR!Admit, LR!Idle, Admitted
  <2>3. stats' = [stats EXCEPT !.requests = @ + 1]
    BY <1>3 DEF LR!Admit
  <2> QED BY <2>1, <2>2, <2>3 DEF Arrives
<1>4. CASE LR!CountActive(r)
  <2>1. request[r].at = "permit" /\ Becomes(r, "active") /\ request'[r].counted = request[r].counted
    BY <1>4 DEF LR!CountActive, LR!Move, Becomes, RouteRequests, RequestSteps
  <2>2. stats' = [stats EXCEPT !.active = @ + 1]
    BY <1>4 DEF LR!CountActive
  <2> QED BY <2>1, <2>2 DEF GetsCounted
<1>5. CASE LR!LookAccepting(r) \/ LR!ForwardFails(r) \/ LR!Upstream(r)
  <2>1. request[r].at \in {"active", "forward"} /\ stats' = stats
    BY <1>5 DEF LR!LookAccepting, LR!ForwardFails, LR!Upstream
  <2>2. PICK at \in {"forward", "stream", "drop"} : request' = [request EXCEPT ![r].at = at]
    BY <1>5 DEF LR!LookAccepting, LR!ForwardFails, LR!Upstream, LR!Move
  <2>3. Becomes(r, at) /\ request'[r].counted = request[r].counted
    BY <2>2 DEF Becomes, RouteRequests, RequestSteps
  <2>4. IsServed(r)
    BY <2>1, <2>3 DEF IsServed, SameCounts
  <2> QED BY <2>1, <2>4
<1>6. CASE LR!Completes(r)
  <2>1. request[r].at = "stream" /\ Becomes(r, "stream") /\ request'[r].counted
    BY <1>6 DEF LR!Completes, Becomes, RouteRequests, RequestSteps
  <2>2. stats' = IF request[r].counted THEN stats ELSE [stats EXCEPT !.completed = @ + 1]
    BY <1>6 DEF LR!Completes
  <2>3. \/ stats' = stats /\ request[r].counted
        \/ stats' = [stats EXCEPT !.completed = @ + 1] /\ ~request[r].counted
    BY <2>2
  <2>4. \E at \in {"stream", "drop"} : Becomes(r, at) /\ request'[r].counted
    BY <2>1
  <2> QED BY <2>1, <2>3, <2>4, CounterMoves
<1>7. CASE LR!StreamEnds(r) \/ LR!StreamBreaks(r)
  <2>1. request[r].at = "stream" /\ \E success \in BOOLEAN : LR!Finish(r, success, "drop")
    BY <1>7 DEF LR!StreamEnds, LR!StreamBreaks, RouteRequests
  <2>2. Becomes(r, "drop") /\ request'[r].counted
    <3>1. request' = [request EXCEPT ![r].at = "drop", ![r].counted = TRUE]
      BY <2>1 DEF LR!Finish
    <3> QED BY <3>1 DEF Becomes, RouteRequests, RequestSteps
  <2>3. \/ stats' = stats /\ request[r].counted
        \/ stats' = [stats EXCEPT !.completed = @ + 1] /\ ~request[r].counted
        \/ stats' = [stats EXCEPT !.failed = @ + 1] /\ ~request[r].counted
    BY <2>1 DEF LR!Finish
  <2>4. \E at \in {"stream", "drop"} : Becomes(r, at) /\ request'[r].counted
    BY <2>2
  <2> QED BY <2>1, <2>3, <2>4, CounterMoves
<1>8. CASE LR!DropGuard(r)
  <2>1. request[r].at = "drop" /\ Becomes(r, "idle") /\ ~request'[r].counted
    BY <1>8 DEF LR!DropGuard, LR!NoRequest, Becomes, RouteRequests, RequestSteps
  <2>2. stats' = [stats EXCEPT !.active = @ - 1,
                               !.failed = IF request[r].counted THEN @ ELSE @ + 1]
    BY <1>8 DEF LR!DropGuard
  <2>3. CASE request[r].counted
    <3>1. stats' = [requests |-> stats.requests, active |-> stats.active - 1,
                    completed |-> stats.completed, failed |-> stats.failed]
      BY <2>2, <2>3
    <3> QED BY <2>1, <2>3, <3>1 DEF IsForgotten
  <2>4. CASE ~request[r].counted
    <3>1. stats' = [requests |-> stats.requests, active |-> stats.active - 1,
                    completed |-> stats.completed, failed |-> stats.failed + 1]
      BY <2>2, <2>4
    <3> QED BY <2>1, <2>4, <3>1 DEF IsForgotten
  <2> QED BY <2>3, <2>4
<1> QED BY <1>1, <1>3, <1>4, <1>5, <1>6, <1>7, <1>8

(* So they are after a step.                                               *)
LEMMA RequestSetsFiniteNext == RequestSets'
<1>1. IsFiniteSet(UnderWay') /\ IsFiniteSet(Admitted') /\ IsFiniteSet(Uncounted')
  BY RouteAssumption, FS_Subset DEF UnderWay, Admitted, Uncounted
<1> QED BY <1>1, FS_CardinalityType DEF RequestSets

(* Every request is counted once.                                          *)
LEMMA ServingCounts ==
  ASSUME RequestsTyped, CountsInv, NEW r \in Requests, ServingEffect(r)
  PROVE  RequestsTyped' /\ CountsInv'
<1>1. RequestSets /\ RequestSets'
  BY RequestSetsFinite, RequestSetsFiniteNext
<1>2. /\ stats.requests \in Nat /\ stats.active \in Nat /\ stats.completed \in Nat
      /\ stats.failed \in Nat /\ request[r] \in RouteRequests /\ MaxActive \in Nat
  BY RouteAssumption DEF RequestsTyped
<1>3. CASE Arrives(r)
  <2>1. Joins(Admitted', Admitted, r) /\ UnderWay' = UnderWay /\ Joins(Uncounted', Uncounted, r)
    BY <1>3, CountsWhenMoved DEF Arrives, RequestSteps
  <2>2. /\ Cardinality(Admitted') = Cardinality(Admitted) + 1
        /\ Cardinality(Uncounted') = Cardinality(Uncounted) + 1
    BY <1>1, <2>1, OneMore DEF RequestSets
  <2> QED BY <1>1, <1>2, <1>3, <2>1, <2>2
          DEF Arrives, Becomes, CountsInv, RequestsTyped, RequestSets, ServingEffect
<1>4. CASE GetsCounted(r)
  <2>1. Admitted' = Admitted /\ Joins(UnderWay', UnderWay, r) /\ Uncounted' = Uncounted
    BY <1>2, <1>4, CountsWhenMoved DEF GetsCounted, RequestSteps, RouteRequests
  <2>2. Cardinality(UnderWay') = Cardinality(UnderWay) + 1
    BY <1>1, <2>1, OneMore DEF RequestSets
  <2> QED BY <1>1, <1>2, <1>4, <2>1, <2>2
          DEF GetsCounted, Becomes, CountsInv, RequestsTyped, RequestSets, ServingEffect
<1>5. CASE IsServed(r)
  <2>1. PICK at \in {"forward", "stream", "drop"} : Becomes(r, at) /\ request'[r].counted = request[r].counted
    BY <1>5 DEF IsServed
  <2>2. Admitted' = Admitted /\ UnderWay' = UnderWay /\ Uncounted' = Uncounted
    BY <1>2, <1>5, <2>1, CountsWhenMoved DEF IsServed, RequestSteps, RouteRequests
  <2> QED BY <1>1, <1>2, <1>5, <2>1, <2>2
          DEF IsServed, SameCounts, Becomes, CountsInv, RequestsTyped, RequestSets, ServingEffect
<1>6. CASE IsAnswered(r)
  <2>1. PICK at \in {"stream", "drop"} : Becomes(r, at) /\ request'[r].counted
    BY <1>6 DEF IsAnswered
  <2>2. /\ Admitted' = Admitted /\ UnderWay' = UnderWay
        /\ request[r].counted => Uncounted' = Uncounted
        /\ ~request[r].counted => Leaves(Uncounted', Uncounted, r)
    BY <1>2, <1>6, <2>1, CountsWhenMoved DEF IsAnswered, RequestSteps, RouteRequests
  <2>3. Cardinality(Uncounted') =
          IF request[r].counted THEN Cardinality(Uncounted) ELSE Cardinality(Uncounted) - 1
    BY <1>1, <2>2, OneLess DEF RequestSets
  <2> QED BY <1>1, <1>2, <1>6, <2>1, <2>2, <2>3
          DEF IsAnswered, Becomes, CountsInv, RequestsTyped, RequestSets, ServingEffect
<1>7. CASE IsForgotten(r)
  <2>1. /\ Leaves(Admitted', Admitted, r) /\ Leaves(UnderWay', UnderWay, r)
        /\ request[r].counted => Uncounted' = Uncounted
        /\ ~request[r].counted => Leaves(Uncounted', Uncounted, r)
    BY <1>2, <1>7, CountsWhenMoved DEF IsForgotten, RequestSteps, RouteRequests
  <2>2. /\ Cardinality(Admitted') = Cardinality(Admitted) - 1
        /\ Cardinality(UnderWay') = Cardinality(UnderWay) - 1
        /\ Cardinality(Uncounted') =
             IF request[r].counted THEN Cardinality(Uncounted) ELSE Cardinality(Uncounted) - 1
    BY <1>1, <2>1, OneLess DEF RequestSets
  <2> QED BY <1>1, <1>2, <1>7, <2>1, <2>2
          DEF IsForgotten, Becomes, CountsInv, RequestsTyped, RequestSets, ServingEffect
<1> QED BY <1>3, <1>4, <1>5, <1>6, <1>7 DEF ServingEffect

(* A relay that starts has no request.                                     *)
LEMMA NewCounts ==
  ASSUME stats' = [requests |-> 0, active |-> 0, completed |-> 0, failed |-> 0],
         request' = [r \in Requests |-> LR!NoRequest]
  PROVE  RequestsTyped' /\ CountsInv'
<1>1. RequestsTyped'
  BY DEF RequestsTyped, LR!NoRequest, RouteRequests, RequestSteps
<1>2. UnderWay' = {} /\ Admitted' = {} /\ Uncounted' = {}
  BY DEF UnderWay, Admitted, Uncounted, LR!NoRequest
<1>3. /\ Cardinality(UnderWay') = 0 /\ Cardinality(Admitted') = 0
      /\ Cardinality(Uncounted') = 0
  BY <1>2, FS_EmptySet
<1> QED BY <1>1, <1>3, RouteAssumption DEF CountsInv, LR!NoRequest

(* One that is closed counts what it abandons.                             *)
LEMMA AbandonedCounts ==
  ASSUME RequestsTyped, CountsInv, stats' = stats,
         NEW next, request' = [r \in Requests |-> next[r]],
         \A r \in Requests : next[r] = request[r] \/ next[r] = LR!Abandoned(r)
  PROVE  RequestsTyped' /\ CountsInv'
<1>1. ASSUME NEW r \in Requests
      PROVE  /\ request'[r] \in RouteRequests /\ request'[r].counted = request[r].counted
             /\ \/ request'[r].at = request[r].at
                \/ request[r].at \in {"forward", "stream"} /\ request'[r].at = "drop"
  <2>1. request[r] \in RouteRequests /\ request'[r] = next[r]
    BY DEF RequestsTyped
  <2>2. CASE next[r] = request[r]
    BY <2>1, <2>2
  <2>3. CASE next[r] = [request[r] EXCEPT !.at = "drop"]
             /\ request[r].at \in {"forward", "stream"}
    BY <2>1, <2>3 DEF RouteRequests, RequestSteps
  <2> QED BY <2>2, <2>3 DEF LR!Abandoned
<1>2. RequestsTyped'
  BY <1>1 DEF RequestsTyped
<1>3. UnderWay' = UnderWay /\ Admitted' = Admitted /\ Uncounted' = Uncounted
  BY <1>1 DEF UnderWay, Admitted, Uncounted
<1>4. \A r \in Requests : request'[r].at = "idle" => ~request'[r].counted
  BY <1>1 DEF CountsInv
<1> QED BY <1>2, <1>3, <1>4 DEF CountsInv

(* Every step keeps the counters equal to the sizes of the sets.            *)
LEMMA CountsStep ==
  ASSUME RequestsTyped, CountsInv, LR!RouteNext
  PROVE  RequestsTyped' /\ CountsInv'
<1>1. CASE Serving
  BY <1>1, ServingDoes, ServingCounts
<1>2. CASE LR!EnableRoute \/ LR!RouteCrash
  BY <1>2, NewCounts DEF LR!EnableRoute, LR!RouteCrash, LR!StartServer
<1>3. CASE LR!RelayDies
  <2>1. PICK tunnels \in SUBSET {r \in Requests : request[r].at = "stream"} :
           request' = [r \in Requests |-> IF r \in tunnels THEN request[r] ELSE LR!Abandoned(r)]
    BY <1>3 DEF LR!RelayDies
  <2> DEFINE next == [r \in Requests |->
                        IF r \in tunnels THEN request[r] ELSE LR!Abandoned(r)]
  <2>2. /\ request' = [r \in Requests |-> next[r]] /\ stats' = stats
        /\ \A r \in Requests : next[r] = request[r] \/ next[r] = LR!Abandoned(r)
    BY <1>3, <2>1 DEF LR!RelayDies
  <2> HIDE DEF next
  <2> QED BY <2>2, AbandonedCounts
<1>4. CASE LR!CloseRelay
  <2>1. request' = [r \in Requests |-> LR!Abandoned(r)]
    BY <1>4 DEF LR!CloseRelay
  <2> DEFINE next == [r \in Requests |-> LR!Abandoned(r)]
  <2>2. /\ request' = [r \in Requests |-> next[r]] /\ stats' = stats
        /\ \A r \in Requests : next[r] = LR!Abandoned(r)
    BY <1>4, <2>1 DEF LR!CloseRelay
  <2> HIDE DEF next
  <2> QED BY <2>2, AbandonedCounts
<1>5. ASSUME UNCHANGED <<request, stats>> PROVE RequestsTyped' /\ CountsInv'
  BY <1>5 DEF RequestsTyped, CountsInv, UnderWay, Admitted, Uncounted
<1> QED BY <1>1, <1>2, <1>3, <1>4, <1>5
        DEF LR!RouteNext, Serving, LR!CommandFails, LR!AttachBegins, LR!WriteLease, LR!Compare,
            LR!Rename, LR!Unlease, LR!Conflict, LR!RestoreBegins, LR!ShutdownBegins,
            LR!RestoreEnds, LR!SaveRoute, LR!DisableBegins, LR!Drain, LR!WriteDocument,
            LR!Bootstrap, LR!Edits, LR!Served

(* The first state.                                                        *)
LEMMA RouteStarts == LR!RouteInit => RouteInv
<1> SUFFICES ASSUME LR!RouteInit PROVE RouteInv
  OBVIOUS
<1>1. LR!NoCommand \in RouteCommands /\ LR!NoLease \in [held : BOOLEAN, original : Configs]
  BY RouteAssumption
     DEF LR!NoCommand, LR!NoLease, RouteCommands, RouteOps, RouteSteps, Configs, LR!Providers,
         LR!Tables
<1>2. FilesTyped
  <2>1. config \in Configs
    BY RouteAssumption DEF LR!RouteInit, Configs, LR!Providers, LR!Tables
  <2> QED BY <1>1, <2>1 DEF LR!RouteInit, FilesTyped
<1>3. RequestsTyped
  BY DEF LR!RouteInit, RequestsTyped, LR!NoRequest, RouteRequests, RequestSteps
<1>4. Revisions /\ LeaseInv /\ ClosingInv
  BY RouteAssumption
     DEF LR!RouteInit, Revisions, LeaseInv, ClosingInv, LR!NoCommand, LR!NoLease,
         LR!TakenCanBeGivenBack
<1>5. UnderWay = {} /\ Admitted = {} /\ Uncounted = {}
  BY DEF LR!RouteInit, UnderWay, Admitted, Uncounted, LR!NoRequest
<1>6. /\ Cardinality(UnderWay) = 0 /\ Cardinality(Admitted) = 0 /\ Cardinality(Uncounted) = 0
  BY <1>5, FS_EmptySet
<1>7. CountsInv
  BY <1>6, RouteAssumption DEF CountsInv, LR!RouteInit, LR!NoRequest
<1> QED BY <1>2, <1>3, <1>4, <1>7 DEF RouteInv

(* Every step of the route keeps the invariant.                            *)
LEMMA RouteStepsHold ==
  ASSUME RouteInv, LR!RouteNext
  PROVE  RouteInv'
<1> USE DEF RouteInv
<1>1. FilesTyped'
  BY FilesTypedStep
<1>2. LeaseInv' /\ ClosingInv' /\ Revisions'
  BY <1>1, LeaseStep, ClosingStep, RevisionsStep
<1>3. RequestsTyped' /\ CountsInv'
  BY CountsStep
<1> QED BY <1>1, <1>2, <1>3

(* A step of another component leaves the route as it is.                   *)
LEMMA RouteStutters ==
  ASSUME RouteInv, UNCHANGED <<v1, v2, v3, v4, v5, v6, v7, v8, v9>>
  PROVE  RouteInv'
BY DEF RouteInv, FilesTyped, RequestsTyped, Revisions, LeaseInv, ClosingInv, CountsInv,
       LR!TakenCanBeGivenBack, LR!Owns, UnderWay, Admitted, Uncounted

(* What the invariant says of the route.                                   *)
LEMMA RouteHolds ==
  ASSUME RouteInv
  PROVE  /\ LR!RouteTypeOK
         /\ LR!TakenCanBeGivenBack /\ LR!NoRequestIsCut /\ LR!CountedOnce
<1>1. LR!TakenCanBeGivenBack
  BY DEF RouteInv, LeaseInv
<1>2. LR!NoRequestIsCut
  BY DEF RouteInv, ClosingInv, LR!NoRequestIsCut
<1>3. LR!CountedOnce
  <2>1. Uncounted = {r \in Requests : ~LR!Idle(r) /\ ~request[r].counted}
    BY DEF Uncounted, LR!Idle
  <2>2. stats.requests = stats.completed + stats.failed + LR!Cardinality(Uncounted)
    BY SameCardinality DEF RouteInv, CountsInv
  <2> QED BY <2>1, <2>2 DEF LR!CountedOnce
<1>4. stats.active \in 0..MaxActive
  <2>1. UnderWay \subseteq Admitted /\ RequestSets
    BY RequestSetsFinite DEF UnderWay, Admitted
  <2>2. Cardinality(UnderWay) <= Cardinality(Admitted)
    BY <2>1, FS_Subset DEF RequestSets
  <2> QED BY <2>1, <2>2, RouteAssumption DEF RouteInv, CountsInv, RequestSets
<1>5. \A r \in Requests : request[r].at \in RequestSteps
  BY DEF RouteInv, RequestsTyped, RouteRequests
<1>6. RouteFields /\ config \in Configs /\ routeDoc.revision <= MaxRevision
  BY RouteFieldsTyped DEF RouteInv, FilesTyped, Revisions
<1>7. LR!RouteTypeOK
  BY <1>4, <1>5, <1>6, RouteAssumption
     DEF LR!RouteTypeOK, RouteFields, Configs, RequestSteps, RouteOps
<1> QED BY <1>1, <1>2, <1>3, <1>7

(* A write changes our two keys only.                                      *)
LEMMA RouteIsCareful ==
  ASSUME RouteInv, LR!RouteNext
  PROVE  LR!OnlyOurKeys
<1>1. CASE config' = config \/ command.at # "rename" \/ lateEdit
  BY <1>1 DEF LR!OnlyOurKeys
<1>2. CASE LR!Rename
  BY <1>2 DEF LR!Rename, LR!OnlyOurKeys, RouteInv, LeaseInv
<1>3. CASE LR!Edits
  BY <1>3 DEF LR!Edits, LR!OnlyOurKeys
<1> QED BY <1>1, <1>2, <1>3, ServingKeeps
        DEF LR!RouteNext, Serving, LR!CommandFails, LR!AttachBegins, LR!WriteLease, LR!Compare,
            LR!Unlease, LR!Conflict, LR!RestoreBegins, LR!ShutdownBegins, LR!RelayDies,
            LR!RestoreEnds, LR!SaveRoute, LR!EnableRoute, LR!DisableBegins, LR!Drain,
            LR!WriteDocument, LR!CloseRelay, LR!Bootstrap, LR!RouteCrash, LR!Files

HIDE DEF routeDoc, config, lease, relay, request, stats, command, lateEdit, attachable
=============================================================================
