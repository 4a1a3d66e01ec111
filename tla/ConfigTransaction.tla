-------------------------- MODULE ConfigTransaction --------------------------
(***************************************************************************)
(* Changes of the configuration while the core may be running (transact    *)
(* and its callers, user_rules.rs 1079-1109): the candidate is validated,  *)
(* loaded into the core, and only then committed to several files; any     *)
(* failure takes files and core back.                                      *)
(*                                                                         *)
(* Commands exclude each other by the configuration permit.  The core may  *)
(* die and the process may die at any time.  A domain route and the costs  *)
(* of nodes are committed like the rules: a document, then active.yaml.    *)
(***************************************************************************)
EXTENDS Naturals, Sequences

CONSTANTS
  Profiles, NoProfile,
  MaxVersion            \* bound: changes of sources, policies and documents

ASSUME ProfilesAssumption == NoProfile \notin Profiles
ASSUME MaxVersionAssumption == MaxVersion \in Nat

VARIABLES
  selection,  \* active profile and revision of state.json
  meta,       \* active revision of each metadata.json, with its policy
  saved,      \* the revisions saved for each profile
  doc,        \* user-rules.json, and the mode of settings.json
  yaml,       \* runtime/active.yaml
  core,       \* the configuration that the core runs
  up,         \* the process is alive
  pc, todo,   \* the phase of the transaction, the writes still to be done
  job,        \* what is applied, and whether to a running core
  old,        \* the files when the transaction began
  answer,     \* what the last command was told, until the next one
  version,    \* the last version given to a source, policy or document
  hurt,       \* history: files were left half-way, no selection since
  suspect     \* history: the core could not be taken back, no load since

files == <<selection, meta, doc, yaml>>
vars == <<files, saved, core, up, pc, todo, job, old, answer, version, hurt,
          suspect>>

Versions == 0..MaxVersion
Revisions == [source : Versions, policy : Versions]
NoRevision == [source |-> 0, policy |-> 0]
Selections == [profile : Profiles \union {NoProfile}, revision : Revisions]
NoSelection == [profile |-> NoProfile, revision |-> NoRevision]
Docs == [rules : Versions, mode : Versions]
Configs == [profile : Profiles \union {NoProfile}, source : Versions,
            policy : Versions, rules : Versions, mode : Versions]
NoConfig == [profile |-> NoProfile, source |-> 0, policy |-> 0,
             rules |-> 0, mode |-> 0]
Files == [selection : Selections, meta : [Profiles -> Revisions],
          doc : Docs, yaml : Configs]

Kinds == {"select", "renew", "rules", "mode"}
Jobs == [kind : Kinds, selection : Selections, doc : Docs, reload : BOOLEAN]
Writes == {"revision", "rules", "mode", "meta", "yaml", "state"}
Phases == {"idle", "validate", "load", "check", "commit", "undo", "restore"}

(* As in AtomicFile: replaced, not replaced, or replaced with an error.    *)
Outcomes == {"ok", "kept", "leftover"}
Wrote(outcome, new, now) == IF outcome = "kept" THEN now ELSE new

(* What a start, a rollback and a rule change build from the files: the    *)
(* source of the selected revision with the policy of the profile.         *)
Built(s, policy, d) ==
  [profile |-> s.profile, source |-> s.revision.source, policy |-> policy,
   rules |-> d.rules, mode |-> d.mode]

EffectiveOf(f) ==
  IF f.selection.profile = NoProfile THEN NoConfig
  ELSE Built(f.selection, f.meta[f.selection.profile].policy, f.doc)

Now == [selection |-> selection, meta |-> meta, doc |-> doc, yaml |-> yaml]
Effective == EffectiveOf(Now)
Previous == EffectiveOf(old)

Running == core # NoConfig
Active == old.selection.profile # NoProfile
Target == job.selection.profile

(* The transaction ends with this profile selected.                        *)
Selects == job.kind = "select" \/ (job.kind \in {"renew", "mode"} /\ Active
                                   /\ Target = old.selection.profile)

(* The rules are built on the policy of the profile, everything else on    *)
(* that of the revision.                                                   *)
Candidate ==
  IF job.kind = "rules" THEN EffectiveOf([old EXCEPT !.doc = job.doc])
  ELSE Built(job.selection, job.selection.revision.policy, job.doc)

(* The files after a commit.                                               *)
New == [selection |-> job.selection,
        meta |-> [p \in Profiles |->
                    IF p = Target THEN job.selection.revision ELSE old.meta[p]],
        doc |-> job.doc, yaml |-> Candidate]

NoJob == [kind |-> "select", selection |-> NoSelection,
          doc |-> [rules |-> 0, mode |-> 0], reload |-> FALSE]

TypeOK ==
  /\ Now \in Files /\ saved \in [Profiles -> SUBSET Revisions]
  /\ core \in Configs /\ up \in BOOLEAN
  /\ pc \in Phases /\ todo \in Seq(Writes)
  /\ job \in Jobs /\ old \in Files
  /\ answer \in {"none", "ok", "failed", "halfway", "damaged", "rollback"}
  /\ version \in Versions /\ hurt \in BOOLEAN /\ suspect \in BOOLEAN

(* Every profile has been imported; one of them may be selected.           *)
Init ==
  /\ meta = [p \in Profiles |-> NoRevision]
  /\ saved = [p \in Profiles |-> {NoRevision}]
  /\ selection \in [profile : Profiles \union {NoProfile},
                    revision : {NoRevision}]
  /\ doc = [rules |-> 0, mode |-> 0]
  /\ yaml = [NoConfig EXCEPT !.profile = selection.profile]
  /\ core = NoConfig /\ up = TRUE
  /\ pc = "idle" /\ todo = <<>>
  /\ job = NoJob /\ old = Now /\ answer = "none"
  /\ version = 0 /\ hurt = FALSE /\ suspect = FALSE

Idle == up /\ pc = "idle"

---------------------------------------------------------------------------
(* The commands, under the permit.  The context they capture: whether the  *)
(* core runs, and the files.  Only what affects the active configuration   *)
(* is loaded into a core.                                                  *)
Begin(kind, s, d) ==
  /\ job' = [kind |-> kind, selection |-> s, doc |-> d,
             reload |-> Running /\ selection.profile # NoProfile
                        /\ (kind = "renew" => s.profile = selection.profile)]
  /\ old' = Now
  /\ pc' = "validate" /\ answer' = "none"
  /\ UNCHANGED <<files, saved, core, up, todo, hurt, suspect>>

(* activate_profile and rollback_profile.                                  *)
SelectRevision(p, r) ==
  /\ Idle /\ r \in saved[p]
  /\ Begin("select", [profile |-> p, revision |-> r], doc)
  /\ UNCHANGED version

Changes == Idle /\ version < MaxVersion /\ version' = version + 1

(* A refresh has a new source; a new OpenAI policy keeps the source.       *)
Renew(p) ==
  /\ Changes
  /\ \/ Begin("renew", [profile |-> p, revision |->
                          [meta[p] EXCEPT !.source = version + 1]], doc)
     \/ Begin("renew", [profile |-> p, revision |->
                          [meta[p] EXCEPT !.policy = version + 1]], doc)

SaveRules ==
  /\ Changes
  /\ Begin("rules", selection, [doc EXCEPT !.rules = version + 1])

(* manual_outbound::set.                                                   *)
SetMode ==
  /\ Changes
  /\ Begin("mode", selection, [doc EXCEPT !.mode = version + 1])

---------------------------------------------------------------------------
Fail(what) == pc' = "idle" /\ todo' = <<>> /\ answer' = what

(* A candidate core process validates the configuration.                   *)
Validate ==
  /\ pc = "validate"
  /\ \/ /\ pc' = IF job.reload THEN "load" ELSE "check"
        /\ UNCHANGED <<todo, answer>>
     \/ Fail("failed")
  /\ UNCHANGED <<files, saved, core, up, job, old, version, hurt, suspect>>

(* A core that died since then makes another context: a conflict, before   *)
(* the load or as its error.  A load that failed may have taken effect.    *)
Load ==
  /\ pc = "load"
  /\ \/ /\ Running
        /\ core' = Candidate /\ pc' = "check"
        /\ UNCHANGED <<todo, answer>>
     \/ /\ core' \in IF Running THEN {core, Candidate} ELSE {core}
        /\ pc' = "restore" /\ answer' = "failed"
        /\ UNCHANGED todo
     \/ UNCHANGED core /\ Fail("failed")
  /\ UNCHANGED <<files, saved, up, job, old, version, hurt, suspect>>

(* Mutant: the revision is saved after it has been selected.               *)
SelectFirst ==
  CASE job.kind = "select" -> <<"meta", "yaml", "state">>
    [] job.kind = "renew" -> IF Selects
                             THEN <<"meta", "yaml", "state", "revision">>
                             ELSE <<"meta", "revision">>
    [] job.kind = "rules" -> IF Active THEN <<"rules", "yaml">> ELSE <<"rules">>
    [] job.kind = "mode" -> IF Active THEN <<"mode", "meta", "yaml", "state">>
                            ELSE <<"mode">>

(* The order in which a commit writes: select_revision, before it          *)
(* save_revision or the document.                                          *)
Order ==
  CASE job.kind = "select" -> <<"meta", "yaml", "state">>
    [] job.kind = "renew" -> IF Selects
                             THEN <<"revision", "meta", "yaml", "state">>
                             ELSE <<"revision", "meta">>
    [] job.kind = "rules" -> IF Active THEN <<"rules", "yaml">> ELSE <<"rules">>
    [] job.kind = "mode" -> IF Active THEN <<"mode", "meta", "yaml", "state">>
                            ELSE <<"mode">>

(* The second check of the context, before anything is written.            *)
Check ==
  /\ pc = "check"
  /\ \/ /\ job.reload => Running
        /\ pc' = "commit" /\ todo' = Order
        /\ UNCHANGED answer
     \/ /\ job.reload
        /\ pc' = "restore" /\ answer' = "failed"
        /\ UNCHANGED todo
     \/ ~job.reload /\ Fail("failed")
  /\ UNCHANGED <<files, saved, core, up, job, old, version, hurt, suspect>>

---------------------------------------------------------------------------
(* One write takes its content from f.                                     *)
Put(w, outcome, f) ==
  /\ selection' = IF w = "state" THEN Wrote(outcome, f.selection, selection)
                                 ELSE selection
  /\ meta' = IF w = "meta" THEN Wrote(outcome, f.meta, meta) ELSE meta
  /\ doc' = IF w \in {"rules", "mode"} THEN Wrote(outcome, f.doc, doc) ELSE doc
  /\ yaml' = IF w = "yaml" THEN Wrote(outcome, f.yaml, yaml) ELSE yaml

Save(w, outcome) ==
  saved' = IF w = "revision"
           THEN [saved EXCEPT ![Target] =
                   Wrote(outcome, @ \union {job.selection.revision}, @)]
           ELSE saved

(* Mutant: the runtime file stays when a selection is taken back.          *)
KeepsYaml(w) ==
  IF w \in {"revision", "mode"} THEN <<>>
  ELSE CASE job.kind = "rules" -> <<"rules", "yaml">>
         [] job.kind = "mode" -> <<"meta", "state", "mode">>
         [] Selects /\ job.kind # "mode" -> <<"meta", "state">>
         [] OTHER -> <<"meta">>

(* What the caller restores when this write fails: nothing for the first   *)
(* write of a mode, whose error is passed on.                              *)
Restores(w) ==
  IF w \in {"revision", "mode"} THEN <<>>
  ELSE CASE job.kind = "rules" -> <<"rules", "yaml">>
         [] job.kind = "mode" -> <<"meta", "state", "yaml", "mode">>
         [] Selects /\ job.kind # "mode" -> <<"meta", "state", "yaml">>
         [] OTHER -> <<"meta">>

Committed ==
  /\ pc' = "idle" /\ answer' = "ok"
  /\ hurt' = (hurt /\ ~Selects)
  /\ suspect' = (suspect /\ ~job.reload)

(* "halfway" is the error of a mode whose settings.json has been replaced. *)
CommitFails(w, outcome) ==
  /\ pc' = "undo" /\ todo' = Restores(w)
  /\ answer' = IF w = "mode" /\ outcome = "leftover" THEN "halfway" ELSE "failed"
  /\ hurt' = (hurt \/ answer' = "halfway")
  /\ UNCHANGED suspect

Commit ==
  /\ pc = "commit"
  /\ \E outcome \in Outcomes, w \in {Head(todo)} :
       /\ Put(w, outcome, New) /\ Save(w, outcome)
       /\ IF outcome # "ok" THEN CommitFails(w, outcome)
          ELSE /\ todo' = Tail(todo)
               /\ IF Tail(todo) = <<>> THEN Committed
                  ELSE UNCHANGED <<pc, answer, hurt, suspect>>
  /\ UNCHANGED <<core, up, job, old, version>>

(* All files are attempted, whatever fails.                                *)
Undo ==
  /\ pc = "undo" /\ todo # <<>>
  /\ \E outcome \in Outcomes :
       /\ Put(Head(todo), outcome, old)
       /\ todo' = Tail(todo)
       /\ answer' = IF outcome = "ok" THEN answer ELSE "damaged"
       /\ hurt' = (hurt \/ outcome # "ok")
  /\ UNCHANGED <<saved, core, up, pc, job, old, version, suspect>>

(* Mutant: a commit that failed leaves the candidate in the core.          *)
UndoneWithoutCore ==
  /\ pc = "undo" /\ todo = <<>>
  /\ pc' = "idle"
  /\ UNCHANGED <<files, saved, core, up, todo, job, old, answer, version, hurt,
                 suspect>>

Undone ==
  /\ pc = "undo" /\ todo = <<>>
  /\ pc' = IF job.reload THEN "restore" ELSE "idle"
  /\ UNCHANGED <<files, saved, core, up, todo, job, old, answer, version, hurt,
                 suspect>>

(* restore_after_failure.                                                  *)
Restore ==
  /\ pc = "restore" /\ pc' = "idle"
  /\ \/ Running /\ core' = Previous /\ UNCHANGED <<answer, suspect>>
     \/ /\ core' \in IF Running THEN {core, Previous} ELSE {core}
        /\ answer' = "rollback" /\ suspect' = Running
  /\ UNCHANGED <<files, saved, up, todo, job, old, version, hurt>>

---------------------------------------------------------------------------
Start ==
  /\ Idle /\ ~Running /\ selection.profile # NoProfile
  /\ core' = Effective /\ answer' = "none"
  /\ UNCHANGED <<files, saved, up, pc, todo, job, old, version, hurt, suspect>>

CoreEnds == core' = NoConfig /\ suspect' = FALSE

Stop ==
  /\ Idle /\ Running
  /\ CoreEnds /\ answer' = "none"
  /\ UNCHANGED <<files, saved, up, pc, todo, job, old, version, hurt>>

CoreDies ==
  /\ up /\ Running /\ CoreEnds
  /\ UNCHANGED <<files, saved, up, pc, todo, job, old, answer, version, hurt>>

(* The process dies, and on Windows the core with it.                      *)
Crash ==
  /\ up /\ up' = FALSE /\ CoreEnds
  /\ hurt' = (hurt \/ pc \in {"commit", "undo"})
  /\ Fail("none") /\ job' = NoJob
  /\ UNCHANGED <<files, saved, old, version>>

Launch ==
  /\ ~up /\ up' = TRUE
  /\ UNCHANGED <<files, saved, core, pc, todo, job, old, answer, version, hurt,
                 suspect>>

Command ==
  \/ \E p \in Profiles, r \in Revisions : SelectRevision(p, r)
  \/ \E p \in Profiles : Renew(p)
  \/ SaveRules \/ SetMode \/ Start \/ Stop

Transaction ==
  Validate \/ Load \/ Check \/ Commit \/ Undo \/ Undone \/ Restore

Next == Command \/ Transaction \/ CoreDies \/ Crash \/ Launch

Spec == Init /\ [][Next]_vars

---------------------------------------------------------------------------
(* What state.json and the metadata name has been saved, at every instant  *)
(* and after every crash; and between two commands the selection is that   *)
(* of its profile, unless a crash within a commit or a failed restoration  *)
(* has torn them (select_revision writes metadata, active.yaml, state).    *)
SelectionIsWhole ==
  /\ \A p \in Profiles : meta[p] \in saved[p]
  /\ selection.profile # NoProfile =>
       /\ selection.revision \in saved[selection.profile]
       /\ pc = "idle" /\ ~hurt => meta[selection.profile] = selection.revision

(* Between two commands a running core runs what the files select, whether *)
(* the last command succeeded or failed at any step; the exceptions are    *)
(* those the user is told of, and settings.json half-way (transact,        *)
(* restore_after_failure).                                                 *)
CoreRunsSelection ==
  pc = "idle" /\ Running /\ ~hurt /\ ~suspect => core = Effective

(* What a command answers is so: ok means that files and core have the     *)
(* candidate (an inactive profile: its metadata), a plain error that the   *)
(* files are what they were (the undo of user_rules.rs and                 *)
(* commit_active_selection, over every partial failure).                   *)
AnswersAreTrue ==
  /\ answer = "ok" /\ (Selects \/ (job.kind = "rules" /\ Active)) =>
       Effective = Candidate /\ yaml = Candidate /\ core \in {Candidate, NoConfig}
  /\ answer = "ok" /\ job.kind = "renew" => meta[Target] = job.selection.revision
  /\ answer = "failed" /\ pc = "idle" => Now = old
=============================================================================
