---------------------------- MODULE DomainRouting ----------------------------
(***************************************************************************)
(* The domain routes (domain_routing.rs, domain_routing/ingress.rs): the   *)
(* document with its revision, its application through transact of         *)
(* user_rules.rs, and the status query, which holds no permit: it reads a  *)
(* fingerprint, the files and the core, and publishes only if fingerprint  *)
(* and revision are the same afterwards.  Rules of the user and the        *)
(* profile change through the same transaction.                            *)
(***************************************************************************)
EXTENDS Naturals

CONSTANTS
  MaxChanges,    \* bound: committed changes of the document, the profile (or mode,
                 \* which the fingerprint covers) and the rules, taken together
  MaxRoutes      \* bound: runs of the core

VARIABLES
  doc,         \* domains.json: [revision, enabled, applied, draft]; numbers name policies
  base,        \* the rest of the configuration: [profile, rules]
  loaded,      \* the core: [run, prefix, profile, rules]; run 0 is none
  editor,      \* who has the permit: [at, kind, old, next, oldBase, nextBase]
  query,       \* verified_state: [at, marker, doc, base, saw, result]
  routeFaults  \* history: "undone" a commit was taken back, "split" a rollback failed

routingVars == <<doc, base, loaded, editor, query, routeFaults>>

Off == 0   \* the prefix of a configuration without domain routes
Docs == [revision: 0..MaxChanges, enabled: BOOLEAN, applied: 0..MaxChanges,
         draft: 0..MaxChanges]
Bases == [profile: 0..MaxChanges, rules: 0..MaxChanges]
Running == loaded.run # 0

\* merge: the rules the document puts before all others
Prefix(d) == IF d.enabled THEN d.applied ELSE Off
Built(d, b) == [prefix |-> Prefix(d), profile |-> b.profile, rules |-> b.rules]
Load(c) == loaded' = [loaded EXCEPT !.prefix = c.prefix, !.profile = c.profile, !.rules = c.rules]
\* configuration_fingerprint: neither the domains nor the user's rules
Marker == <<base.profile, loaded.run>>

NewDoc == [revision |-> 0, enabled |-> FALSE, applied |-> Off, draft |-> Off]
NewBase == [profile |-> 0, rules |-> 0]
NobodyEdits == [at |-> "idle", kind |-> "none", old |-> NewDoc, next |-> NewDoc,
                oldBase |-> NewBase, nextBase |-> NewBase]
NoQuery == [at |-> "idle", marker |-> <<0, 0>>, doc |-> NewDoc, base |-> NewBase,
            saw |-> Off, result |-> "none"]

RoutingTypeOK ==
  /\ doc \in Docs /\ base \in Bases
  /\ loaded.run \in 0..MaxRoutes /\ loaded.prefix \in 0..MaxChanges
  /\ editor.at \in {"idle", "load", "verify", "commit", "undo", "restore"}
  /\ editor.old \in Docs /\ editor.next \in Docs
  /\ query.at \in {"idle", "marked", "read", "asked"}
  /\ query.result \in {"none", "off", "waiting", "wrong", "pending", "ok", "mismatch", "error"}
  /\ routeFaults \subseteq {"undone", "split"}

\* a draft was saved by an earlier process
RoutingInit ==
  /\ doc = [NewDoc EXCEPT !.revision = 1, !.draft = 1] /\ base = NewBase
  /\ loaded = [run |-> 0, last |-> 0, prefix |-> Off, profile |-> 0, rules |-> 0]
  /\ editor = NobodyEdits /\ query = NoQuery
  /\ routeFaults = {}

----------------------------------------------------------------------------
(* changes, under the configuration permit                                 *)

EditorFree == editor.at = "idle"
EditRest == UNCHANGED query
MayChange == doc.revision + base.profile + base.rules < MaxChanges

\* bump: the revision the window has read must be the present one
Bumped(d) == [d EXCEPT !.revision = @ + 1]

\* save_domain_route: the draft alone; nothing is loaded
SaveDraft ==
  /\ EditorFree /\ MayChange
  /\ doc' = [Bumped(doc) EXCEPT !.draft = doc.revision + 1]
  /\ UNCHANGED <<base, loaded, editor, routeFaults>> /\ EditRest

\* the change is validated, then loaded if the core runs
Open(kind, d, b) ==
  /\ EditorFree /\ MayChange
  /\ editor' = [at |-> IF Running THEN "load" ELSE "commit", kind |-> kind,
                old |-> doc, next |-> d, oldBase |-> base, nextBase |-> b]
  /\ UNCHANGED <<doc, base, loaded, routeFaults>> /\ EditRest

ApplyRoutes(on) ==
  /\ on => doc.draft # Off
  /\ Open("routes", [Bumped(doc) EXCEPT !.enabled = on,
                                        !.applied = IF on THEN doc.draft ELSE @], base)

SaveUserRules == Open("rules", doc, [base EXCEPT !.rules = @ + 1])

SelectProfile == Open("profile", doc, [base EXCEPT !.profile = @ + 1])

Close == editor' = NobodyEdits

\* transact: load, verify (routes only), check_context and commit
LoadCandidate ==
  /\ editor.at = "load"
  /\ \/ Running /\ Load(Built(editor.next, editor.nextBase)) /\ editor' = [editor EXCEPT !.at = "commit"]
     \/ Running /\ Load(Built(editor.next, editor.nextBase)) /\ editor' = [editor EXCEPT !.at = "restore"]
     \/ UNCHANGED loaded /\ editor' = [editor EXCEPT !.at = "restore"]
  /\ UNCHANGED <<doc, base, routeFaults>> /\ EditRest

CommitCandidate ==
  /\ editor.at = "commit"
  /\ \/ /\ doc' = editor.next /\ base' = editor.nextBase /\ Close
        /\ UNCHANGED routeFaults
     \/ /\ doc' = editor.next /\ editor.kind = "routes"  \* active.yaml is not written
        /\ editor' = [editor EXCEPT !.at = "undo"]
        /\ UNCHANGED <<base, routeFaults>>
     \/ /\ editor' = [editor EXCEPT !.at = "restore"]  \* nothing is written, or the context changed
        /\ UNCHANGED <<doc, base, routeFaults>>
  /\ UNCHANGED loaded /\ EditRest

UndoCommit ==
  /\ editor.at = "undo"
  /\ \/ doc' = editor.old /\ routeFaults' = routeFaults \union {"undone"}
     \/ UNCHANGED doc /\ routeFaults' = routeFaults \union {"split"}
  /\ editor' = [editor EXCEPT !.at = "restore"]
  /\ UNCHANGED <<base, loaded>> /\ EditRest

\* mutant: the failed change is dropped without loading the previous one
RestoreNothing ==
  /\ editor.at = "restore"
  /\ UNCHANGED <<doc, base, loaded, routeFaults>> /\ Close /\ EditRest

\* restore_after_failure
RestorePrevious ==
  /\ editor.at = "restore"
  /\ \/ Running /\ Load(Built(editor.old, editor.oldBase)) /\ UNCHANGED routeFaults
     \/ UNCHANGED loaded /\ routeFaults' = routeFaults \union (IF Running THEN {"split"} ELSE {})
  /\ UNCHANGED <<doc, base>> /\ Close /\ EditRest

----------------------------------------------------------------------------
(* the core                                                                *)

\* a start takes the permit and builds its configuration from the files
CoreStarts ==
  /\ EditorFree /\ ~Running /\ loaded.last < MaxRoutes
  /\ loaded' = [run |-> loaded.last + 1, last |-> loaded.last + 1,
                prefix |-> Prefix(doc), profile |-> base.profile, rules |-> base.rules]
  /\ UNCHANGED <<doc, base, editor, query, routeFaults>>

CoreGone ==
  /\ Running /\ loaded' = [loaded EXCEPT !.run = 0]
  /\ UNCHANGED <<doc, base, editor, query, routeFaults>>

----------------------------------------------------------------------------
(* verified_state                                                          *)

QueryRest == UNCHANGED <<doc, base, loaded, editor, routeFaults>>

QueryMarks ==
  /\ query.at = "idle"
  /\ query' = [NoQuery EXCEPT !.at = "marked", !.marker = Marker]
  /\ QueryRest

\* state_with_runtime: what is running was read with the marker
QueryReads ==
  /\ query.at = "marked"
  /\ query' = [query EXCEPT !.at = "read", !.doc = doc, !.base = base,
       !.result = CASE ~doc.enabled -> "off"
                    [] doc.enabled /\ query.marker[2] = 0 -> "waiting"
                    [] OTHER -> "pending"]
  /\ QueryRest

\* RuleExpectation::check: mode, number of rules and the prefix
Agrees(b) == loaded.prefix = Prefix(query.doc) /\ loaded.profile = b.profile /\ loaded.rules = b.rules

QueryAsks ==
  /\ query.at = "read"
  /\ query' = [query EXCEPT !.at = "asked",
       !.saw = loaded.prefix,
       !.result = IF @ # "pending" THEN @
                  ELSE IF Running /\ Agrees(query.base) THEN "ok"
                  ELSE IF Running THEN "mismatch" ELSE "error"]
  /\ QueryRest

\* mutant: the revision of the document is not compared
MarkerKept == Marker = query.marker

\* publish_observations
ContextKept == doc.revision = query.doc.revision /\ Marker = query.marker

Publishes == query.at = "asked"
SaysVerified == Publishes /\ ContextKept /\ query.result = "ok"

\* it has published, or the ticket of the process gate is void, or a read failed
QueryEnds ==
  /\ query.at # "idle"
  /\ query' = NoQuery
  /\ QueryRest

RoutingNext ==
  \/ SaveDraft \/ (\E on \in BOOLEAN : ApplyRoutes(on)) \/ SaveUserRules \/ SelectProfile
  \/ LoadCandidate \/ CommitCandidate \/ UndoCommit \/ RestorePrevious
  \/ CoreStarts \/ CoreGone
  \/ QueryMarks \/ QueryReads \/ QueryAsks \/ QueryEnds

----------------------------------------------------------------------------
\* A late answer of the core is never published as "verified" for a document, a
\* profile or a run that is not the present one (the test
\* late_ingress_or_rule_reads_cannot_publish_a_stale_success): what the core was
\* seen to run is what the document of now prescribes.  A number of a revision
\* that was taken back can be given again.
VerifiedIsTrue ==
  SaysVerified /\ "undone" \notin routeFaults =>
    /\ query.saw = Prefix(doc) /\ doc.enabled
    /\ query.base.profile = base.profile /\ Running

\* Between two changes a running core has the routes that the document shows,
\* whatever failed or died during a change, unless a rollback failed too.
RoutesAreLoaded ==
  EditorFree /\ Running /\ "split" \notin routeFaults => loaded.prefix = Prefix(doc)

=============================================================================
