----------------------- MODULE ConfigTransactionProofs -----------------------
(***************************************************************************)
(* Proofs about ConfigTransaction, for any profiles and any number of      *)
(* versions.                                                               *)
(***************************************************************************)
EXTENDS ConfigTransaction, TLAPS

(* Every end of a plan of writes.                                          *)
Plans ==
  {<<>>, <<"revision", "meta", "yaml", "state">>, <<"mode", "meta", "yaml", "state">>,
   <<"meta", "yaml", "state">>, <<"yaml", "state">>, <<"state">>, <<"revision", "meta">>,
   <<"meta">>, <<"rules", "yaml">>, <<"yaml">>, <<"rules">>, <<"mode">>,
   <<"meta", "state", "yaml", "mode">>, <<"state", "yaml", "mode">>, <<"yaml", "mode">>,
   <<"meta", "state", "yaml">>, <<"state", "yaml">>}

(* The writes of a plan, and those of a commit that are behind it.         *)
Rest(plan) == {plan[i] : i \in DOMAIN plan}
Behind == Rest(Order) \ Rest(todo)

Docwise == {"rules", "mode"}

Stages ==
  /\ todo \in Plans
  /\ pc = "commit" => todo # <<>>
  /\ pc \notin {"commit", "undo"} => todo = <<>>
  /\ ~up => pc = "idle"
  /\ pc \in {"load", "restore"} => job.reload
  /\ pc \in {"validate", "load", "check", "commit"} => answer = "none"
  /\ pc \in {"undo", "restore"} => answer \in {"failed", "halfway", "damaged"}
  /\ pc \in {"undo", "restore"} /\ ~hurt => answer = "failed"
  /\ answer = "ok" => up

(* What a command is, while it runs.                                       *)
Ordered ==
  pc # "idle" =>
    /\ job.kind \in {"select", "renew"} => Target \in Profiles /\ job.doc = old.doc
    /\ job.kind \in {"rules", "mode"} => job.selection = old.selection
    /\ job.kind = "select" => job.selection.revision \in saved[Target]
    /\ job.reload => Active /\ (job.kind = "renew" => Target = old.selection.profile)
    /\ selection \in {old.selection, job.selection}

AllSaved(f) ==
  /\ \A p \in Profiles : f.meta[p] \in saved[p]
  /\ f.selection.profile # NoProfile => f.selection.revision \in saved[f.selection.profile]

Saves ==
  /\ AllSaved(Now) /\ AllSaved(old)
  /\ pc = "commit" /\ "revision" \in Behind => job.selection.revision \in saved[Target]

(* A commit has written what is behind it, and nothing else.               *)
Progress ==
  pc = "commit" =>
    /\ Rest(todo) \subseteq Rest(Order)
    /\ todo = Order \/ Rest(todo) \intersect {"revision", "mode"} = {}
    /\ selection = IF "state" \in Behind THEN job.selection ELSE old.selection
    /\ meta = IF "meta" \in Behind THEN New.meta ELSE old.meta
    /\ doc = IF Docwise \intersect Behind # {} THEN job.doc ELSE old.doc
    /\ yaml = IF "yaml" \in Behind THEN Candidate ELSE old.yaml

(* What an undo has not put back yet is still to be put back.              *)
Regress ==
  pc = "undo" /\ answer = "failed" =>
    /\ "state" \in Rest(todo) \/ selection = old.selection
    /\ "meta" \in Rest(todo) \/ meta = old.meta
    /\ Docwise \intersect Rest(todo) # {} \/ doc = old.doc
    /\ "yaml" \in Rest(todo) \/ yaml = old.yaml

Untouched ==
  /\ pc \in {"validate", "load", "check"} => Now = old
  /\ pc \in {"idle", "restore"} /\ answer = "failed" => Now = old

Matches(f) ==
  f.selection.profile # NoProfile => f.meta[f.selection.profile] = f.selection.revision

Whole == ~hurt => IF pc = "idle" THEN Matches(Now) ELSE Matches(old)

Elsewhere == job.kind = "renew" /\ Active /\ Target # old.selection.profile

Loaded ==
  /\ pc = "idle" /\ Running => selection.profile # NoProfile
  /\ pc = "idle" /\ Running /\ ~hurt /\ ~suspect => core = Effective
  /\ pc # "idle" /\ Running => Active /\ (job.reload \/ Elsewhere)
  /\ pc # "idle" /\ (pc \in {"validate", "load"} \/ ~job.reload) /\ Running /\ ~hurt /\ ~suspect
       => core = Previous
  /\ pc \in {"check", "commit"} /\ job.reload => core \in {Candidate, NoConfig}

Answered ==
  answer = "ok" =>
    /\ pc = "idle"
    /\ Selects \/ (job.kind = "rules" /\ Active) =>
         Effective = Candidate /\ yaml = Candidate /\ core \in {Candidate, NoConfig}
    /\ job.kind = "renew" => meta[Target] = job.selection.revision

IInv ==
  /\ TypeOK /\ Stages /\ Ordered /\ Saves /\ Progress /\ Regress
  /\ Untouched /\ Whole /\ Loaded /\ Answered

-----------------------------------------------------------------------------
(* The plans of writes.                                                    *)

LEMMA Plan4 ==
  ASSUME NEW a, NEW b, NEW c, NEW d
  PROVE  /\ <<a, b, c, d>> # <<>> /\ Head(<<a, b, c, d>>) = a
         /\ Tail(<<a, b, c, d>>) = <<b, c, d>> /\ Rest(<<a, b, c, d>>) = {a, b, c, d}
<1>1. DOMAIN <<a, b, c, d>> = 1..4
  OBVIOUS
<1>2. \A i \in 1..4 : i = 1 \/ i = 2 \/ i = 3 \/ i = 4
  OBVIOUS
<1> QED BY <1>1, <1>2 DEF Rest

LEMMA Plan3 ==
  ASSUME NEW a, NEW b, NEW c
  PROVE  /\ <<a, b, c>> # <<>> /\ Head(<<a, b, c>>) = a
         /\ Tail(<<a, b, c>>) = <<b, c>> /\ Rest(<<a, b, c>>) = {a, b, c}
<1>1. DOMAIN <<a, b, c>> = 1..3
  OBVIOUS
<1>2. \A i \in 1..3 : i = 1 \/ i = 2 \/ i = 3
  OBVIOUS
<1> QED BY <1>1, <1>2 DEF Rest

LEMMA Plan2 ==
  ASSUME NEW a, NEW b
  PROVE  /\ <<a, b>> # <<>> /\ Head(<<a, b>>) = a
         /\ Tail(<<a, b>>) = <<b>> /\ Rest(<<a, b>>) = {a, b}
<1>1. DOMAIN <<a, b>> = 1..2
  OBVIOUS
<1>2. \A i \in 1..2 : i = 1 \/ i = 2
  OBVIOUS
<1> QED BY <1>1, <1>2 DEF Rest

LEMMA Plan1 ==
  ASSUME NEW a
  PROVE  <<a>> # <<>> /\ Head(<<a>>) = a /\ Tail(<<a>>) = <<>> /\ Rest(<<a>>) = {a}
<1>1. DOMAIN <<a>> = 1..1
  OBVIOUS
<1>2. \A i \in 1..1 : i = 1
  OBVIOUS
<1> QED BY <1>1, <1>2 DEF Rest

LEMMA Plan0 == Rest(<<>>) = {}
BY DEF Rest

LEMMA PlansAreSequences == Plans \subseteq Seq(Writes)
BY DEF Plans, Writes

LEMMA PlanStep ==
  ASSUME NEW t \in Plans, t # <<>>
  PROVE  /\ Head(t) \in Writes /\ Tail(t) \in Plans
         /\ Rest(t) = {Head(t)} \union Rest(Tail(t)) /\ Head(t) \notin Rest(Tail(t))
<1>1. CASE t = <<"revision", "meta", "yaml", "state">>
  <2>1. Head(t) = "revision" /\ Tail(t) = <<"meta", "yaml", "state">> /\ Rest(t) = {"revision", "meta", "yaml", "state"}
    BY <1>1, Plan4
  <2>2. Rest(<<"meta", "yaml", "state">>) = {"meta", "yaml", "state"}
    BY Plan3
  <2>3. Tail(t) \in Plans
    BY <2>1 DEF Plans
  <2> QED BY <2>1, <2>2, <2>3 DEF Writes
<1>2. CASE t = <<"mode", "meta", "yaml", "state">>
  <2>1. Head(t) = "mode" /\ Tail(t) = <<"meta", "yaml", "state">> /\ Rest(t) = {"mode", "meta", "yaml", "state"}
    BY <1>2, Plan4
  <2>2. Rest(<<"meta", "yaml", "state">>) = {"meta", "yaml", "state"}
    BY Plan3
  <2>3. Tail(t) \in Plans
    BY <2>1 DEF Plans
  <2> QED BY <2>1, <2>2, <2>3 DEF Writes
<1>3. CASE t = <<"meta", "yaml", "state">>
  <2>1. Head(t) = "meta" /\ Tail(t) = <<"yaml", "state">> /\ Rest(t) = {"meta", "yaml", "state"}
    BY <1>3, Plan3
  <2>2. Rest(<<"yaml", "state">>) = {"yaml", "state"}
    BY Plan2
  <2>3. Tail(t) \in Plans
    BY <2>1 DEF Plans
  <2> QED BY <2>1, <2>2, <2>3 DEF Writes
<1>4. CASE t = <<"yaml", "state">>
  BY <1>4, Plan2, Plan1 DEF Plans, Writes
<1>5. CASE t = <<"state">>
  BY <1>5, Plan1, Plan0 DEF Plans, Writes
<1>6. CASE t = <<"revision", "meta">>
  BY <1>6, Plan2, Plan1 DEF Plans, Writes
<1>7. CASE t = <<"meta">>
  BY <1>7, Plan1, Plan0 DEF Plans, Writes
<1>8. CASE t = <<"rules", "yaml">>
  BY <1>8, Plan2, Plan1 DEF Plans, Writes
<1>9. CASE t = <<"yaml">>
  BY <1>9, Plan1, Plan0 DEF Plans, Writes
<1>10. CASE t = <<"rules">>
  BY <1>10, Plan1, Plan0 DEF Plans, Writes
<1>11. CASE t = <<"mode">>
  BY <1>11, Plan1, Plan0 DEF Plans, Writes
<1>12. CASE t = <<"meta", "state", "yaml", "mode">>
  <2>1. Head(t) = "meta" /\ Tail(t) = <<"state", "yaml", "mode">> /\ Rest(t) = {"meta", "state", "yaml", "mode"}
    BY <1>12, Plan4
  <2>2. Rest(<<"state", "yaml", "mode">>) = {"state", "yaml", "mode"}
    BY Plan3
  <2>3. Tail(t) \in Plans
    BY <2>1 DEF Plans
  <2> QED BY <2>1, <2>2, <2>3 DEF Writes
<1>13. CASE t = <<"state", "yaml", "mode">>
  <2>1. Head(t) = "state" /\ Tail(t) = <<"yaml", "mode">> /\ Rest(t) = {"state", "yaml", "mode"}
    BY <1>13, Plan3
  <2>2. Rest(<<"yaml", "mode">>) = {"yaml", "mode"}
    BY Plan2
  <2>3. Tail(t) \in Plans
    BY <2>1 DEF Plans
  <2> QED BY <2>1, <2>2, <2>3 DEF Writes
<1>14. CASE t = <<"yaml", "mode">>
  BY <1>14, Plan2, Plan1 DEF Plans, Writes
<1>15. CASE t = <<"meta", "state", "yaml">>
  <2>1. Head(t) = "meta" /\ Tail(t) = <<"state", "yaml">> /\ Rest(t) = {"meta", "state", "yaml"}
    BY <1>15, Plan3
  <2>2. Rest(<<"state", "yaml">>) = {"state", "yaml"}
    BY Plan2
  <2>3. Tail(t) \in Plans
    BY <2>1 DEF Plans
  <2> QED BY <2>1, <2>2, <2>3 DEF Writes
<1>16. CASE t = <<"state", "yaml">>
  BY <1>16, Plan2, Plan1 DEF Plans, Writes
<1> QED BY <1>1, <1>2, <1>3, <1>4, <1>5, <1>6, <1>7, <1>8, <1>9, <1>10, <1>11, <1>12, <1>13, <1>14, <1>15, <1>16 DEF Plans

LEMMA Orders ==
  ASSUME job.kind \in Kinds
  PROVE  /\ Order \in Plans /\ Order # <<>>
         /\ job.kind = "select" => Rest(Order) = {"meta", "yaml", "state"}
         /\ job.kind = "renew" /\ Selects => Rest(Order) = {"revision", "meta", "yaml", "state"}
         /\ job.kind = "renew" /\ ~Selects => Rest(Order) = {"revision", "meta"}
         /\ job.kind = "rules" /\ Active => Rest(Order) = {"rules", "yaml"}
         /\ job.kind = "rules" /\ ~Active => Rest(Order) = {"rules"}
         /\ job.kind = "mode" /\ Active => Rest(Order) = {"mode", "meta", "yaml", "state"}
         /\ job.kind = "mode" /\ ~Active => Rest(Order) = {"mode"}
         /\ Rest(Tail(Order)) \intersect {"revision", "mode"} = {}
<1>1. CASE job.kind = "select"
  <2>1. Order = <<"meta", "yaml", "state">>
    BY <1>1 DEF Order, Selects
  <2>2. /\ Order # <<>> /\ Rest(Order) = {"meta", "yaml", "state"}
        /\ Tail(Order) = <<"yaml", "state">>
    BY <2>1, Plan3
  <2>3. Rest(<<"yaml", "state">>) = {"yaml", "state"}
    BY Plan2
  <2>4. Order \in Plans
    BY <2>1 DEF Plans
  <2> QED BY <1>1, <2>2, <2>3, <2>4 DEF Selects
<1>2. CASE job.kind = "renew" /\ Selects
  <2>1. Order = <<"revision", "meta", "yaml", "state">>
    BY <1>2 DEF Order, Selects
  <2>2. /\ Order # <<>> /\ Rest(Order) = {"revision", "meta", "yaml", "state"}
        /\ Tail(Order) = <<"meta", "yaml", "state">>
    BY <2>1, Plan4
  <2>3. Rest(<<"meta", "yaml", "state">>) = {"meta", "yaml", "state"}
    BY Plan3
  <2>4. Order \in Plans
    BY <2>1 DEF Plans
  <2> QED BY <1>2, <2>2, <2>3, <2>4 DEF Selects
<1>3. CASE job.kind = "renew" /\ ~Selects
  BY <1>3, Plan2, Plan1 DEF Order, Plans
<1>4. CASE job.kind = "rules" /\ Active
  BY <1>4, Plan2, Plan1 DEF Order, Plans
<1>5. CASE job.kind = "rules" /\ ~Active
  BY <1>5, Plan1, Plan0 DEF Order, Plans
<1>6. CASE job.kind = "mode" /\ Active
  <2>1. Order = <<"mode", "meta", "yaml", "state">>
    BY <1>6 DEF Order, Selects
  <2>2. /\ Order # <<>> /\ Rest(Order) = {"mode", "meta", "yaml", "state"}
        /\ Tail(Order) = <<"meta", "yaml", "state">>
    BY <2>1, Plan4
  <2>3. Rest(<<"meta", "yaml", "state">>) = {"meta", "yaml", "state"}
    BY Plan3
  <2>4. Order \in Plans
    BY <2>1 DEF Plans
  <2> QED BY <1>6, <2>2, <2>3, <2>4 DEF Selects
<1>7. CASE job.kind = "mode" /\ ~Active
  BY <1>7, Plan1, Plan0 DEF Order, Plans
<1> QED BY <1>1, <1>2, <1>3, <1>4, <1>5, <1>6, <1>7 DEF Kinds

LEMMA WholeMode ==
  Rest(<<"meta", "state", "yaml", "mode">>) = {"meta", "state", "yaml", "mode"}
<1> DEFINE t == <<"meta", "state", "yaml", "mode">>
<1>1. Head(t) = "meta" /\ Tail(t) = <<"state", "yaml", "mode">>
      /\ Rest(t) = {"meta", "state", "yaml", "mode"}
  BY Plan4
<1> QED BY <1>1

(* What a caller restores covers what its commit may have written.         *)
LEMMA Restorations ==
  ASSUME job.kind \in Kinds, NEW w \in Rest(Order), Selects => job.kind # "mode" \/ Active
  PROVE  /\ Restores(w) \in Plans
         /\ w \notin {"revision", "mode"} =>
              /\ Rest(Order) \intersect {"state", "meta", "yaml"} \subseteq Rest(Restores(w))
              /\ Docwise \intersect Rest(Order) # {} => Docwise \intersect Rest(Restores(w)) # {}
<1>1. CASE w \in {"revision", "mode"}
  <2>1. Restores(w) = <<>>
    BY <1>1 DEF Restores
  <2>2. <<>> \in Plans
    BY DEF Plans
  <2> QED BY <1>1, <2>1, <2>2
<1>2. ASSUME w \notin {"revision", "mode"} PROVE
        /\ Restores(w) \in Plans
        /\ Rest(Order) \intersect {"state", "meta", "yaml"} \subseteq Rest(Restores(w))
        /\ Docwise \intersect Rest(Order) # {} => Docwise \intersect Rest(Restores(w)) # {}
  <2>1. CASE job.kind = "rules"
    <3>1. Restores(w) = <<"rules", "yaml">>
      BY <1>2, <2>1 DEF Restores, Selects
    <3>2. Rest(<<"rules", "yaml">>) = {"rules", "yaml"}
      BY Plan2
    <3>3. Restores(w) \in Plans
      BY <3>1 DEF Plans
    <3> QED BY <2>1, <3>1, <3>2, <3>3, Orders DEF Docwise, Kinds, Selects
  <2>2. CASE job.kind = "mode"
    <3>1. Restores(w) = <<"meta", "state", "yaml", "mode">>
      BY <1>2, <2>2 DEF Restores, Selects
    <3>2. Rest(<<"meta", "state", "yaml", "mode">>) = {"meta", "state", "yaml", "mode"}
      BY WholeMode
    <3>3. Restores(w) \in Plans
      BY <3>1 DEF Plans
    <3> QED BY <2>2, <3>1, <3>2, <3>3, Orders DEF Docwise, Kinds, Selects
  <2>3. CASE job.kind \in {"select", "renew"} /\ Selects
    <3>1. Restores(w) = <<"meta", "state", "yaml">>
      BY <1>2, <2>3 DEF Restores, Selects
    <3>2. Rest(<<"meta", "state", "yaml">>) = {"meta", "state", "yaml"}
      BY Plan3
    <3>3. Restores(w) \in Plans
      BY <3>1 DEF Plans
    <3> QED BY <2>3, <3>1, <3>2, <3>3, Orders DEF Docwise, Kinds, Selects
  <2>4. CASE job.kind = "renew" /\ ~Selects
    <3>1. Restores(w) = <<"meta">>
      BY <1>2, <2>4 DEF Restores, Selects
    <3>2. Rest(<<"meta">>) = {"meta"}
      BY Plan1
    <3>3. Restores(w) \in Plans
      BY <3>1 DEF Plans
    <3> QED BY <2>4, <3>1, <3>2, <3>3, Orders DEF Docwise, Kinds, Selects
  <2>5. job.kind = "select" => Selects
    BY DEF Selects
  <2> QED BY <2>1, <2>2, <2>3, <2>4, <2>5 DEF Kinds
<1> QED BY <1>1, <1>2

-----------------------------------------------------------------------------
(* The configurations that are built, and the files after a commit.        *)

LEMMA Building ==
  ASSUME NEW f \in Files
  PROVE  EffectiveOf(f) \in Configs
<1>1. NoConfig \in Configs
  BY MaxVersionAssumption DEF NoConfig, Configs, Versions
<1>2. ASSUME f.selection.profile # NoProfile PROVE EffectiveOf(f) \in Configs
  <2>1. f.selection.profile \in Profiles
    BY <1>2 DEF Files, Selections
  <2>2. f.meta[f.selection.profile] \in Revisions
    BY <2>1 DEF Files
  <2> QED BY <1>2, <2>2 DEF EffectiveOf, Built, Files, Selections, Revisions, Docs, Configs
<1> QED BY <1>1, <1>2 DEF EffectiveOf

LEMMA Candidates ==
  ASSUME job \in Jobs, old \in Files
  PROVE  /\ Candidate \in Configs /\ New \in Files
         /\ New.selection = job.selection /\ New.doc = job.doc /\ New.yaml = Candidate
         /\ \A p \in Profiles :
              New.meta[p] = IF p = Target THEN job.selection.revision ELSE old.meta[p]
<1>1. [old EXCEPT !.doc = job.doc] \in Files
  BY DEF Files, Jobs
<1>2. Built(job.selection, job.selection.revision.policy, job.doc) \in Configs
  BY DEF Built, Jobs, Selections, Revisions, Docs, Configs
<1>3. Candidate \in Configs
  BY <1>1, <1>2, Building DEF Candidate
<1>4. [p \in Profiles |-> IF p = Target THEN job.selection.revision ELSE old.meta[p]]
        \in [Profiles -> Revisions]
  BY DEF Jobs, Files, Selections
<1> QED BY <1>3, <1>4 DEF New, Files, Jobs

LEMMA Written ==
  ASSUME NEW f \in Files, Now \in Files, NEW w \in Writes, NEW outcome \in Outcomes,
         Put(w, outcome, f)
  PROVE  /\ Now' \in Files
         /\ selection' \in {selection, f.selection} /\ (w # "state" => selection' = selection)
         /\ meta' \in {meta, f.meta} /\ (w # "meta" => meta' = meta)
         /\ doc' \in {doc, f.doc} /\ (w \notin Docwise => doc' = doc)
         /\ yaml' \in {yaml, f.yaml} /\ (w # "yaml" => yaml' = yaml)
         /\ outcome # "kept" =>
              /\ w = "state" => selection' = f.selection
              /\ w = "meta" => meta' = f.meta
              /\ w \in Docwise => doc' = f.doc
              /\ w = "yaml" => yaml' = f.yaml
BY DEF Put, Wrote, Now, Files, Docwise

-----------------------------------------------------------------------------
(* The steps of the invariant.                                             *)

LEMMA Initially == Init => IInv
<1> SUFFICES ASSUME Init PROVE IInv
  OBVIOUS
<1>1. NoRevision \in Revisions /\ NoConfig \in Configs /\ NoJob \in Jobs /\ 0 \in Versions
  BY MaxVersionAssumption
  DEF Versions, NoRevision, Revisions, NoConfig, Configs, NoJob, Jobs, Kinds, NoSelection, Selections, Docs
<1>2. /\ selection \in Selections /\ selection.revision = NoRevision /\ doc \in Docs
      /\ meta \in [Profiles -> Revisions] /\ saved \in [Profiles -> SUBSET Revisions]
      /\ \A p \in Profiles : meta[p] = NoRevision /\ saved[p] = {NoRevision}
  BY <1>1 DEF Init, Selections, Docs
<1>3. yaml \in Configs
  BY <1>1, <1>2 DEF Init, NoConfig, Configs, Selections
<1>4. Now \in Files
  BY <1>2, <1>3 DEF Now, Files
<1>5. TypeOK
  <2>1. todo \in Seq(Writes)
    BY DEF Init
  <2>2. old \in Files
    BY <1>4 DEF Init
  <2> QED BY <1>1, <1>2, <1>4, <2>1, <2>2 DEF Init, TypeOK, Phases
<1>6. Stages /\ Ordered /\ Progress /\ Regress /\ Untouched /\ Answered
  BY DEF Init, Stages, Ordered, Progress, Regress, Untouched, Answered, Plans
<1>7. Saves /\ Whole
  <2>1. AllSaved(Now) /\ Matches(Now)
    BY <1>2 DEF AllSaved, Matches, Now, Selections
  <2> QED BY <2>1 DEF Init, Saves, Whole
<1>8. Loaded
  BY DEF Init, Loaded, Running
<1> QED BY <1>5, <1>6, <1>7, <1>8 DEF IInv

LEMMA SameJob ==
  ASSUME job' = job, old' = old
  PROVE  /\ Target' = Target /\ Active' = Active /\ Selects' = Selects /\ Elsewhere' = Elsewhere
         /\ Order' = Order /\ Candidate' = Candidate /\ New' = New /\ Previous' = Previous
BY DEF Target, Active, Selects, Elsewhere, Order, Candidate, New, Previous, EffectiveOf

LEMMA SameFiles ==
  ASSUME UNCHANGED files
  PROVE  /\ Now' = Now /\ Effective' = Effective
         /\ selection' = selection /\ meta' = meta /\ doc' = doc /\ yaml' = yaml
BY DEF files, Now, Effective, EffectiveOf

(* A command that begins.                                                  *)
LEMMA Begun ==
  ASSUME IInv, Idle, NEW kind \in Kinds, NEW s \in Selections, NEW d \in Docs, Begin(kind, s, d),
         version' \in Versions,
         kind \in {"select", "renew"} => s.profile \in Profiles /\ d = doc,
         kind \in {"rules", "mode"} => s = selection,
         kind = "select" => s.revision \in saved[s.profile]
  PROVE  IInv'
<1>1. /\ pc = "idle" /\ pc' = "validate" /\ todo = <<>> /\ todo' = <<>> /\ up /\ up'
      /\ answer' = "none" /\ old' = Now /\ saved' = saved /\ core' = core
      /\ hurt' = hurt /\ suspect' = suspect /\ UNCHANGED files
  BY DEF IInv, Stages, Idle, Begin
<1>2. /\ job' \in Jobs /\ job'.kind = kind /\ job'.selection = s /\ job'.doc = d
      /\ job'.reload <=> Running /\ selection.profile # NoProfile
                         /\ (kind = "renew" => s.profile = selection.profile)
  BY DEF Begin, Jobs
<1>3. /\ Now' = Now /\ Effective' = Effective
      /\ selection' = selection /\ meta' = meta /\ doc' = doc /\ yaml' = yaml
  BY <1>1, SameFiles
<1>4. /\ old'.selection = selection /\ old'.meta = meta /\ old'.doc = doc
      /\ Previous' = Effective
  BY <1>1 DEF Now, Previous, Effective, EffectiveOf
<1>5. TypeOK'
  BY <1>1, <1>2, <1>3 DEF IInv, TypeOK, Phases
<1>6. Stages' /\ Progress' /\ Regress' /\ Answered'
  BY <1>1 DEF Stages, Progress, Regress, Answered, Plans
<1>7. Ordered'
  BY <1>1, <1>2, <1>3, <1>4 DEF Ordered, Target, Active
<1>8. Saves'
  BY <1>1, <1>3 DEF IInv, Saves, AllSaved
<1>9. Untouched' /\ Whole'
  BY <1>1, <1>3 DEF IInv, Untouched, Whole, Matches
<1>10. Loaded'
  BY <1>1, <1>2, <1>3, <1>4 DEF IInv, Loaded, Running, Active, Elsewhere, Target
<1> QED BY <1>5, <1>6, <1>7, <1>8, <1>9, <1>10 DEF IInv

LEMMA Commands ==
  ASSUME IInv, \/ \E p \in Profiles, r \in Revisions : SelectRevision(p, r)
               \/ \E p \in Profiles : Renew(p)
               \/ SaveRules \/ SetMode
  PROVE  IInv'
<1>1. selection \in Selections /\ doc \in Docs /\ meta \in [Profiles -> Revisions]
  BY DEF IInv, TypeOK, Now, Files
<1>2. ASSUME Changes
      PROVE  Idle /\ version + 1 \in Versions /\ version' \in Versions
  BY <1>2, MaxVersionAssumption DEF Changes, IInv, TypeOK, Versions
<1>3. ASSUME NEW p \in Profiles, NEW r \in Revisions, SelectRevision(p, r) PROVE IInv'
  <2>1. [profile |-> p, revision |-> r] \in Selections
    BY DEF Selections
  <2>2. version' \in Versions
    BY <1>3 DEF SelectRevision, IInv, TypeOK
  <2> QED BY <1>1, <1>3, <2>1, <2>2, Begun DEF SelectRevision, Kinds
<1>4. ASSUME NEW p \in Profiles, Renew(p) PROVE IInv'
  <2>1. Idle /\ version + 1 \in Versions /\ version' \in Versions
    BY <1>2, <1>4 DEF Renew
  <2>2. PICK r \in Revisions : Begin("renew", [profile |-> p, revision |-> r], doc)
    <3>1. /\ [meta[p] EXCEPT !.source = version + 1] \in Revisions
          /\ [meta[p] EXCEPT !.policy = version + 1] \in Revisions
      BY <1>1, <2>1 DEF Revisions
    <3> QED BY <1>4, <3>1 DEF Renew
  <2>3. [profile |-> p, revision |-> r] \in Selections
    BY DEF Selections
  <2> QED BY <1>1, <2>1, <2>2, <2>3, Begun DEF Kinds
<1>5. ASSUME SaveRules PROVE IInv'
  <2>1. Idle /\ version' \in Versions /\ [doc EXCEPT !.rules = version + 1] \in Docs
    BY <1>1, <1>2, <1>5 DEF SaveRules, Docs
  <2> QED BY <1>1, <1>5, <2>1, Begun DEF SaveRules, Kinds
<1>6. ASSUME SetMode PROVE IInv'
  <2>1. Idle /\ version' \in Versions /\ [doc EXCEPT !.mode = version + 1] \in Docs
    BY <1>1, <1>2, <1>6 DEF SetMode, Docs
  <2> QED BY <1>1, <1>6, <2>1, Begun DEF SetMode, Kinds
<1> QED BY <1>3, <1>4, <1>5, <1>6

LEMMA Validated ==
  ASSUME IInv, Validate
  PROVE  IInv'
<1>1. /\ pc = "validate" /\ UNCHANGED files /\ job' = job /\ old' = old /\ saved' = saved
      /\ core' = core /\ up' = up /\ version' = version /\ hurt' = hurt /\ suspect' = suspect
      /\ todo = <<>> /\ todo' = <<>> /\ Now = old
      /\ \/ pc' = "load" /\ job.reload /\ answer' = answer
         \/ pc' = "check" /\ ~job.reload /\ answer' = answer
         \/ pc' = "idle" /\ answer' = "failed"
  BY DEF Validate, Fail, IInv, Stages, Untouched
<1>2. /\ Now' = Now /\ Effective' = Effective
      /\ selection' = selection /\ meta' = meta /\ doc' = doc /\ yaml' = yaml
      /\ Previous' = Previous /\ Active' = Active /\ Elsewhere' = Elsewhere /\ Target' = Target
      /\ Candidate' = Candidate /\ Selects' = Selects
  BY <1>1, SameFiles, SameJob
<1>3. TypeOK'
  BY <1>1, <1>2 DEF IInv, TypeOK, Phases
<1>4. Stages' /\ Progress' /\ Regress' /\ Answered' /\ Untouched'
  BY <1>1, <1>2 DEF IInv, Stages, Progress, Regress, Answered, Untouched
<1>5. Ordered' /\ Saves'
  BY <1>1, <1>2 DEF IInv, Ordered, Saves, AllSaved
<1>6. Whole'
  BY <1>1, <1>2 DEF IInv, Whole, Matches
<1>7. Loaded'
  <2>1. Effective = Previous /\ Running' = Running /\ selection = old.selection
    BY <1>1 DEF Effective, Previous, Running, Now
  <2> QED BY <1>1, <1>2, <2>1 DEF IInv, Loaded, Active
<1> QED BY <1>3, <1>4, <1>5, <1>6, <1>7 DEF IInv

LEMMA LoadDone ==
  ASSUME IInv, Load
  PROVE  IInv'
<1>1. /\ pc = "load" /\ UNCHANGED files /\ job' = job /\ old' = old /\ saved' = saved
      /\ up' = up /\ version' = version /\ hurt' = hurt /\ suspect' = suspect
      /\ todo = <<>> /\ todo' = <<>> /\ Now = old /\ job.reload
      /\ \/ pc' = "check" /\ answer' = answer /\ core' = Candidate
         \/ pc' = "restore" /\ answer' = "failed" /\ core' \in {core, Candidate}
         \/ pc' = "idle" /\ answer' = "failed" /\ core' = core
  BY DEF Load, Fail, IInv, Stages, Untouched
<1>2. /\ Now' = Now /\ Effective' = Effective
      /\ selection' = selection /\ meta' = meta /\ doc' = doc /\ yaml' = yaml
      /\ Previous' = Previous /\ Active' = Active /\ Elsewhere' = Elsewhere /\ Target' = Target
      /\ Candidate' = Candidate /\ Selects' = Selects
  BY <1>1, SameFiles, SameJob
<1>3. TypeOK'
  BY <1>1, <1>2, Candidates DEF IInv, TypeOK, Phases
<1>4. Stages' /\ Progress' /\ Regress' /\ Answered' /\ Untouched'
  BY <1>1, <1>2 DEF IInv, Stages, Progress, Regress, Answered, Untouched
<1>5. Ordered' /\ Saves'
  BY <1>1, <1>2 DEF IInv, Ordered, Saves, AllSaved
<1>6. Whole'
  BY <1>1, <1>2 DEF IInv, Whole, Matches
<1>7. Loaded'
  <2>1. Effective = Previous /\ selection = old.selection /\ Active
    BY <1>1 DEF Effective, Previous, Now, IInv, Ordered
  <2> QED BY <1>1, <1>2, <2>1 DEF IInv, Loaded, Active, Running
<1> QED BY <1>3, <1>4, <1>5, <1>6, <1>7 DEF IInv

LEMMA Checked ==
  ASSUME IInv, Check
  PROVE  IInv'
<1>1. /\ pc = "check" /\ UNCHANGED files /\ job' = job /\ old' = old /\ saved' = saved
      /\ core' = core /\ up' = up /\ version' = version /\ hurt' = hurt /\ suspect' = suspect
      /\ todo = <<>> /\ Now = old
      /\ \/ pc' = "commit" /\ answer' = answer /\ todo' = Order
         \/ pc' = "restore" /\ answer' = "failed" /\ todo' = <<>> /\ job.reload
         \/ pc' = "idle" /\ answer' = "failed" /\ todo' = <<>> /\ ~job.reload
  BY DEF Check, Fail, IInv, Stages, Untouched
<1>2. /\ Now' = Now /\ Effective' = Effective
      /\ selection' = selection /\ meta' = meta /\ doc' = doc /\ yaml' = yaml
      /\ Previous' = Previous /\ Active' = Active /\ Elsewhere' = Elsewhere /\ Target' = Target
      /\ Candidate' = Candidate /\ Selects' = Selects /\ Order' = Order /\ New' = New
  BY <1>1, SameFiles, SameJob
<1>3. Order \in Plans /\ Order # <<>>
  BY Orders DEF IInv, TypeOK, Jobs
<1>4. TypeOK'
  BY <1>1, <1>2, <1>3, PlansAreSequences DEF IInv, TypeOK, Phases
<1>5. Stages' /\ Regress' /\ Answered' /\ Untouched'
  BY <1>1, <1>2, <1>3 DEF IInv, Stages, Regress, Answered, Untouched
<1>6. pc' = "commit" => Behind' = {} /\ Rest(todo)' = Rest(Order)
  BY <1>1, <1>2 DEF Behind, Rest
<1>7. Progress'
  BY <1>1, <1>2, <1>6 DEF Progress, Now, Rest
<1>8. Ordered' /\ Saves'
  BY <1>1, <1>2, <1>6 DEF IInv, Ordered, Saves, AllSaved
<1>9. Whole'
  BY <1>1, <1>2 DEF IInv, Whole, Matches
<1>10. Loaded'
  <2>1. Effective = Previous /\ selection = old.selection /\ Running' = Running
    BY <1>1 DEF Effective, Previous, Now, Running
  <2> QED BY <1>1, <1>2, <2>1 DEF IInv, Loaded, Active
<1> QED BY <1>4, <1>5, <1>7, <1>8, <1>9, <1>10 DEF IInv

LEMMA NextWrite ==
  ASSUME IInv, pc = "commit", NEW w, w = Head(todo)
  PROVE  /\ w \in Writes /\ w \in Rest(Order) /\ w \notin Behind
         /\ todo # <<>> /\ Tail(todo) \in Plans
         /\ Rest(Tail(todo)) \subseteq Rest(Order)
         /\ Rest(Tail(todo)) \intersect {"revision", "mode"} = {}
         /\ Rest(Order) \ Rest(Tail(todo)) = Behind \union {w}
         /\ w \in {"revision", "mode"} => Now = old
<1>1. /\ todo \in Plans /\ todo # <<>> /\ job.kind \in Kinds /\ Rest(todo) \subseteq Rest(Order)
      /\ todo = Order \/ Rest(todo) \intersect {"revision", "mode"} = {}
  BY DEF IInv, Stages, Progress, TypeOK, Jobs
<1>2. /\ w \in Writes /\ Tail(todo) \in Plans /\ Rest(todo) = {w} \union Rest(Tail(todo))
      /\ w \notin Rest(Tail(todo))
  BY <1>1, PlanStep
<1>3. Rest(Tail(todo)) \intersect {"revision", "mode"} = {}
  BY <1>1, <1>2, Orders
<1>4. ASSUME w \in {"revision", "mode"} PROVE Now = old
  <2>1. Behind = {}
    BY <1>1, <1>2, <1>4 DEF Behind
  <2>2. selection = old.selection /\ meta = old.meta /\ doc = old.doc /\ yaml = old.yaml
    BY <2>1 DEF IInv, Progress
  <2>3. old \in Files
    BY DEF IInv, TypeOK
  <2> QED BY <2>2, <2>3 DEF Now, Files
<1> QED BY <1>1, <1>2, <1>3, <1>4 DEF Behind

(* What a command is about, once it writes.                                *)
LEMMA Writers ==
  ASSUME IInv, pc # "idle"
  PROVE  /\ {"meta", "state"} \intersect Rest(Order) # {} => Target \in Profiles
         /\ "yaml" \in Rest(Order) <=> Selects \/ (job.kind = "rules" /\ Active)
         /\ "state" \in Rest(Order) <=> Selects
         /\ "meta" \in Rest(Order) <=> Selects \/ job.kind = "renew"
         /\ Docwise \intersect Rest(Order) # {} <=> job.kind \in {"rules", "mode"}
         /\ "revision" \in Rest(Order) <=> job.kind = "renew"
         /\ job.kind \in {"select", "renew"} => job.doc = old.doc
         /\ Selects => Target \in Profiles /\ job.kind # "rules"
<1>1. job.kind \in Kinds /\ old.selection \in Selections
  BY DEF IInv, TypeOK, Jobs, Files
<1>2. /\ job.kind \in {"select", "renew"} => Target \in Profiles /\ job.doc = old.doc
      /\ job.kind \in {"rules", "mode"} => job.selection = old.selection
  BY DEF IInv, Ordered
<1>3. job.kind = "mode" => (Selects <=> Active) /\ (Active => Target \in Profiles)
  BY <1>1, <1>2 DEF Selects, Active, Target, Selections
<1>4. job.kind = "select" => Selects
  BY DEF Selects
<1>5. job.kind = "rules" => ~Selects
  BY DEF Selects
<1> QED BY <1>1, <1>2, <1>3, <1>4, <1>5, Orders DEF Kinds, Docwise

LEMMA Committing ==
  ASSUME IInv, Commit
  PROVE  IInv'
<1> DEFINE w == Head(todo)
<1>1. /\ pc = "commit" /\ job' = job /\ old' = old /\ core' = core /\ up' = up
      /\ version' = version
  BY DEF Commit
<1>2. PICK outcome \in Outcomes :
        /\ Put(w, outcome, New) /\ Save(w, outcome)
        /\ IF outcome # "ok" THEN CommitFails(w, outcome)
           ELSE /\ todo' = Tail(todo)
                /\ IF Tail(todo) = <<>> THEN Committed ELSE UNCHANGED <<pc, answer, hurt, suspect>>
  BY DEF Commit
<1>3. /\ w \in Writes /\ w \in Rest(Order) /\ w \notin Behind /\ todo # <<>>
      /\ Tail(todo) \in Plans /\ Rest(Tail(todo)) \subseteq Rest(Order)
      /\ Rest(Tail(todo)) \intersect {"revision", "mode"} = {}
      /\ Rest(Order) \ Rest(Tail(todo)) = Behind \union {w}
      /\ w \in {"revision", "mode"} => Now = old
  BY <1>1, NextWrite
<1>4. /\ Target' = Target /\ Active' = Active /\ Selects' = Selects /\ Elsewhere' = Elsewhere
      /\ Order' = Order /\ Candidate' = Candidate /\ New' = New /\ Previous' = Previous
  BY <1>1, SameJob
<1>5. /\ job \in Jobs /\ old \in Files /\ job.kind \in Kinds
      /\ Candidate \in Configs /\ New \in Files
      /\ New.selection = job.selection /\ New.doc = job.doc /\ New.yaml = Candidate
      /\ \A p \in Profiles :
           New.meta[p] = IF p = Target THEN job.selection.revision ELSE old.meta[p]
  BY Candidates DEF IInv, TypeOK, Jobs
<1>6. /\ Now' \in Files
      /\ selection' \in {selection, job.selection} /\ (w # "state" => selection' = selection)
      /\ meta' \in {meta, New.meta} /\ (w # "meta" => meta' = meta)
      /\ doc' \in {doc, job.doc} /\ (w \notin Docwise => doc' = doc)
      /\ yaml' \in {yaml, Candidate} /\ (w # "yaml" => yaml' = yaml)
      /\ outcome # "kept" =>
           /\ w = "state" => selection' = job.selection
           /\ w = "meta" => meta' = New.meta
           /\ w \in Docwise => doc' = job.doc
           /\ w = "yaml" => yaml' = Candidate
  BY <1>2, <1>3, <1>5, Written DEF IInv, TypeOK
<1>7. /\ selection = IF "state" \in Behind THEN job.selection ELSE old.selection
      /\ meta = IF "meta" \in Behind THEN New.meta ELSE old.meta
      /\ doc = IF Docwise \intersect Behind # {} THEN job.doc ELSE old.doc
      /\ yaml = IF "yaml" \in Behind THEN Candidate ELSE old.yaml
  BY <1>1 DEF IInv, Progress
<1>8. /\ {"meta", "state"} \intersect Rest(Order) # {} => Target \in Profiles
      /\ "yaml" \in Rest(Order) <=> Selects \/ (job.kind = "rules" /\ Active)
      /\ "state" \in Rest(Order) <=> Selects
      /\ "meta" \in Rest(Order) <=> Selects \/ job.kind = "renew"
      /\ Docwise \intersect Rest(Order) # {} <=> job.kind \in {"rules", "mode"}
      /\ "revision" \in Rest(Order) <=> job.kind = "renew"
      /\ job.kind \in {"select", "renew"} => job.doc = old.doc
      /\ Selects => Target \in Profiles /\ job.kind # "rules"
  BY <1>1, Writers
\* the revisions that are saved
<1>9. /\ saved' \in [Profiles -> SUBSET Revisions]
      /\ \A p \in Profiles : saved[p] \subseteq saved'[p]
      /\ w = "revision" /\ outcome # "kept" => job.selection.revision \in saved'[Target]
  <2>1. saved \in [Profiles -> SUBSET Revisions] /\ job.selection.revision \in Revisions
    BY DEF IInv, TypeOK, Jobs, Selections
  <2>2. w = "revision" => Target \in Profiles
    BY <1>1, <1>3, <1>8 DEF IInv, Ordered
  <2> QED BY <1>2, <2>1, <2>2 DEF Save, Wrote
<1>10. Target \in Profiles /\ {"meta", "state"} \intersect Rest(Order) # {} =>
         (job.kind = "renew" /\ w = "revision") \/ job.selection.revision \in saved[Target]
  <2>1. CASE job.kind = "select"
    BY <1>1, <2>1 DEF IInv, Ordered
  <2>2. CASE job.kind = "renew"
    <3>1. w # "revision" => "revision" \in Behind
      BY <1>3, <1>8, <2>2
    <3> QED BY <1>1, <2>2, <3>1 DEF IInv, Saves
  <2>3. CASE job.kind \in {"rules", "mode"}
    <3>1. job.selection = old.selection /\ AllSaved(old)
      BY <1>1, <2>3 DEF IInv, Ordered, Saves
    <3> QED BY <3>1, ProfilesAssumption DEF AllSaved, Target
  <2> QED BY <1>5, <2>1, <2>2, <2>3 DEF Kinds
<1>11. Saves'
  <2>1. AllSaved(Now) /\ AllSaved(old)
    BY DEF IInv, Saves
  <2>2. \A p \in Profiles : old.meta[p] \in saved[p]
    BY <2>1 DEF AllSaved
  <2>3. \A p \in Profiles : meta'[p] \in saved'[p]
    <3>1. CASE meta' = meta
      BY <1>9, <2>1, <3>1 DEF AllSaved, Now
    <3>2. CASE w = "meta" /\ meta' = New.meta
      BY <1>3, <1>5, <1>8, <1>9, <1>10, <2>2, <3>2
    <3> QED BY <1>6, <3>1, <3>2
  <2>4. selection'.profile # NoProfile => selection'.revision \in saved'[selection'.profile]
    <3>1. CASE selection' = selection
      <4>1. selection.profile \in Profiles \union {NoProfile}
        BY DEF IInv, TypeOK, Now, Files, Selections
      <4> QED BY <1>9, <2>1, <3>1, <4>1 DEF AllSaved, Now
    <3>2. CASE w = "state" /\ selection' = job.selection
      BY <1>3, <1>8, <1>9, <1>10, <3>2 DEF Target
    <3> QED BY <1>6, <3>1, <3>2
  <2>5. AllSaved(Now)'
    BY <2>3, <2>4 DEF AllSaved, Now
  <2>6. AllSaved(old)'
    <3>1. old.selection.profile \in Profiles \union {NoProfile}
      BY <1>5 DEF Files, Selections
    <3> QED BY <1>1, <1>9, <2>1, <3>1 DEF AllSaved
  <2>7. pc' = "commit" /\ "revision" \in Behind' => job'.selection.revision \in saved'[Target']
    <3>1. ASSUME pc' = "commit" PROVE outcome = "ok" /\ Behind' = Behind \union {w}
      BY <1>2, <1>3, <1>4, <3>1 DEF CommitFails, Behind, Rest
    <3>2. "revision" \in Behind => Target \in Profiles /\ job.selection.revision \in saved[Target]
      BY <1>1, <1>8 DEF IInv, Saves, Ordered, Behind
    <3> QED BY <1>1, <1>4, <1>9, <3>1, <3>2 DEF Outcomes
  <2> QED BY <2>5, <2>6, <2>7 DEF Saves
<1>12. Ordered'
  <2>1. \A p \in Profiles : saved[p] \subseteq saved'[p]
    BY <1>9
  <2> QED BY <1>1, <1>4, <1>6, <2>1 DEF IInv, Ordered
<1>13. CASE outcome # "ok"
  <2>1. /\ pc' = "undo" /\ todo' = Restores(w) /\ suspect' = suspect
        /\ answer' = IF w = "mode" /\ outcome = "leftover" THEN "halfway" ELSE "failed"
        /\ hurt' = (hurt \/ answer' = "halfway")
    BY <1>2, <1>13 DEF CommitFails
  <2>2. Selects => job.kind # "mode" \/ Active
    BY DEF Selects
  <2>3. /\ Restores(w) \in Plans
        /\ w \notin {"revision", "mode"} =>
             /\ Rest(Order) \intersect {"state", "meta", "yaml"} \subseteq Rest(Restores(w))
             /\ Docwise \intersect Rest(Order) # {} => Docwise \intersect Rest(Restores(w)) # {}
    BY <1>3, <1>5, <2>2, Restorations
  <2>4. TypeOK'
    BY <1>1, <1>6, <1>9, <2>1, <2>3, PlansAreSequences DEF IInv, TypeOK, Phases
  <2>5. Stages'
    BY <1>1, <2>1, <2>3 DEF IInv, Stages
  <2>6. Progress' /\ Untouched' /\ Answered'
    BY <2>1 DEF Progress, Untouched, Answered
  <2>7. Regress'
    <3>1. Rest(todo)' = Rest(Restores(w))
      BY <2>1 DEF Rest
    <3>2. CASE w \in {"revision", "mode"}
      <4>1. selection = old.selection /\ meta = old.meta /\ doc = old.doc /\ yaml = old.yaml
        BY <1>3, <3>2 DEF Now
      <4>2. selection' = selection /\ meta' = meta /\ yaml' = yaml
        BY <1>6, <3>2
      <4>3. answer' = "failed" => doc' = doc
        <5>1. CASE w = "revision"
          BY <1>6, <5>1 DEF Docwise
        <5>2. CASE w = "mode"
          BY <1>2, <1>13, <2>1, <5>2 DEF Put, Wrote, Outcomes
        <5> QED BY <3>2, <5>1, <5>2
      <4> QED BY <1>1, <4>1, <4>2, <4>3 DEF Regress
    <3>3. CASE w \notin {"revision", "mode"}
      <4>1. Behind \subseteq Rest(Order)
        BY DEF Behind
      <4>2. "state" \in Rest(Restores(w)) \/ selection' = old.selection
        BY <1>3, <1>6, <1>7, <2>3, <3>3, <4>1
      <4>3. "meta" \in Rest(Restores(w)) \/ meta' = old.meta
        BY <1>3, <1>6, <1>7, <2>3, <3>3, <4>1
      <4>4. "yaml" \in Rest(Restores(w)) \/ yaml' = old.yaml
        BY <1>3, <1>6, <1>7, <2>3, <3>3, <4>1
      <4>5. Docwise \intersect Rest(Restores(w)) # {} \/ doc' = old.doc
        <5>1. CASE Docwise \intersect Rest(Order) = {}
          BY <1>3, <1>6, <1>7, <4>1, <5>1
        <5> QED BY <2>3, <3>3, <5>1
      <4> QED BY <1>1, <3>1, <4>2, <4>3, <4>4, <4>5 DEF Regress
    <3> QED BY <3>2, <3>3
  <2>8. Whole'
    BY <1>1, <2>1 DEF IInv, Whole, Matches
  <2>9. Loaded'
    BY <1>1, <1>4, <2>1 DEF IInv, Loaded, Running
  <2> QED BY <1>11, <1>12, <2>4, <2>5, <2>6, <2>7, <2>8, <2>9 DEF IInv
<1>14. ASSUME outcome = "ok"
       PROVE  /\ todo' = Tail(todo)
              /\ Rest(todo)' = Rest(Tail(todo)) /\ Behind' = Behind \union {w}
              /\ selection' = IF "state" \in Behind' THEN job.selection ELSE old.selection
              /\ meta' = IF "meta" \in Behind' THEN New.meta ELSE old.meta
              /\ doc' = IF Docwise \intersect Behind' # {} THEN job.doc ELSE old.doc
              /\ yaml' = IF "yaml" \in Behind' THEN Candidate ELSE old.yaml
  <2>1. todo' = Tail(todo)
    BY <1>2, <1>14
  <2>2. Rest(todo)' = Rest(Tail(todo)) /\ Behind' = Behind \union {w}
    BY <1>3, <1>4, <2>1 DEF Behind, Rest
  <2>3. selection' = IF "state" \in Behind' THEN job.selection ELSE old.selection
    BY <1>6, <1>7, <1>14, <2>2
  <2>4. meta' = IF "meta" \in Behind' THEN New.meta ELSE old.meta
    BY <1>6, <1>7, <1>14, <2>2
  <2>5. doc' = IF Docwise \intersect Behind' # {} THEN job.doc ELSE old.doc
    BY <1>6, <1>7, <1>14, <2>2
  <2>6. yaml' = IF "yaml" \in Behind' THEN Candidate ELSE old.yaml
    BY <1>6, <1>7, <1>14, <2>2
  <2> QED BY <2>1, <2>2, <2>3, <2>4, <2>5, <2>6
<1>15. CASE outcome = "ok" /\ Tail(todo) # <<>>
  <2>1. pc' = pc /\ answer' = answer /\ hurt' = hurt /\ suspect' = suspect /\ todo' = Tail(todo)
    BY <1>2, <1>15
  <2>2. TypeOK'
    BY <1>1, <1>3, <1>6, <1>9, <2>1, PlansAreSequences DEF IInv, TypeOK
  <2>3. Stages'
    BY <1>1, <1>3, <1>15, <2>1 DEF IInv, Stages
  <2>4. Regress' /\ Untouched' /\ Answered'
    BY <1>1, <2>1 DEF IInv, Stages, Regress, Untouched, Answered
  <2>5. Progress'
    BY <1>1, <1>3, <1>4, <1>14, <1>15 DEF Progress
  <2>6. Whole'
    BY <1>1, <2>1 DEF IInv, Whole, Matches
  <2>7. Loaded'
    BY <1>1, <1>4, <2>1 DEF IInv, Loaded, Running
  <2> QED BY <1>11, <1>12, <2>2, <2>3, <2>4, <2>5, <2>6, <2>7 DEF IInv
<1>16. CASE outcome = "ok" /\ Tail(todo) = <<>>
  <2>1. /\ pc' = "idle" /\ answer' = "ok" /\ todo' = <<>>
        /\ hurt' = (hurt /\ ~Selects) /\ suspect' = (suspect /\ ~job.reload)
    BY <1>2, <1>16 DEF Committed
  <2>2. Behind' = Rest(Order)
    BY <1>4, <2>1, Plan0 DEF Behind, Rest
  <2>3. /\ selection' = IF Selects THEN job.selection ELSE old.selection
        /\ meta' = IF Selects \/ job.kind = "renew" THEN New.meta ELSE old.meta
        /\ doc' = job.doc \/ (job.kind \notin {"rules", "mode"} /\ doc' = old.doc)
        /\ yaml' = IF Selects \/ (job.kind = "rules" /\ Active) THEN Candidate ELSE old.yaml
    BY <1>8, <1>14, <1>16, <2>2
  <2>4. doc' = job.doc
    BY <1>5, <1>8, <2>3 DEF Kinds
  <2>5. /\ Active => old.selection.profile \in Profiles
        /\ job.reload => Active /\ (job.kind = "renew" => Target = old.selection.profile)
        /\ Running => Active /\ (job.reload \/ Elsewhere)
        /\ job.reload => core \in {Candidate, NoConfig}
        /\ ~job.reload /\ Running /\ ~hurt /\ ~suspect => core = Previous
    BY <1>1, <1>5 DEF IInv, Ordered, Loaded, Active, Files, Selections
  <2>6. Selects => Effective' = Candidate
    <3>1. SUFFICES ASSUME Selects PROVE Effective' = Candidate
      OBVIOUS
    <3>2. /\ selection' = job.selection /\ Target \in Profiles /\ job.kind # "rules"
          /\ meta'[Target] = job.selection.revision
      BY <1>5, <1>8, <2>3, <3>1
    <3> QED BY <2>4, <3>2, ProfilesAssumption
        DEF Effective, EffectiveOf, Now, Built, Candidate, Target
  <2>7. job.kind = "rules" /\ Active => Effective' = Candidate
    <3>1. SUFFICES ASSUME job.kind = "rules", Active PROVE Effective' = Candidate
      OBVIOUS
    <3>2. ~Selects
      BY <3>1 DEF Selects
    <3>3. selection' = old.selection /\ meta' = old.meta
      BY <2>3, <3>1, <3>2
    <3> QED BY <1>5, <2>4, <3>1, <3>3 DEF Effective, EffectiveOf, Now, Built, Candidate, Files
  <2>8. Elsewhere => ~Selects /\ job.kind = "renew" /\ Effective' = Previous
    <3>1. SUFFICES ASSUME Elsewhere PROVE ~Selects /\ job.kind = "renew" /\ Effective' = Previous
      OBVIOUS
    <3>2. job.kind = "renew" /\ Active /\ Target # old.selection.profile /\ ~Selects
      BY <3>1 DEF Elsewhere, Selects
    <3>3. /\ selection' = old.selection /\ doc' = old.doc
          /\ meta'[old.selection.profile] = old.meta[old.selection.profile]
      BY <1>5, <1>8, <2>3, <2>4, <2>5, <3>2
    <3> QED BY <3>2, <3>3 DEF Effective, Previous, EffectiveOf, Now, Built
  <2>9. job.reload => Selects \/ (job.kind = "rules" /\ Active)
    BY <1>1, <1>5, <2>5 DEF Selects, Kinds, IInv, Ordered, Target
  <2>10. TypeOK'
    BY <1>1, <1>3, <1>6, <1>9, <1>16, <2>1, PlansAreSequences DEF IInv, TypeOK, Phases
  <2>11. Stages'
    BY <1>1, <1>3, <1>16, <2>1 DEF IInv, Stages
  <2>12. Progress' /\ Regress' /\ Untouched'
    BY <2>1 DEF Progress, Regress, Untouched
  <2>13. Whole'
    <3>1. SUFFICES ASSUME hurt' = FALSE PROVE Matches(Now)'
      BY <2>1 DEF Whole, IInv, TypeOK
    <3>2. CASE Selects
      BY <1>5, <1>8, <2>3, <3>2 DEF Matches, Now, Target
    <3>3. CASE ~Selects
      <4>1. Matches(old) /\ selection' = old.selection
        BY <1>1, <2>1, <2>3, <3>1, <3>3 DEF IInv, Whole
      <4>2. Active => meta'[old.selection.profile] = old.meta[old.selection.profile]
        BY <1>5, <2>3, <2>5, <3>3 DEF Selects
      <4> QED BY <4>1, <4>2 DEF Matches, Now, Active
    <3> QED BY <3>2, <3>3
  <2>14. Answered'
    <3>1. Selects \/ (job.kind = "rules" /\ Active) =>
            Effective' = Candidate /\ yaml' = Candidate /\ core' \in {Candidate, NoConfig}
      BY <1>1, <2>3, <2>5, <2>6, <2>7, <2>8 DEF Running
    <3>2. job.kind = "renew" => meta'[Target] = job.selection.revision
      BY <1>1, <1>5, <2>3 DEF IInv, Ordered
    <3> QED BY <1>1, <1>4, <2>1, <3>1, <3>2 DEF Answered
  <2>15. Loaded'
    <3>1. Running' = Running
      BY <1>1 DEF Running
    <3>2. Running => selection'.profile # NoProfile
      BY <1>8, <2>3, <2>5, ProfilesAssumption DEF Active, Target
    <3>3. Running /\ ~hurt' /\ ~suspect' => core = Effective'
      BY <2>1, <2>5, <2>6, <2>7, <2>8, <2>9 DEF Running
    <3> QED BY <1>1, <2>1, <3>1, <3>2, <3>3 DEF Loaded
  <2> QED BY <1>11, <1>12, <2>10, <2>11, <2>12, <2>13, <2>14, <2>15 DEF IInv
<1> QED BY <1>13, <1>15, <1>16 DEF Outcomes

LEMMA Undoing ==
  ASSUME IInv, Undo
  PROVE  IInv'
<1> DEFINE w == Head(todo)
<1>1. /\ pc = "undo" /\ pc' = pc /\ todo # <<>> /\ job' = job /\ old' = old /\ core' = core
      /\ up' = up /\ version' = version /\ saved' = saved /\ suspect' = suspect
  BY DEF Undo
<1>2. PICK outcome \in Outcomes :
        /\ Put(w, outcome, old) /\ todo' = Tail(todo)
        /\ answer' = IF outcome = "ok" THEN answer ELSE "damaged"
        /\ hurt' = (hurt \/ outcome # "ok")
  BY DEF Undo
<1>3. /\ w \in Writes /\ Tail(todo) \in Plans
      /\ Rest(todo) = {w} \union Rest(Tail(todo)) /\ w \notin Rest(Tail(todo))
      /\ Rest(todo)' = Rest(Tail(todo))
  BY <1>1, <1>2, PlanStep DEF IInv, Stages, Rest
<1>4. /\ Target' = Target /\ Active' = Active /\ Selects' = Selects /\ Elsewhere' = Elsewhere
      /\ Candidate' = Candidate /\ Previous' = Previous
  BY <1>1, SameJob
<1>5. old \in Files /\ Now \in Files
  BY DEF IInv, TypeOK
<1>6. /\ Now' \in Files
      /\ selection' \in {selection, old.selection} /\ (w # "state" => selection' = selection)
      /\ meta' \in {meta, old.meta} /\ (w # "meta" => meta' = meta)
      /\ doc' \in {doc, old.doc} /\ (w \notin Docwise => doc' = doc)
      /\ yaml' \in {yaml, old.yaml} /\ (w # "yaml" => yaml' = yaml)
      /\ outcome # "kept" =>
           /\ w = "state" => selection' = old.selection
           /\ w = "meta" => meta' = old.meta
           /\ w \in Docwise => doc' = old.doc
           /\ w = "yaml" => yaml' = old.yaml
  BY <1>2, <1>3, <1>5, Written
<1>7. TypeOK'
  BY <1>1, <1>2, <1>3, <1>6, PlansAreSequences DEF IInv, TypeOK
<1>8. Stages'
  BY <1>1, <1>2, <1>3 DEF IInv, Stages
<1>9. Progress' /\ Untouched' /\ Answered'
  BY <1>1, <1>2 DEF IInv, Stages, Progress, Untouched, Answered
<1>10. Ordered'
  BY <1>1, <1>4, <1>6 DEF IInv, Ordered
<1>11. Saves'
  <2>1. AllSaved(Now) /\ AllSaved(old)
    BY DEF IInv, Saves
  <2>2. AllSaved(Now)' /\ AllSaved(old)'
    BY <1>1, <1>6, <2>1 DEF AllSaved, Now
  <2> QED BY <1>1, <2>2 DEF Saves
<1>12. Regress'
  <2>1. SUFFICES ASSUME answer' = "failed" PROVE Regress'
    BY DEF Regress
  <2>2. /\ outcome = "ok"
        /\ "state" \in Rest(todo) \/ selection = old.selection
        /\ "meta" \in Rest(todo) \/ meta = old.meta
        /\ Docwise \intersect Rest(todo) # {} \/ doc = old.doc
        /\ "yaml" \in Rest(todo) \/ yaml = old.yaml
    BY <1>1, <1>2, <2>1 DEF IInv, Regress
  <2>3. /\ "state" \in Rest(Tail(todo)) \/ selection' = old.selection
        /\ "meta" \in Rest(Tail(todo)) \/ meta' = old.meta
        /\ "yaml" \in Rest(Tail(todo)) \/ yaml' = old.yaml
    BY <1>3, <1>6, <2>2
  <2>4. Docwise \intersect Rest(Tail(todo)) # {} \/ doc' = old.doc
    BY <1>3, <1>6, <2>2
  <2> QED BY <1>1, <1>3, <2>3, <2>4 DEF Regress
<1>13. Whole'
  BY <1>1, <1>2 DEF IInv, Whole, Matches
<1>14. Loaded'
  BY <1>1, <1>2, <1>4 DEF IInv, Loaded, Running
<1> QED BY <1>7, <1>8, <1>9, <1>10, <1>11, <1>12, <1>13, <1>14 DEF IInv

LEMMA UndoDone ==
  ASSUME IInv, Undone
  PROVE  IInv'
<1>1. /\ pc = "undo" /\ todo = <<>> /\ todo' = <<>> /\ UNCHANGED files /\ job' = job /\ old' = old
      /\ saved' = saved /\ core' = core /\ up' = up /\ version' = version /\ answer' = answer
      /\ hurt' = hurt /\ suspect' = suspect /\ answer \in {"failed", "halfway", "damaged"}
      /\ pc' = IF job.reload THEN "restore" ELSE "idle"
  BY DEF Undone, IInv, Stages
<1>2. /\ Now' = Now /\ Effective' = Effective
      /\ selection' = selection /\ meta' = meta /\ doc' = doc /\ yaml' = yaml
      /\ Previous' = Previous /\ Active' = Active /\ Elsewhere' = Elsewhere /\ Target' = Target
      /\ Candidate' = Candidate /\ Selects' = Selects
  BY <1>1, SameFiles, SameJob
<1>3. answer = "failed" => Now = old
  <2>1. SUFFICES ASSUME answer = "failed" PROVE Now = old
    OBVIOUS
  <2>2. selection = old.selection /\ meta = old.meta /\ doc = old.doc /\ yaml = old.yaml
    BY <1>1, <2>1, Plan0 DEF IInv, Regress
  <2> QED BY <2>2 DEF IInv, TypeOK, Now, Files
<1>4. ~hurt => answer = "failed" /\ Matches(old)
  BY <1>1 DEF IInv, Stages, Whole
<1>5. TypeOK'
  BY <1>1, <1>2 DEF IInv, TypeOK, Phases
<1>6. Stages' /\ Progress' /\ Regress' /\ Untouched' /\ Answered'
  BY <1>1, <1>2, <1>3 DEF IInv, Stages, Progress, Regress, Untouched, Answered
<1>7. Ordered' /\ Saves'
  BY <1>1, <1>2 DEF IInv, Ordered, Saves, AllSaved
<1>8. Whole'
  BY <1>1, <1>2, <1>3, <1>4 DEF Whole, Matches
<1>9. Loaded'
  <2>1. Now = old => Effective = Previous
    BY DEF Effective, Previous
  <2>2. Running => selection.profile # NoProfile
    BY <1>1, ProfilesAssumption DEF IInv, Loaded, Ordered, Active, Elsewhere, Target, TypeOK, Jobs, Kinds
  <2> QED BY <1>1, <1>2, <1>3, <1>4, <2>1, <2>2 DEF IInv, Loaded, Running
<1> QED BY <1>5, <1>6, <1>7, <1>8, <1>9 DEF IInv

LEMMA Restored ==
  ASSUME IInv, Restore
  PROVE  IInv'
<1>1. /\ pc = "restore" /\ pc' = "idle" /\ todo = <<>> /\ todo' = <<>> /\ UNCHANGED files
      /\ job' = job /\ old' = old /\ saved' = saved /\ up' = up /\ version' = version
      /\ hurt' = hurt /\ answer \in {"failed", "halfway", "damaged"} /\ job.reload
      /\ \/ Running /\ core' = Previous /\ answer' = answer /\ suspect' = suspect
         \/ /\ core' \in IF Running THEN {core, Previous} ELSE {core}
            /\ answer' = "rollback" /\ suspect' = Running
  BY DEF Restore, IInv, Stages
<1>2. /\ Now' = Now /\ Effective' = Effective
      /\ selection' = selection /\ meta' = meta /\ doc' = doc /\ yaml' = yaml
      /\ Previous' = Previous /\ Active' = Active /\ Elsewhere' = Elsewhere /\ Target' = Target
      /\ Candidate' = Candidate /\ Selects' = Selects
  BY <1>1, SameFiles, SameJob
<1>3. ~hurt => Now = old /\ Matches(old)
  BY <1>1 DEF IInv, Stages, Untouched, Whole
<1>4. TypeOK'
  <2>1. Previous \in Configs
    BY Building DEF IInv, TypeOK, Previous
  <2>2. core' \in Configs /\ suspect' \in BOOLEAN
    BY <1>1, <2>1 DEF IInv, TypeOK, Running
  <2> QED BY <1>1, <1>2, <2>2 DEF IInv, TypeOK, Phases
<1>5. Stages' /\ Progress' /\ Regress' /\ Untouched' /\ Answered'
  BY <1>1, <1>2 DEF IInv, Stages, Progress, Regress, Untouched, Answered
<1>6. Ordered' /\ Saves'
  BY <1>1, <1>2 DEF IInv, Ordered, Saves, AllSaved
<1>7. Whole'
  BY <1>1, <1>2, <1>3 DEF Whole, Matches
<1>8. Loaded'
  <2>1. Now = old => Effective = Previous
    BY DEF Effective, Previous
  <2>2. Active /\ job.kind \in Kinds /\ selection \in {old.selection, job.selection}
    BY <1>1 DEF IInv, Ordered, TypeOK, Jobs
  <2>3. selection.profile # NoProfile
    BY <1>1, <2>2, ProfilesAssumption DEF IInv, Ordered, Active, Target, Kinds
  <2>4. Running' /\ ~hurt' /\ ~suspect' => core' = Effective'
    BY <1>1, <1>2, <1>3, <2>1 DEF Running
  <2> QED BY <1>1, <1>2, <2>3, <2>4 DEF Loaded
<1> QED BY <1>4, <1>5, <1>6, <1>7, <1>8 DEF IInv

LEMMA Sessions ==
  ASSUME IInv, Start \/ Stop \/ Launch
  PROVE  IInv'
<1>1. /\ pc = "idle" /\ pc' = "idle" /\ UNCHANGED files /\ job' = job /\ old' = old
      /\ todo' = todo /\ saved' = saved /\ version' = version /\ hurt' = hurt
      /\ suspect' \in BOOLEAN /\ up' = TRUE /\ answer' \in {answer, "none"}
      /\ \/ core' = Effective /\ selection.profile # NoProfile /\ answer' = "none"
         \/ core' = NoConfig
         \/ core' = core /\ suspect' = suspect /\ answer' = answer /\ ~up
  BY DEF Start, Stop, Launch, Idle, CoreEnds, IInv, Stages, TypeOK
<1>2. /\ Now' = Now /\ Effective' = Effective
      /\ selection' = selection /\ meta' = meta /\ doc' = doc /\ yaml' = yaml
      /\ Previous' = Previous /\ Active' = Active /\ Elsewhere' = Elsewhere /\ Target' = Target
      /\ Candidate' = Candidate /\ Selects' = Selects
  BY <1>1, SameFiles, SameJob
<1>3. TypeOK'
  <2>1. Effective \in Configs
    BY Building DEF IInv, TypeOK, Effective
  <2>2. NoConfig \in Configs
    BY MaxVersionAssumption DEF NoConfig, Configs, Versions
  <2> QED BY <1>1, <1>2, <2>1, <2>2 DEF IInv, TypeOK
<1>4. Stages' /\ Progress' /\ Regress' /\ Untouched' /\ Answered'
  BY <1>1, <1>2 DEF IInv, Stages, Progress, Regress, Untouched, Answered
<1>5. Ordered' /\ Saves'
  BY <1>1, <1>2 DEF IInv, Ordered, Saves, AllSaved
<1>6. Whole'
  BY <1>1, <1>2 DEF IInv, Whole, Matches
<1>7. Loaded'
  BY <1>1, <1>2 DEF IInv, Loaded, Running
<1> QED BY <1>3, <1>4, <1>5, <1>6, <1>7 DEF IInv

LEMMA Deaths ==
  ASSUME IInv, CoreDies \/ Crash
  PROVE  IInv'
<1>1. NoConfig \in Configs
  BY MaxVersionAssumption DEF NoConfig, Configs, Versions
<1>2. CASE CoreDies
  <2>1. /\ UNCHANGED files /\ job' = job /\ old' = old /\ pc' = pc /\ todo' = todo /\ saved' = saved
        /\ up' = up /\ version' = version /\ hurt' = hurt /\ answer' = answer
        /\ suspect' = FALSE /\ core' = NoConfig
    BY <1>2 DEF CoreDies, CoreEnds
  <2>2. /\ Now' = Now /\ Effective' = Effective
        /\ selection' = selection /\ meta' = meta /\ doc' = doc /\ yaml' = yaml
        /\ Previous' = Previous /\ Active' = Active /\ Elsewhere' = Elsewhere /\ Target' = Target
        /\ Candidate' = Candidate /\ Selects' = Selects /\ Order' = Order /\ New' = New
    BY <2>1, SameFiles, SameJob
  <2>3. Rest(todo)' = Rest(todo) /\ Behind' = Behind
    BY <2>1, <2>2 DEF Behind, Rest
  <2>4. TypeOK'
    BY <1>1, <2>1, <2>2 DEF IInv, TypeOK
  <2>5. Stages' /\ Untouched' /\ Answered'
    BY <2>1, <2>2 DEF IInv, Stages, Untouched, Answered
  <2>6. Progress' /\ Regress'
    BY <2>1, <2>2, <2>3 DEF IInv, Progress, Regress
  <2>7. Ordered' /\ Saves'
    BY <2>1, <2>2, <2>3 DEF IInv, Ordered, Saves, AllSaved
  <2>8. Whole'
    BY <2>1, <2>2 DEF IInv, Whole, Matches
  <2>9. Loaded'
    BY <2>1, <2>2 DEF Loaded, Running
  <2> QED BY <2>4, <2>5, <2>6, <2>7, <2>8, <2>9 DEF IInv
<1>3. CASE Crash
  <2>1. /\ UNCHANGED files /\ job' = NoJob /\ old' = old /\ pc' = "idle" /\ todo' = <<>>
        /\ saved' = saved /\ up' = FALSE /\ version' = version /\ answer' = "none"
        /\ hurt' = (hurt \/ pc \in {"commit", "undo"}) /\ suspect' = FALSE /\ core' = NoConfig
    BY <1>3 DEF Crash, CoreEnds, Fail
  <2>2. /\ Now' = Now
        /\ selection' = selection /\ meta' = meta /\ doc' = doc /\ yaml' = yaml
    BY <2>1, SameFiles
  <2>3. NoJob \in Jobs
    BY MaxVersionAssumption
    DEF Versions, NoRevision, Revisions, NoJob, Jobs, Kinds, NoSelection, Selections, Docs
  <2>4. TypeOK'
    <3>1. todo' \in Seq(Writes)
      BY <2>1
    <3> QED BY <1>1, <2>1, <2>2, <2>3, <3>1 DEF IInv, TypeOK, Phases
  <2>5. Stages' /\ Ordered' /\ Progress' /\ Regress' /\ Untouched' /\ Answered'
    BY <2>1 DEF Stages, Ordered, Progress, Regress, Untouched, Answered, Plans
  <2>6. Saves'
    BY <2>1, <2>2 DEF IInv, Saves, AllSaved
  <2>7. Whole'
    <3>1. ASSUME ~hurt, pc \notin {"idle", "commit", "undo"} PROVE Now = old
      BY <3>1 DEF IInv, TypeOK, Phases, Stages, Untouched
    <3>2. ~hurt' => Matches(Now)
      BY <2>1, <3>1 DEF IInv, Whole
    <3> QED BY <2>1, <2>2, <3>2 DEF Whole, Matches
  <2>8. Loaded'
    BY <2>1 DEF Loaded, Running
  <2> QED BY <2>4, <2>5, <2>6, <2>7, <2>8 DEF IInv
<1> QED BY <1>2, <1>3

LEMMA Stuttering ==
  ASSUME IInv, UNCHANGED vars
  PROVE  IInv'
<1>1. /\ UNCHANGED files /\ job' = job /\ old' = old /\ pc' = pc /\ todo' = todo /\ saved' = saved
      /\ up' = up /\ version' = version /\ hurt' = hurt /\ answer' = answer
      /\ suspect' = suspect /\ core' = core
  BY DEF vars
<1>2. /\ Now' = Now /\ Effective' = Effective
      /\ selection' = selection /\ meta' = meta /\ doc' = doc /\ yaml' = yaml
      /\ Previous' = Previous /\ Active' = Active /\ Elsewhere' = Elsewhere /\ Target' = Target
      /\ Candidate' = Candidate /\ Selects' = Selects /\ Order' = Order /\ New' = New
  BY <1>1, SameFiles, SameJob
<1>3. Rest(todo)' = Rest(todo) /\ Behind' = Behind
  BY <1>1, <1>2 DEF Behind, Rest
<1>4. TypeOK'
  BY <1>1, <1>2 DEF IInv, TypeOK
<1>5. Stages' /\ Untouched' /\ Answered' /\ Progress' /\ Regress'
  BY <1>1, <1>2, <1>3 DEF IInv, Stages, Untouched, Answered, Progress, Regress
<1>6. Ordered' /\ Saves' /\ Whole'
  BY <1>1, <1>2, <1>3 DEF IInv, Ordered, Saves, AllSaved, Whole, Matches
<1>7. Loaded'
  BY <1>1, <1>2 DEF IInv, Loaded, Running
<1> QED BY <1>4, <1>5, <1>6, <1>7 DEF IInv

-----------------------------------------------------------------------------
(* The theorems.                                                           *)

(* The strengthened invariant holds in every state, for any profiles and   *)
(* versions (the transactions of user_rules.rs and their callers).         *)
THEOREM Inductive == Spec => []IInv
<1>1. ASSUME IInv, [Next]_vars PROVE IInv'
  <2>1. CASE Command
    BY <1>1, <2>1, Commands, Sessions DEF Command
  <2>2. CASE Transaction
    BY <1>1, <2>2, Validated, LoadDone, Checked, Committing, Undoing, UndoDone, Restored DEF Transaction
  <2>3. CASE CoreDies \/ Crash
    BY <1>1, <2>3, Deaths
  <2>4. CASE Launch
    BY <1>1, <2>4, Sessions
  <2>5. CASE UNCHANGED vars
    BY <1>1, <2>5, Stuttering
  <2> QED BY <1>1, <2>1, <2>2, <2>3, <2>4, <2>5 DEF Next
<1> QED BY <1>1, Initially, PTL DEF Spec

(* Every variable keeps its type.                                          *)
THEOREM TypeCorrect == Spec => []TypeOK
<1>1. IInv => TypeOK
  BY DEF IInv
<1> QED BY <1>1, Inductive, PTL

(* What the files name has been saved, after any failure and any crash     *)
(* (select_revision, save_revision).                                       *)
THEOREM WholeSelection == Spec => []SelectionIsWhole
<1>1. IInv => SelectionIsWhole
  <2>1. SUFFICES ASSUME IInv PROVE SelectionIsWhole
    OBVIOUS
  <2>2. AllSaved(Now)
    BY <2>1 DEF IInv, Saves
  <2>3. pc = "idle" /\ ~hurt => Matches(Now)
    BY <2>1 DEF IInv, Whole
  <2> QED BY <2>2, <2>3 DEF SelectionIsWhole, AllSaved, Matches, Now
<1> QED BY <1>1, Inductive, PTL

(* Between two commands the core runs what the files select, whatever has  *)
(* failed (transact, restore_after_failure).                               *)
THEOREM SelectionRuns == Spec => []CoreRunsSelection
<1>1. IInv => CoreRunsSelection
  BY DEF IInv, Loaded, CoreRunsSelection
<1> QED BY <1>1, Inductive, PTL

(* What a command answers is so (the callers of transact).                 *)
THEOREM TrueAnswers == Spec => []AnswersAreTrue
<1>1. IInv => AnswersAreTrue
  BY DEF IInv, Answered, Untouched, AnswersAreTrue
<1> QED BY <1>1, Inductive, PTL
=============================================================================
