------------------------- MODULE RecipeForm_proofs -------------------------
(***************************************************************************)
(* The recipes page, for any templates and any jobs to begin with, any     *)
(* number of edits, submissions and failing requests.                      *)
(***************************************************************************)
EXTENDS MCRecipeForm, TLAPS

-----------------------------------------------------------------------------
(* Configs.  Whatever is loaded, stripped, resolved, stored or edited, a    *)
(* config is a value for each field, and only its prompt may be a reference. *)

Sound(c) == c \in [Fields -> Values] /\ \A f \in Fields \ {"prompt"} : ~IsRef(c[f])

LEMMA RefsAre == /\ \A v : IsRef(v) <=> v = "ref" \/ v = "newref"
                 /\ Refs["ref"] = "old" /\ Refs["newref"] = "new"
  BY DEF IsRef, Refs

LEMMA StripIsSound == ASSUME NEW c, Sound(c) PROVE Sound(StripPlaceholders(c))
<1>1. \A f \in Fields : StripPlaceholders(c)[f] = IF c[f] = "hint" THEN "empty" ELSE c[f]
  BY DEF StripPlaceholders
<1>2. StripPlaceholders(c) \in [Fields -> Values]
  BY DEF Sound, StripPlaceholders, Values
<1>3. \A f \in Fields \ {"prompt"} : ~IsRef(StripPlaceholders(c)[f])
  BY <1>1, RefsAre DEF Sound
<1> QED
  BY <1>2, <1>3 DEF Sound

LEMMA ResolveIsSound == ASSUME NEW c, Sound(c) PROVE Sound(ResolvePromptRefs(c))
<1>1. \A f \in Fields :
        ResolvePromptRefs(c)[f] = IF IsRef(c[f]) THEN Refs[c[f]] ELSE c[f]
  BY DEF ResolvePromptRefs
<1>2. \A f \in Fields : IsRef(c[f]) => Refs[c[f]] \in Values
  BY RefsAre DEF Values
<1>3. ResolvePromptRefs(c) \in [Fields -> Values]
  BY <1>2 DEF Sound, ResolvePromptRefs
<1>4. \A f \in Fields \ {"prompt"} : ~IsRef(ResolvePromptRefs(c)[f])
  BY <1>1 DEF Sound
<1> QED
  BY <1>3, <1>4 DEF Sound

LEMMA RefifiedIsSound == ASSUME NEW c, Sound(c) PROVE Sound(Refified(c))
<1> DEFINE kept == {r \in DOMAIN Refs : Refs[r] = c["prompt"]}
           k    == CHOOSE r \in kept : TRUE
<1>1. CASE kept = {}
  BY <1>1 DEF Refified
<1>2. CASE kept # {}
  <2>1. k \in kept
    BY <1>2
  <2>2. k \in Values
    <3>1. IsRef(k)
      BY <2>1 DEF IsRef
    <3> QED
      BY <3>1, RefsAre DEF Values
  <2>3. Refified(c) = [c EXCEPT !["prompt"] = k]
    BY <1>2 DEF Refified
  <2> HIDE DEF k, kept
  <2>4. [c EXCEPT !["prompt"] = k] \in [Fields -> Values]
    BY <2>2 DEF Sound
  <2>5. \A f \in Fields \ {"prompt"} : ~IsRef([c EXCEPT !["prompt"] = k][f])
    BY DEF Sound
  <2> QED
    BY <2>3, <2>4, <2>5 DEF Sound
<1> QED
  BY <1>1, <1>2

(* No editor puts a reference into a field.                                 *)
LEMMA OffersAreTexts ==
  ASSUME NEW c, Sound(c), NEW f \in Fields, NEW v \in Offers(f, c)
  PROVE  v \in Values /\ ~IsRef(v)
<1>1. CASE f \in {"num_records", "num_train_epochs", "low"}
  <2>1. v \in NumberField
    BY <1>1 DEF Offers
  <2> QED
    BY <2>1, RefsAre DEF NumberField, Values
<1>2. CASE f \in {"prompt", "alias", "model_name_or_path"}
  <2>1. v \in TextField
    BY <1>2 DEF Offers
  <2> QED
    BY <2>1, RefsAre DEF TextField, Values
<1>3. CASE f = "weights"
  <2>1. v \in WeightTable
    BY <1>3 DEF Offers
  <2> QED
    BY <2>1, RefsAre DEF WeightTable, Values
<1>4. CASE f = "document_ids"
  <2>1. v \in DocumentPicker
    BY <1>4 DEF Offers
  <2> QED
    BY <2>1, RefsAre DEF DocumentPicker, Values
<1>5. CASE f = "parent_job_id"
  <2>1. v \in DatasetPicker
    BY <1>5 DEF Offers
  <2> QED
    BY <2>1, RefsAre DEF DatasetPicker, Values
<1>6. CASE f = "model_alias"
  <2>1. v \in AliasPicker(c)
    BY <1>6 DEF Offers
  <2>2. v = c["alias"]
    BY <2>1 DEF AliasPicker
  <2>3. "alias" \in Fields \ {"prompt"}
    BY DEF Fields, ModelFields
  <2> QED
    BY <2>2, <2>3 DEF Sound
<1>7. CASE f = "column_type"
  <2>1. v \in ColumnTag
    BY <1>7 DEF Offers
  <2> QED
    BY <2>1, RefsAre DEF ColumnTag, Values
<1>8. CASE f = "algorithm"
  <2>1. v \in AlgorithmField
    BY <1>8 DEF Offers
  <2>2. v \in {"sft", "lora", "empty"}
    BY <2>1 DEF AlgorithmField
  <2> QED
    BY <2>2, RefsAre DEF Values
<1>9. CASE f \in {"columns", "model", "provider"}
  <2>1. v \in {}
    BY <1>9 DEF Offers
  <2> QED
    BY <2>1
<1> QED
  BY <1>1, <1>2, <1>3, <1>4, <1>5, <1>6, <1>7, <1>8, <1>9
  DEF Fields, ColumnFields, ModelFields, Training
-----------------------------------------------------------------------------
(* Every config of the system is sound, and what the panel was opened with  *)
(* requires fields at the top level only.                                   *)

JobsAreSound == \A j \in jobs \union listed : Sound(j.config)
SentAreSound ==
  /\ \A r \in orphans : Sound(r.config)
  /\ request # NoRequest => Sound(request.config)
SelectedIsSound == Sound(selected.config) /\ selected.required \subseteq TopLevel(selected.type)

Clean == JobsAreSound /\ SentAreSound /\ SelectedIsSound /\ Sound(config)

LEMMA BlankIsSound == Sound([f \in Fields |-> "none"])
  BY RefsAre DEF Sound, Values

LEMMA NoPanelIsClean ==
  ASSUME Clean, NoPanel
  PROVE  SentAreSound' /\ Sound(config') /\ edited' = <<>>
<1>1. config' = [f \in Fields |-> "none"] /\ edited' = <<>> /\ request' = NoRequest
  BY DEF NoPanel
<1>2. \A r \in orphans' : Sound(r.config)
  BY DEF NoPanel, Clean, SentAreSound
<1> QED
  BY <1>1, <1>2, BlankIsSound DEF SentAreSound

LEMMA MountIsClean ==
  ASSUME Clean, NEW s, Sound(s.config), Mount(s)
  PROVE  SentAreSound' /\ Sound(config') /\ edited' = <<>>
<1>1. request' = NoRequest /\ orphans' = orphans /\ edited' = <<>>
  BY DEF Mount
<1>2. \/ config' = StripPlaceholders(s.config)
      \/ config' = ResolvePromptRefs(StripPlaceholders(s.config))
  BY DEF Mount
<1>3. Sound(config')
  BY <1>2, StripIsSound, ResolveIsSound
<1> QED
  BY <1>1, <1>3 DEF SentAreSound, Clean

LEMMA RecordedIsClean ==
  ASSUME Clean, NEW r, Sound(r.config), Recorded(r), listed' = listed
  PROVE  JobsAreSound'
<1>1. \/ jobs' = jobs
      \/ jobs' = jobs \union {[id |-> Cardinality(jobs) + 1, type |-> r.type,
                               config |-> Refified(r.config)]}
  BY DEF Recorded
<1>2. Sound(Refified(r.config))
  BY RefifiedIsSound
<1> QED
  BY <1>1, <1>2 DEF Clean, JobsAreSound

(* What the user may open.                                                  *)
LEMMA ChoicesAreSound ==
  ASSUME Clean, NEW s \in Templates \union {FromJob(e) : e \in Entries(listed)}
  PROVE  Sound(s.config) /\ s.required \subseteq TopLevel(s.type)
<1>1. CASE s \in Templates
  BY <1>1, RecipeAssumption DEF Sound, RecipeAssumption
<1>2. CASE s \in {FromJob(e) : e \in Entries(listed)}
  <2>1. PICK e \in Entries(listed) : s = FromJob(e)
    BY <1>2
  <2>2. PICK j \in listed : e.config = j.config
    BY <2>1 DEF Entries
  <2>3. s.config = j.config /\ s.required = {}
    BY <2>1, <2>2 DEF FromJob
  <2> QED
    BY <2>2, <2>3 DEF Clean, JobsAreSound
<1> QED
  BY <1>1, <1>2

(* What an edit does: the fields it writes get texts, and the others stay.  *)
Types(fs) ==
  /\ \A f \in DOMAIN fs : f \in Fields /\ fs[f] \in Values /\ ~IsRef(fs[f])
  /\ config' = [f \in Fields |-> IF f \in DOMAIN fs THEN fs[f] ELSE config[f]]
  /\ Edits(fs)

LEMMA EditsAreTexts ==
  ASSUME Clean, EditField \/ PickModel \/ TypeColumns
  PROVE  \E fs : Types(fs)
<1>0. config \in [Fields -> Values]
  BY DEF Clean, Sound
<1>1. CASE EditField
  <2>0. PICK f \in Shown(config, selected) : \E v \in Offers(f, config) :
          config' = [config EXCEPT ![f] = v] /\ Edits([g \in {f} |-> v])
    BY <1>1 DEF EditField
  <2>1. PICK v \in Offers(f, config) :
          config' = [config EXCEPT ![f] = v] /\ Edits([g \in {f} |-> v])
    BY <2>0
  <2>2. f \in Fields
    BY <2>1 DEF Shown, ShownSdg, ShownTraining, Fields, ColumnFields, ModelFields, Training
  <2>3. v \in Values /\ ~IsRef(v)
    BY <2>2, OffersAreTexts DEF Clean
  <2> DEFINE fs == [g \in {f} |-> v]
  <2>4. DOMAIN fs = {f} /\ fs[f] = v
    OBVIOUS
  <2>5. Edits(fs)
    BY <2>1
  <2> HIDE DEF fs
  <2>6. config' = [g \in Fields |-> IF g \in DOMAIN fs THEN fs[g] ELSE config[g]]
    BY <1>0, <2>1, <2>4
  <2> QED
    BY <2>2, <2>3, <2>4, <2>5, <2>6 DEF Types
<1>2. CASE PickModel
  <2>1. PICK m \in Catalog :
          /\ config' = Picked(config, m)
          /\ Edits([f \in {"model", "provider"} |-> Picked(config, m)[f]])
    BY <1>2 DEF PickModel
  <2> DEFINE fs == [f \in {"model", "provider"} |-> Picked(config, m)[f]]
  <2>2. m[1] \in {"m1", "m2"} /\ m[2] \in {"p1", "p2"}
    BY DEF Catalog
  <2>3. "model" \in Fields /\ "provider" \in Fields
    BY DEF Fields, ModelFields
  <2>4. DOMAIN fs = {"model", "provider"} /\ fs["model"] = m[1] /\ fs["provider"] = m[2]
    BY <1>0, <2>3 DEF Picked
  <2>5. Edits(fs)
    BY <2>1
  <2> HIDE DEF fs
  <2>6. config' = [g \in Fields |-> IF g \in DOMAIN fs THEN fs[g] ELSE config[g]]
    BY <1>0, <2>1, <2>4 DEF Picked
  <2>7. \A f \in DOMAIN fs : f \in Fields /\ fs[f] \in Values /\ ~IsRef(fs[f])
    BY <2>2, <2>3, <2>4, RefsAre DEF Values
  <2> QED
    BY <2>5, <2>6, <2>7 DEF Types
<1>3. CASE TypeColumns
  <2> DEFINE typed == [f \in ColumnFields \union {"columns"} |->
                     CASE f = "columns" -> "new" [] f = "column_type" -> "llm"
                       [] f = "prompt" -> "new" [] f = "model_alias" -> "empty"
                       [] OTHER -> "none"]
  <2>1. /\ config' = [f \in Fields |-> IF f \in DOMAIN typed THEN typed[f] ELSE config[f]]
        /\ Edits(typed)
    BY <1>3 DEF TypeColumns
  <2>2. \A f \in DOMAIN typed : f \in Fields /\ typed[f] \in {"new", "llm", "empty", "none"}
    BY DEF Fields
  <2> HIDE DEF typed
  <2>3. \A f \in DOMAIN typed : typed[f] \in Values /\ ~IsRef(typed[f])
    BY <2>2, RefsAre DEF Values
  <2> QED
    BY <2>1, <2>2, <2>3 DEF Types
<1> QED
  BY <1>1, <1>2, <1>3

LEMMA TypedIsSound == ASSUME Clean, NEW fs, Types(fs) PROVE Sound(config')
<1>1. config' = [f \in Fields |-> IF f \in DOMAIN fs THEN fs[f] ELSE config[f]]
  BY DEF Types
<1>2. config' \in [Fields -> Values]
  BY <1>1 DEF Types, Clean, Sound
<1>3. \A f \in Fields \ {"prompt"} : ~IsRef(config'[f])
  BY <1>1 DEF Types, Clean, Sound
<1> QED
  BY <1>2, <1>3 DEF Sound

LEMMA CleanStep == ASSUME Clean, [Next]_vars PROVE Clean'
<1>1. CASE Select
  <2>1. PICK s \in Templates \union {FromJob(e) : e \in Entries(listed)} :
          selected' = s /\ Mount(s)
    BY <1>1 DEF Select
  <2>2. Sound(s.config) /\ s.required \subseteq TopLevel(s.type)
    BY ChoicesAreSound
  <2>3. SentAreSound' /\ Sound(config')
    BY <2>1, <2>2, MountIsClean
  <2> QED
    BY <1>1, <2>1, <2>2, <2>3 DEF Select, Clean, JobsAreSound, SelectedIsSound
<1>2. ASSUME NoPanel, jobs' = jobs, listed' = listed, selected' \in {selected, NoSelection}
      PROVE  Clean'
  <2>1. SentAreSound' /\ Sound(config')
    BY <1>2, NoPanelIsClean
  <2>2. Sound(NoSelection.config) /\ NoSelection.required \subseteq TopLevel(NoSelection.type)
    BY BlankIsSound DEF NoSelection
  <2> QED
    BY <1>2, <2>1, <2>2 DEF Clean, JobsAreSound, SelectedIsSound
<1>3. CASE PromptsArrive
  <2>1. Sound(config')
    BY <1>3, ResolveIsSound DEF PromptsArrive, Hydrated, Clean
  <2> QED
    BY <1>3, <2>1 DEF PromptsArrive, Clean, JobsAreSound, SentAreSound, SelectedIsSound
<1>4. CASE ListArrives
  <2>1. JobsAreSound' /\ SelectedIsSound'
    BY <1>4 DEF ListArrives, Clean, JobsAreSound, SelectedIsSound
  <2>2. SentAreSound' /\ Sound(config')
    <3>1. CASE page = "error"
      BY <1>4, <3>1, MountIsClean DEF ListArrives, Clean, SelectedIsSound
    <3>2. CASE page # "error"
      BY <1>4, <3>2 DEF ListArrives, panel, Clean, SentAreSound
    <3> QED
      BY <3>1, <3>2
  <2> QED
    BY <2>1, <2>2 DEF Clean
<1>5. CASE EditField \/ PickModel \/ TypeColumns
  <2>1. PICK fs : Types(fs)
    BY <1>5, EditsAreTexts
  <2>2. Sound(config')
    BY <2>1, TypedIsSound
  <2> QED
    BY <2>1, <2>2
    DEF Types, Edits, Clean, JobsAreSound, SentAreSound, SelectedIsSound
<1>6. CASE SubmitJob
  <2>1. request'.config = config /\ orphans' \subseteq orphans \union {request}
    BY <1>6 DEF SubmitJob
  <2>2. request = NoRequest /\ orphans' = orphans
    BY <1>6 DEF SubmitJob, Idle
  <2>3. SentAreSound'
    BY <2>1, <2>2 DEF SentAreSound, Clean
  <2> QED
    BY <1>6, <2>3 DEF SubmitJob, Clean, JobsAreSound, SelectedIsSound
<1>7. CASE JobCreated \/ JobRefused
  <2>1. JobsAreSound'
    BY <1>7, RecordedIsClean DEF JobCreated, JobRefused, Clean, SentAreSound
  <2>2. SentAreSound'
    BY <1>7 DEF JobCreated, JobRefused, Clean, SentAreSound
  <2> QED
    BY <1>7, <2>1, <2>2 DEF JobCreated, JobRefused, Clean, SelectedIsSound
<1>8. CASE OrphanEnds
  <2>1. PICK r \in orphans : Recorded(r) /\ orphans' = orphans \ {r}
    BY <1>8 DEF OrphanEnds
  <2>2. JobsAreSound'
    BY <1>8, <2>1, RecordedIsClean DEF OrphanEnds, Clean, SentAreSound
  <2>3. SentAreSound'
    BY <1>8, <2>1 DEF OrphanEnds, panel, Clean, SentAreSound
  <2> QED
    BY <1>8, <2>2, <2>3 DEF OrphanEnds, panel, Clean, SelectedIsSound
<1>9. CASE ComeBack
  BY <1>9 DEF ComeBack, panel, Clean, JobsAreSound, SentAreSound, SelectedIsSound
<1>10. ASSUME UNCHANGED <<jobs, listed, selected, config, request, orphans>> PROVE Clean'
  BY <1>10 DEF Clean, JobsAreSound, SentAreSound, SelectedIsSound
<1>11. CASE Back \/ ListFails \/ TimerFires
  BY <1>2, <1>11 DEF Back, ListFails, TimerFires
<1> QED
  BY <1>1, <1>3, <1>4, <1>5, <1>6, <1>7, <1>8, <1>9, <1>10, <1>11
  DEF Next, SchemasLoad, SchemasRetry, PromptsFail, AskAgain, Execute, CloseDialog,
      ViewJob, vars, panel

LEMMA CleanAlways == Spec => []Clean
<1>1. Init => Clean
  <2> SUFFICES ASSUME Init PROVE Clean
    OBVIOUS
  <2>1. JobsAreSound
    BY RecipeAssumption DEF Init, JobsAreSound, Sound, RecipeAssumption
  <2>2. SelectedIsSound /\ Sound(config)
    BY BlankIsSound DEF Init, SelectedIsSound, NoSelection
  <2> QED
    BY <2>1, <2>2 DEF Init, Clean, SentAreSound
<1> QED
  BY <1>1, CleanStep, PTL DEF Spec

-----------------------------------------------------------------------------
(* A required field is on display while it is empty: the form's walk over   *)
(* the config and the validator's walk over the schema meet in each field,  *)
(* provided what a template requires is at the top level.                   *)
LEMMA MissingIsShown == Clean => MissingHasEditor
<1> SUFFICES ASSUME Clean, NEW f \in RequiredPaths(config, selected), config[f] = "empty"
             PROVE  f \in Shown(config, selected)
  BY DEF MissingHasEditor, MissingRequired
<1>1. \/ f \in selected.required
      \/ schema = "ready" /\ f \in BySchema(config, selected.type)
  BY DEF RequiredPaths
<1>2. f \in selected.required => f \in TopLevel(selected.type)
  BY DEF Clean, SelectedIsSound
<1>3. CASE selected.type = "training"
  <2>1. f \in Training \union {"parent_job_id"}
    BY <1>1, <1>2, <1>3 DEF TopLevel, BySchema, Training
  <2> QED
    BY <1>3, <2>1 DEF Shown, ShownTraining, Training
<1>4. CASE selected.type # "training"
  <2>1. CASE f = "columns"
    <3>1. ShowsList(config, selected)
      BY <2>1 DEF ShowsList
    <3> QED
      BY <1>4, <2>1, <3>1 DEF Shown, ShownSdg
  <2>2. CASE f \in {"num_records", "document_ids"} \union ModelFields
    BY <1>4, <2>2 DEF Shown, ShownSdg
  <2>3. CASE schema = "ready" /\ ~IsEmpty(config["columns"]) /\ f \in Branch[config["column_type"]]
    <3>1. config["column_type"] \in Values
      BY DEF Clean, Sound, Fields, ColumnFields
    <3>2. f \in ColumnFields
      BY <2>3, <3>1 DEF Branch, ColumnFields
    <3> QED
      BY <1>4, <2>3, <3>2 DEF Shown, ShownSdg
  <2> QED
    BY <1>1, <1>2, <1>4, <2>1, <2>2, <2>3 DEF TopLevel, BySchema
<1> QED
  BY <1>3, <1>4

(* Submit is never blocked by an empty field the user can not see.          *)
THEOREM MissingCanBeFilled == Spec => []MissingHasEditor
BY CleanAlways, MissingIsShown, PTL

-----------------------------------------------------------------------------
(* What the user has typed is still there, and no late answer replaces it:  *)
(* the prompts resolve references, and no editor has left one.              *)
TypedStays == \A f \in DOMAIN edited : f \in Fields /\ config[f] = edited[f] /\ ~IsRef(edited[f])

LEMMA FreshIsKept == ASSUME edited' = <<>> PROVE TypedStays'
<1>1. DOMAIN <<>> = {}
  OBVIOUS
<1> QED
  BY <1>1 DEF TypedStays

LEMMA TypedStep == ASSUME Clean, TypedStays, [Next]_vars PROVE TypedStays'
<1>1. CASE Select
  <2>1. PICK s \in Templates \union {FromJob(e) : e \in Entries(listed)} : Mount(s)
    BY <1>1 DEF Select
  <2> QED
    BY <2>1, ChoicesAreSound, MountIsClean, FreshIsKept
<1>2. CASE Back \/ ListFails \/ TimerFires
  BY <1>2, NoPanelIsClean, FreshIsKept DEF Back, ListFails, TimerFires
<1>3. CASE PromptsArrive
  <2>1. \A f \in Fields : config'[f] = IF IsRef(config[f]) THEN Refs[config[f]] ELSE config[f]
    BY <1>3 DEF PromptsArrive, Hydrated, ResolvePromptRefs
  <2> QED
    BY <1>3, <2>1 DEF PromptsArrive, TypedStays
<1>4. CASE ListArrives
  <2>1. CASE page = "error"
    BY <1>4, <2>1, MountIsClean, FreshIsKept DEF ListArrives, Clean, SelectedIsSound
  <2>2. CASE page # "error"
    BY <1>4, <2>2 DEF ListArrives, panel, TypedStays
  <2> QED
    BY <2>1, <2>2
<1>5. CASE EditField \/ PickModel \/ TypeColumns
  <2>1. PICK fs : Types(fs)
    BY <1>5, EditsAreTexts
  <2>2. \A f \in Fields : config'[f] = IF f \in DOMAIN fs THEN fs[f] ELSE config[f]
    BY <2>1 DEF Types
  <2>3. edited' = [f \in DOMAIN edited \union DOMAIN fs |->
                     IF f \in DOMAIN fs THEN fs[f] ELSE edited[f]]
    BY <2>1 DEF Types, Edits
  <2>4. \A f \in DOMAIN fs : f \in Fields /\ ~IsRef(fs[f])
    BY <2>1 DEF Types
  <2> QED
    BY <2>2, <2>3, <2>4 DEF TypedStays
<1>6. ASSUME UNCHANGED <<config, edited>> PROVE TypedStays'
  BY <1>6 DEF TypedStays
<1> QED
  BY <1>1, <1>2, <1>3, <1>4, <1>5, <1>6
  DEF Next, SchemasLoad, SchemasRetry, PromptsFail, AskAgain, Execute, CloseDialog,
      SubmitJob, JobCreated, JobRefused, OrphanEnds, ComeBack, ViewJob, vars, panel

(* The prompts that arrive while the user is typing leave alone what has    *)
(* been typed.                                                              *)
THEOREM EditsAreKept == Spec => []EditsKept
<1>1. Init => TypedStays
  <2>1. DOMAIN <<>> = {}
    OBVIOUS
  <2> QED
    BY <2>1 DEF Init, TypedStays
<1>2. TypedStays => EditsKept
  BY DEF TypedStays, EditsKept
<1> QED
  BY <1>1, <1>2, CleanAlways, TypedStep, PTL DEF Spec

-----------------------------------------------------------------------------
(* A creation whose outcome was not shown is still under way, or the next   *)
(* dialog opens on its outcome.                                             *)
Told ==
  /\ unseen \in BOOLEAN /\ submitted \in BOOLEAN /\ dialog \in BOOLEAN
  /\ unseen => request # NoRequest \/ (submitted /\ ~dialog)
  /\ ToldBeforeNext

LEMMA NoPanelTells == ASSUME NoPanel PROVE Told'
  BY DEF NoPanel, Told, ToldBeforeNext

LEMMA MountTells == ASSUME NEW s, Mount(s) PROVE Told'
  BY DEF Mount, Told, ToldBeforeNext

LEMMA ToldStep == ASSUME Told, [Next]_vars PROVE Told'
<1>1. CASE Select
  BY <1>1, MountTells DEF Select
<1>2. CASE Back \/ ListFails \/ TimerFires
  BY <1>2, NoPanelTells DEF Back, ListFails, TimerFires
<1>3. CASE ListArrives
  <2>1. CASE page = "error"
    BY <1>3, <2>1, MountTells DEF ListArrives
  <2>2. CASE page # "error"
    BY <1>3, <2>2 DEF ListArrives, panel, Told, ToldBeforeNext
  <2> QED
    BY <2>1, <2>2
<1>4. CASE Execute
  BY <1>4 DEF Execute, OpensOn, Told, ToldBeforeNext
<1>5. CASE CloseDialog
  BY <1>5 DEF CloseDialog, Told, ToldBeforeNext
<1>6. CASE SubmitJob
  <2>1. ~unseen
    BY <1>6 DEF SubmitJob, Idle, Told
  <2>2. request'.blind = unseen /\ request'.at = "sent"
    BY <1>6 DEF SubmitJob
  <2>3. request' # NoRequest
    BY <2>2 DEF NoRequest
  <2> QED
    BY <1>6, <2>1, <2>2, <2>3 DEF SubmitJob, Told, ToldBeforeNext
<1>7. CASE JobCreated
  BY <1>7 DEF JobCreated, Told, ToldBeforeNext
<1>8. CASE JobRefused
  BY <1>8 DEF JobRefused, Told, ToldBeforeNext
<1>9. CASE ViewJob
  BY <1>9 DEF ViewJob, Told, ToldBeforeNext
<1>10. ASSUME UNCHANGED <<unseen, submitted, dialog, request>> PROVE Told'
  BY <1>10 DEF Told, ToldBeforeNext
<1> QED
  BY <1>1, <1>2, <1>3, <1>4, <1>5, <1>6, <1>7, <1>8, <1>9, <1>10
  DEF Next, SchemasLoad, SchemasRetry, PromptsArrive, PromptsFail, AskAgain, EditField,
      PickModel, TypeColumns, Edits, OrphanEnds, ComeBack, vars, panel

(* However the dialog is closed and opened while a creation is under way,   *)
(* no second job is sent before the user was shown how the first one ended. *)
THEOREM UserIsToldFirst == Spec => []ToldBeforeNext
<1>1. Init => Told
  BY DEF Init, Told, ToldBeforeNext
<1>2. Told => ToldBeforeNext
  BY DEF Told
<1> QED
  BY <1>1, <1>2, ToldStep, PTL DEF Spec
=============================================================================
