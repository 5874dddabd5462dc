----------------------------- MODULE RecipeForm -----------------------------
(***************************************************************************)
(* The recipes page of the studio (features/recipes): the list of configs   *)
(* of succeeded jobs, the panel that edits one of them, and the dialog that *)
(* submits it as a new job.  The form renders what the config holds, marks  *)
(* what the schema and the template require, and fetches the schema and the *)
(* prompts a config refers to while the user is already editing.            *)
(*                                                                         *)
(* A config is a function from fields to values.  The fields stand for one  *)
(* of each kind the form tells apart: column fields are those of the first  *)
(* column, model fields those of the first entry of model_configs.          *)
(***************************************************************************)
EXTENDS Naturals, FiniteSets

CONSTANTS
  Templates,  \* the starter templates: [type, config, required] records
  FirstJobs,  \* the jobs that have succeeded before: [id, type, config] records
  MaxWork,    \* bound on the edits and the submissions together
  MaxFaults   \* bound on failing requests

VARIABLES
  jobs,       \* server: the succeeded jobs, with ids in the order of their creation
  listed,     \* useJobRecipes: the jobs the page has
  stale,      \* the list was invalidated and is being fetched again
  page,       \* "list", "panel", "error" (in place of either) or "left"
  selected,   \* the record the panel was opened with
  config,     \* the config under edit
  schema,     \* useConfigSchemas: "loading", "ready" or "failed"
  prompts,    \* the query for the prompts: "none", "loading", "ready", "failed"
  dialog,     \* executeDialogOpen
  submitted,  \* submittedJobId is set
  leaving,    \* the timer of "View Job" is running
  request,    \* the job creation the panel waits for, or NoRequest
  orphans,    \* creations whose panel is gone
  edited,     \* history: what the user last put into the fields touched
  unseen,     \* history: a creation of this panel whose outcome was not shown
  spent       \* how much of each bound is used

panel == <<config, prompts, dialog, submitted, leaving, request, edited, unseen>>
vars  == <<jobs, listed, stale, page, selected, schema, orphans, spent, panel>>

ColumnFields == {"column_type", "prompt", "model_alias", "low", "weights"}
ModelFields  == {"alias", "model", "provider"}
Training     == {"algorithm", "model_name_or_path", "num_train_epochs"}
Fields == ColumnFields \union ModelFields \union Training
            \union {"num_records", "document_ids", "columns", "parent_job_id"}

(* "none": null, undefined or no such key.  "empty": "" or [].  "ref" and    *)
(* "newref": <prompt:...> references, to the text that was loaded and to     *)
(* one the user has typed.  "old" is any other value that was loaded.        *)
Values  == {"none", "empty", "hint", "ref", "newref", "old", "new", "zero",
            "llm", "uniform", "sft", "lora", "m1", "m2", "p1", "p2"}
Catalog == {<<"m1", "p1">>, <<"m2", "p2">>}
IsEmpty(v) == v \in {"none", "empty"}

Refs     == [ref |-> "old", newref |-> "new"]
IsRef(v) == v \in DOMAIN Refs

(* What a template may require: fields at the top level of its config.      *)
TopLevel(type) == IF type = "training" THEN Training \union {"parent_job_id"}
                  ELSE {"num_records", "document_ids", "columns"}

(* A reference is the whole value of a prompt and of nothing else.           *)
ASSUME RecipeAssumption ==
  /\ \A s \in Templates \union FirstJobs :
       s.config \in [Fields -> Values] /\ \A f \in Fields \ {"prompt"} : ~IsRef(s.config[f])
  /\ \A s \in Templates : s.required \subseteq TopLevel(s.type)

NoRequest   == [at |-> "none"]
NoSelection == [type |-> "none", config |-> [f \in Fields |-> "none"], required |-> {}]

-----------------------------------------------------------------------------
(* What is required, and what the form shows.                               *)

(* The branch of a column is picked by its tag; no match, no requirement.   *)
Branch == [t \in Values |-> CASE t = "llm"     -> {"column_type", "prompt", "model_alias"}
                              [] t = "uniform" -> {"column_type", "low"}
                              [] OTHER         -> {}]

BySchema(c, type) ==
  IF type = "training" THEN {"algorithm"}
  ELSE {"columns"} \union ModelFields
         \union (IF IsEmpty(c["columns"]) THEN {} ELSE Branch[c["column_type"]])

(* collectRequiredPaths: the same walk marks the fields and blocks Submit.  *)
RequiredPaths(c, s) ==
  s.required \union (IF schema = "ready" THEN BySchema(c, s.type) ELSE {})

MissingRequired(c, s) == {f \in RequiredPaths(c, s) : IsEmpty(c[f])}

(* Mutant: an empty list is hidden, required or not. *)
ShowsFilled(c, s) == c["columns"] # "empty"

(* SdgConfigForm: null and undefined are skipped, and so are empty lists,    *)
(* but for the picker of documents and what is required.                    *)
ShowsList(c, s) == c["columns"] # "empty" \/ "columns" \in RequiredPaths(c, s)

ShownSdg(c, s) ==
  {f \in {"num_records", "document_ids"} : c[f] # "none"}
    \union {f \in {"columns"} : c[f] # "none" /\ ShowsList(c, s)}
    \union {f \in ColumnFields : ~IsEmpty(c["columns"]) /\ c[f] # "none"}
    \union {f \in ModelFields : c[f] # "none"}

(* TrainingConfigForm: the algorithm and the model always, a known          *)
(* parameter while it has a value, a dataset picker for parent_job_id.      *)
ShownTraining(c) ==
  {"algorithm", "model_name_or_path", "parent_job_id"}
    \union {f \in {"num_train_epochs"} : c[f] # "none"}

Shown(c, s) == IF s.type = "training" THEN ShownTraining(c) ELSE ShownSdg(c, s)

(* The editors, by what they can put into their field: a cleared number is   *)
(* undefined, a cleared weight is Number("") = 0, the last document of a     *)
(* list may be taken off it; the other pickers offer what exists.           *)
NumberField    == {"none", "new"}
TextField      == {"empty", "new"}
WeightTable    == {"zero", "new"}
DocumentPicker == {"empty", "new"}
DatasetPicker  == {"new"}
AliasPicker(c) == {a \in {c["alias"]} : ~IsEmpty(a)}
ColumnTag      == {"llm", "uniform", "empty"}

(* The algorithms are the enum of the schema; without it they are typed. *)
AlgorithmField == {"sft", "lora"} \union (IF schema = "ready" THEN {} ELSE {"empty"})

Offers(f, c) ==
  CASE f \in {"num_records", "num_train_epochs", "low"} -> NumberField
    [] f \in {"prompt", "alias", "model_name_or_path"}  -> TextField
    [] f = "weights"       -> WeightTable
    [] f = "document_ids"  -> DocumentPicker
    [] f = "parent_job_id" -> DatasetPicker
    [] f = "model_alias"   -> AliasPicker(c)
    [] f = "column_type"   -> ColumnTag
    [] f = "algorithm"     -> AlgorithmField
    [] OTHER               -> {}

-----------------------------------------------------------------------------
(* The list of recipes (buildRecipeEntries).                                *)

(* One entry for each config, the earliest job that ran it; entries with the *)
(* same name are numbered from the oldest on.                               *)
First(js, j)     == \A k \in js : k.config = j.config => j.id <= k.id
BaseName(j)      == <<j.type, j.config["num_records"], j.config["algorithm"]>>
Namesakes(js, j) == {k \in js : First(js, k) /\ BaseName(k) = BaseName(j)}

Version(js, j) ==
  IF Cardinality(Namesakes(js, j)) > 1
  THEN Cardinality({k \in Namesakes(js, j) : k.id <= j.id}) ELSE 0

Entries(js) ==
  {[id |-> j.id, type |-> j.type, config |-> j.config, version |-> Version(js, j)] :
     j \in {k \in js : First(js, k)}}

-----------------------------------------------------------------------------
(* Placeholder tokens become "" and leave the lists they are in.            *)
StripPlaceholders(c) == [f \in Fields |-> IF c[f] = "hint" THEN "empty" ELSE c[f]]

HasRefs(c) == \E f \in Fields : IsRef(c[f])
ResolvePromptRefs(c) == [f \in Fields |-> IF IsRef(c[f]) THEN Refs[c[f]] ELSE c[f]]

(* _refify_and_own_prompts: the backend keeps the text of a prompt apart and *)
(* a reference in the config, the same for the same text.                   *)
Refified(c) ==
  LET kept == {r \in DOMAIN Refs : Refs[r] = c["prompt"]}
  IN  IF kept = {} THEN c ELSE [c EXCEPT !["prompt"] = CHOOSE r \in kept : TRUE]

NoPanel ==
  /\ config' = [f \in Fields |-> "none"] /\ prompts' = "none"
  /\ dialog' = FALSE /\ submitted' = FALSE /\ leaving' = FALSE
  /\ request' = NoRequest /\ edited' = <<>> /\ unseen' = FALSE
  /\ orphans' = IF request = NoRequest THEN orphans ELSE orphans \union {request}

(* A panel is mounted with a fresh copy of the config; prompts fetched      *)
(* before are in it from the first render on.                               *)
Mount(s) ==
  /\ \E cached \in IF HasRefs(s.config) THEN BOOLEAN ELSE {FALSE} :
       /\ prompts' = IF cached THEN "ready" ELSE IF HasRefs(s.config) THEN "loading" ELSE "none"
       /\ config' = LET c == StripPlaceholders(s.config)
                    IN  IF cached THEN ResolvePromptRefs(c) ELSE c
  /\ schema' = IF schema = "ready" THEN "ready" ELSE "loading"
  /\ dialog' = FALSE /\ submitted' = FALSE /\ leaving' = FALSE
  /\ request' = NoRequest /\ edited' = <<>> /\ unseen' = FALSE
  /\ UNCHANGED orphans

FromJob(e) == [type |-> e.type, config |-> e.config, required |-> {}]

Init ==
  /\ jobs = FirstJobs /\ listed = FirstJobs /\ stale = FALSE
  /\ page = "list" /\ selected = NoSelection
  /\ config = [f \in Fields |-> "none"] /\ prompts = "none" /\ schema = "loading"
  /\ dialog = FALSE /\ submitted = FALSE /\ leaving = FALSE
  /\ request = NoRequest /\ orphans = {} /\ edited = <<>> /\ unseen = FALSE
  /\ spent = [work |-> 0, faults |-> 0]

Select ==
  /\ page = "list"
  /\ \E s \in Templates \union {FromJob(e) : e \in Entries(listed)} :
       selected' = s /\ Mount(s)
  /\ page' = "panel"
  /\ UNCHANGED <<jobs, listed, stale, spent>>

Back ==
  /\ page = "panel" /\ ~dialog
  /\ page' = "list" /\ selected' = NoSelection /\ NoPanel
  /\ UNCHANGED <<jobs, listed, stale, schema, spent>>

-----------------------------------------------------------------------------
(* Queries.                                                                 *)

Fault == spent.faults < MaxFaults /\ spent' = [spent EXCEPT !.faults = @ + 1]

SchemasLoad ==
  /\ page = "panel" /\ schema = "loading"
  /\ \/ schema' = "ready" /\ UNCHANGED spent
     \/ schema' = "failed" /\ Fault
  /\ UNCHANGED <<jobs, listed, stale, page, selected, orphans, panel>>

(* The window regains the focus.                                            *)
SchemasRetry ==
  /\ page = "panel" /\ schema = "failed"
  /\ schema' = "loading"
  /\ UNCHANGED <<jobs, listed, stale, page, selected, orphans, spent, panel>>

(* Mutant: the prompts are put into the config the panel was opened with. *)
HydratedAfresh(c) == ResolvePromptRefs(StripPlaceholders(selected.config))

(* The prompts arrive: once, what is still a reference becomes text.        *)
Hydrated(c) == ResolvePromptRefs(c)
PromptsArrive ==
  /\ page = "panel" /\ prompts = "loading"
  /\ prompts' = "ready" /\ config' = Hydrated(config)
  /\ UNCHANGED <<jobs, listed, stale, page, selected, schema, dialog, submitted, leaving,
                 request, orphans, edited, unseen, spent>>

PromptsFail ==
  /\ page = "panel" /\ prompts = "loading"
  /\ prompts' = "failed" /\ Fault
  /\ UNCHANGED <<jobs, listed, stale, page, selected, config, schema, dialog, submitted,
                 leaving, request, orphans, edited, unseen>>

(* The list is fetched again; an error takes the place of the whole page,   *)
(* the panel included, until the user asks again.                           *)
ListArrives ==
  /\ stale /\ page # "left"
  /\ stale' = FALSE /\ listed' = jobs
  /\ IF page = "error" THEN page' = "panel" /\ Mount(selected)
                       ELSE UNCHANGED <<page, schema, orphans, panel>>
  /\ UNCHANGED <<jobs, selected, spent>>

ListFails ==
  /\ stale /\ page = "panel"
  /\ Fault /\ stale' = FALSE /\ page' = "error" /\ NoPanel
  /\ UNCHANGED <<jobs, listed, selected, schema>>

AskAgain ==
  /\ page = "error" /\ ~stale
  /\ stale' = TRUE
  /\ UNCHANGED <<jobs, listed, page, selected, schema, orphans, spent, panel>>

-----------------------------------------------------------------------------
(* Editing.                                                                 *)

Edits(fs) ==
  /\ page = "panel" /\ ~dialog /\ spent.work < MaxWork
  /\ spent' = [spent EXCEPT !.work = @ + 1]
  /\ edited' = [f \in DOMAIN edited \union DOMAIN fs |->
                  IF f \in DOMAIN fs THEN fs[f] ELSE edited[f]]
  /\ UNCHANGED <<jobs, listed, stale, page, selected, schema, prompts, dialog, submitted,
                 leaving, request, orphans, unseen>>

EditField ==
  \E f \in Shown(config, selected) : \E v \in Offers(f, config) \ {config[f]} :
    /\ config' = [config EXCEPT ![f] = v]
    /\ Edits([g \in {f} |-> v])

(* The picker sets the model and its provider in one update of the item.    *)
Picked(c, m) == [c EXCEPT !["model"] = m[1], !["provider"] = m[2]]
PickModel ==
  /\ {"model", "provider"} \subseteq Shown(config, selected)
  /\ \E m \in Catalog :
       /\ config' = Picked(config, m)
       /\ Edits([f \in {"model", "provider"} |-> Picked(config, m)[f]])

(* A required list that is empty is edited as JSON; text that does not parse *)
(* changes nothing.                                                         *)
TypeColumns ==
  /\ "columns" \in Shown(config, selected) /\ config["columns"] = "empty"
  /\ LET typed == [f \in ColumnFields \union {"columns"} |->
                     CASE f = "columns" -> "new" [] f = "column_type" -> "llm"
                       [] f = "prompt" -> "new" [] f = "model_alias" -> "empty"
                       [] OTHER -> "none"]
     IN  /\ config' = [f \in Fields |-> IF f \in DOMAIN typed THEN typed[f] ELSE config[f]]
         /\ Edits(typed)

-----------------------------------------------------------------------------
(* Submitting.                                                              *)

CanExecute == schema # "loading" /\ MissingRequired(config, selected) = {}

(* Mutant: a dialog that opens forgets the outcome. *)
OpensAfresh(s) == FALSE

(* The dialog opens on the outcome of a creation that ended behind it.      *)
OpensOn(s) == s
Execute ==
  /\ page = "panel" /\ ~dialog /\ schema # "loading"
  /\ dialog' = TRUE /\ submitted' = OpensOn(submitted)
  /\ unseen' = (unseen /\ ~submitted')
  /\ UNCHANGED <<jobs, listed, stale, page, selected, config, schema, prompts, leaving,
                 request, orphans, edited, spent>>

(* Cancel closes the dialog; Escape and a click outside also forget the     *)
(* outcome it showed.                                                       *)
CloseDialog ==
  /\ dialog /\ dialog' = FALSE
  /\ \/ ~submitted /\ UNCHANGED submitted
     \/ submitted' = FALSE
  /\ UNCHANGED <<jobs, listed, stale, page, selected, config, schema, prompts, leaving,
                 request, orphans, edited, unseen, spent>>

Idle == request = NoRequest
SubmitJob ==
  /\ dialog /\ ~submitted /\ Idle /\ CanExecute
  /\ spent.work < MaxWork
  /\ spent' = [spent EXCEPT !.work = @ + 1]
  /\ request' = [at |-> "sent", type |-> selected.type, config |-> config,
                 schema |-> schema, required |-> selected.required, blind |-> unseen]
  /\ unseen' = TRUE
  /\ orphans' = IF request = NoRequest THEN orphans ELSE orphans \union {request}
  /\ UNCHANGED <<jobs, listed, stale, page, selected, config, schema, prompts, dialog,
                 submitted, leaving, edited>>

(* The job is created; it is a recipe once it has succeeded.  onSettled      *)
(* invalidates the list.                                                    *)
Recorded(r) ==
  /\ stale' = (page # "left")
  /\ \/ jobs' = jobs \union {[id |-> Cardinality(jobs) + 1, type |-> r.type,
                               config |-> Refified(r.config)]}
     \/ UNCHANGED jobs

JobCreated ==
  /\ request # NoRequest /\ Recorded(request)
  /\ request' = NoRequest /\ submitted' = TRUE
  /\ unseen' = ~dialog
  /\ UNCHANGED <<listed, page, selected, config, schema, prompts, dialog, leaving,
                 orphans, edited, spent>>

(* The backend refuses, or its answer is lost: a toast, and the dialog       *)
(* closes, whether or not it is the one that was confirmed.                 *)
JobRefused ==
  /\ request # NoRequest /\ Fault /\ Recorded(request)
  /\ request' = NoRequest /\ dialog' = FALSE /\ unseen' = FALSE
  /\ UNCHANGED <<listed, page, selected, config, schema, prompts, submitted, leaving,
                 orphans, edited>>

(* Nobody is told of a creation whose panel is gone but by the list.        *)
OrphanEnds ==
  /\ \E r \in orphans : Recorded(r) /\ orphans' = orphans \ {r}
  /\ UNCHANGED <<listed, page, selected, schema, panel, spent>>

ViewJob ==
  /\ dialog /\ submitted /\ ~leaving
  /\ dialog' = FALSE /\ leaving' = TRUE
  /\ UNCHANGED <<jobs, listed, stale, page, selected, config, schema, prompts, submitted,
                 request, orphans, edited, unseen, spent>>

TimerFires ==
  /\ leaving
  /\ page' = "left" /\ stale' = FALSE /\ selected' = NoSelection /\ NoPanel
  /\ UNCHANGED <<jobs, listed, schema, spent>>

(* The user comes back to the page.                                         *)
ComeBack ==
  /\ page = "left"
  /\ page' = "list" /\ listed' = jobs
  /\ UNCHANGED <<jobs, stale, selected, schema, orphans, spent, panel>>

-----------------------------------------------------------------------------
Next ==
  \/ Select \/ Back \/ SchemasLoad \/ SchemasRetry \/ PromptsArrive \/ PromptsFail
  \/ ListArrives \/ ListFails \/ AskAgain
  \/ EditField \/ PickModel \/ TypeColumns
  \/ Execute \/ CloseDialog \/ SubmitJob \/ JobCreated \/ JobRefused \/ OrphanEnds
  \/ ViewJob \/ TimerFires \/ ComeBack

Spec == Init /\ [][Next]_vars
=============================================================================
