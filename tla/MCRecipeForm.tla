---------------------------- MODULE MCRecipeForm ----------------------------
(* An instance of the recipes page and its properties.                      *)
EXTENDS RecipeForm

Blank == [f \in Fields |-> "none"]
With(c, fs) == [f \in Fields |-> IF f \in DOMAIN fs THEN fs[f] ELSE c[f]]

Llm ==
  With(Blank, [num_records |-> "old", document_ids |-> "hint", columns |-> "old",
               column_type |-> "llm", prompt |-> "old", model_alias |-> "old",
               alias |-> "old", model |-> "hint", provider |-> "hint"])
Referring ==
  With(Llm, [document_ids |-> "old", prompt |-> "ref", model |-> "m1", provider |-> "p1"])
Sampler ==
  With(Referring, [column_type |-> "uniform", prompt |-> "none", model_alias |-> "none",
                   low |-> "old", weights |-> "old"])
NoColumns == With(Referring, [columns |-> "empty", column_type |-> "none", prompt |-> "none",
                              model_alias |-> "none"])
Tuning ==
  With(Blank, [algorithm |-> "sft", model_name_or_path |-> "old", num_train_epochs |-> "old",
               parent_job_id |-> "hint"])

MCTemplates ==
  {[type |-> "sdg", config |-> Llm, required |-> {"document_ids"}],
   [type |-> "sdg", config |-> NoColumns, required |-> {}],
   [type |-> "training", config |-> Tuning, required |-> {"model_name_or_path", "parent_job_id"}]}
MCFirstJobs ==
  {[id |-> 1, type |-> "sdg", config |-> Referring],
   [id |-> 2, type |-> "sdg", config |-> Sampler]}

(* A field that blocks Submit is on display, with an editor that can fill   *)
(* it, whatever was fetched, edited or emptied before: what is required is  *)
(* not hidden for being empty.  Fields with no value at all are the         *)
(* exception (see the README on cleared numbers).                           *)
MissingHasEditor ==
  page = "panel" =>
    \A f \in MissingRequired(config, selected) :
      config[f] = "empty" => f \in Shown(config, selected)

(* Late answers do not undo the user's edits.                               *)
EditsKept == \A f \in DOMAIN edited : config[f] = edited[f]

(* A panel sends no second job before the user was shown how the first one  *)
(* ended.                                                                   *)
ToldBeforeNext == request # NoRequest => ~request.blind
=============================================================================
