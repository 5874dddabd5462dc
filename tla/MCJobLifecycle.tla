--------------------------- MODULE MCJobLifecycle ---------------------------
(***************************************************************************)
(* Values of the constants of JobLifecycle for TLC.                        *)
(***************************************************************************)
EXTENDS JobLifecycle

(* A training job on one GPU, and an SDG job on none.                       *)
Training == [gpus |-> 1, needsRun |-> FALSE]
Sdg      == [gpus |-> 0, needsRun |-> TRUE]

MCMixed   == {Training, Sdg}
MCOneKind == {Training}

MCBothRequests == {"cancel", "delete"}
MCCancelOnly   == {"cancel"}
MCNoRequests   == {}

MCNoFaults  == {}
MCAllFaults == FaultKinds
=============================================================================
