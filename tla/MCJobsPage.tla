----------------------------- MODULE MCJobsPage -----------------------------
EXTENDS JobsPage

CONSTANTS a, b

(* One job that is being set up, and an id that a retry may use. *)
MCFirstStatus == {[j \in Jobs |-> IF j = a THEN "provisioning" ELSE NoRow]}

(* The list is at rest: on the screen, and nothing that renews it on its way. *)
AtRest == Mounted /\ Q!Idle(list) /\ pending = {}

(* A list at rest was read after every change the user made while it was on  *)
(* the screen, whatever answers were on their way when the change was made   *)
(* (onSettled of the three mutations, use-jobs.ts).  It need not be the       *)
(* table of this moment: a worker that writes over a cancel does so behind   *)
(* the back of a list that has no active job left to poll for.               *)
ChangesAreListed == AtRest => "list" \notin owed

ListedActive(j) == list.data # NoData /\ list.data[j] \in Active

(* A job that has ended is not shown as active for ever, neither in the list *)
(* nor in the panel: the polls go on as long as they are needed, also after  *)
(* failed requests, and stop the page from showing a dead job as running -   *)
(* unless a worker that writes over a cancel makes it active again.          *)
EndIsShown ==
  \A j \in Jobs :
    /\ (here /\ ListedActive(j) /\ status[j] \notin Active)
         ~> (~here \/ ~ListedActive(j) \/ status[j] \in Active)
    /\ (open /\ selected = j /\ Shown \in Active /\ status[j] \in Finished)
         ~> (~open \/ ~Mounted \/ Shown \notin Active \/ status[j] \in Active \union {Gone})
=============================================================================
