---------------------------- MODULE LibraryPages ----------------------------
(***************************************************************************)
(* The datasets, documents, models and evaluations pages of the studio: a    *)
(* list from the shared cache, a panel for the item selected, deep links     *)
(* from the other pages, renaming and deletion, and the uploads with what    *)
(* watches them: a dialog and a timer for documents, a timer for datasets.   *)
(* Only the list of evaluations is polled.  A behaviour is about one of the  *)
(* pages; the user leaves it and comes back, the cache and the timers stay,  *)
(* and a request may still be under way.                                    *)
(***************************************************************************)
EXTENDS ListPage

CONSTANTS
  Items,      \* datasets, documents, models or groups of evaluations, by id
  NoItem

(* Of ListPage: list is the query of useDatasets, useDocuments, useModels or  *)
(* useEvaluations, owed what MCLibraryPages says; the acts are the uploads,   *)
(* deletions and new names.                                                 *)
VARIABLES
  page,       \* which page the behaviour is about
  there,      \* server: is the item unborn, listed, hidden (soft-deleted) or gone
  job,        \* server: the upload job of an item
  link,       \* the item the URL names, and how, until the page has dealt with it
  direct,     \* datasets being fetched for a link (fetchDatasetByRun)
  late,       \* the same, of a visit that is over
  removal,    \* the deletion under way, one at a time
  box,        \* the upload: the dialog's state, or what the mutation waits for
  tracked,    \* uploads that a timer polls
  told        \* history: uploads whose end the user was told

panel   == <<selected, open>>
uploads == <<job, box, tracked, told>>
libraryVars ==
  <<page, there, list, here, link, direct, late, panel, removal, uploads, owed, spent>>

ASSUME LibraryAssumption == \A served \in SUBSET Items : served # NoData

Pages == {"datasets", "documents", "models", "evaluations"}
Ended == {"succeeded", "failed", "cancelled"}

NoLink    == [item |-> NoItem, by |-> "run"]
NoRemoval == [item |-> NoItem, heard |-> FALSE]
NoUpload  == [open |-> FALSE, sending |-> NoItem, job |-> NoItem, seen |-> "none",
              asking |-> FALSE, handled |-> FALSE, minimized |-> FALSE, closing |-> FALSE]

Served == {i \in Items : there[i] = "listed"}

LibraryInit ==
  /\ page \in Pages
  /\ \E made \in {{}} \union {{i} : i \in Items}, other \in {"unborn", "hidden"} :
       /\ there = [i \in Items |-> IF i \in made THEN "listed" ELSE other]
       /\ other = "hidden" => page = "datasets"
  /\ job = [i \in Items |-> "none"]
  /\ list \in {Q!Fresh, [Q!Fresh EXCEPT !.data = Served]}   \* cached by another page
  /\ here = FALSE /\ link = NoLink /\ direct = {} /\ late = {}
  /\ selected = NoItem /\ open = FALSE
  /\ removal = NoRemoval /\ box = NoUpload
  /\ tracked = {} /\ told = {} /\ owed = {}
  /\ spent = [acts |-> 0, faults |-> 0, visits |-> 0]

-----------------------------------------------------------------------------
(* The effect that deals with a link runs whenever the link or the list      *)
(* changes: l is the link, q the query as it is then.                       *)

Opens(l) == selected' = l.item /\ open' = TRUE /\ link' = NoLink /\ UNCHANGED direct
Drops    == link' = NoLink /\ UNCHANGED <<panel, direct>>
Keeps(l) == link' = l /\ UNCHANGED <<panel, direct>>
Has(q, l) == q.data # NoData /\ l \in q.data

Holds(q, l) == Has(q, l.item)

(* Mutant: the link is looked up in the list only. *)
FollowInList(l, q) == \/ Holds(q, l)  /\ Opens(l)
                      \/ ~Holds(q, l) /\ Keeps(l)

(* A link by run has the list as a first place to look, and fetches what is  *)
(* not there; one by job ("View Dataset" of the chat) has nothing else.     *)
FollowDataset(l, q) ==
  \/ Holds(q, l)  /\ Opens(l)
  \/ ~Holds(q, l) /\ l.by = "run"
                  /\ direct' = direct \union {l.item} /\ link' = l /\ UNCHANGED panel
  \/ ~Holds(q, l) /\ l.by = "job" /\ Keeps(l)

FollowDocument(l, q) ==
  \/ Q!Loading(q)  /\ Keeps(l)
  \/ ~Q!Loading(q) /\ Holds(q, l)  /\ Opens(l)
  \/ ~Q!Loading(q) /\ ~Holds(q, l) /\ Drops

FollowModel(l, q) == \/ Holds(q, l)  /\ Opens(l)
                     \/ ~Holds(q, l) /\ Keeps(l)

FollowGroup(l, q) == \/ Holds(q, l)  /\ Opens(l)
                     \/ ~Holds(q, l) /\ Keeps(l)

Follow(l, q) ==
  \/ l = NoLink /\ Keeps(l)
  \/ l # NoLink /\ page = "datasets"  /\ FollowDataset(l, q)
  \/ l # NoLink /\ page = "documents" /\ FollowDocument(l, q)
  \/ l # NoLink /\ page = "models"    /\ FollowModel(l, q)
  \/ l # NoLink /\ page = "evaluations" /\ FollowGroup(l, q)

Untouched == UNCHANGED <<link, direct, panel>>

-----------------------------------------------------------------------------
(* The list.                                                                *)

ItemsAreRead ==
  /\ list.fetch.at = "asked"
  /\ list' = Q!Reads(list, Served)
  /\ UNCHANGED <<page, there, here, late, removal, uploads, owed, spent>> /\ Untouched

ItemsArrive ==
  /\ list.fetch.at = "read"
  /\ list' = Q!Arrives(list)
  /\ IF here THEN Follow(link, list') ELSE Untouched
  /\ UNCHANGED <<page, there, here, late, removal, uploads, owed, spent>>

(* An error takes the place of the page: the panel's callbacks are lost, and *)
(* the upload dialog with all it knew.                                      *)
Unmounted ==
  /\ removal' = [removal EXCEPT !.heard = FALSE]
  /\ box' = IF page = "documents" THEN NoUpload ELSE box

ItemsFail ==
  /\ list.fetch.at # "idle" /\ Fault
  /\ list' = Q!Fails(list)
  /\ IF here THEN Unmounted /\ Follow(link, list')
             ELSE UNCHANGED <<removal, box>> /\ Untouched
  /\ UNCHANGED <<page, there, here, late, job, tracked, told, owed>>

(* refetchInterval of useEvaluations: every five seconds while an evaluation *)
(* runs, else every thirty, so a list that failed is asked for again.       *)
PollGroups ==
  /\ page = "evaluations" /\ here /\ Q!Idle(list)
  /\ list' = Q!Asks(list)
  /\ UNCHANGED <<page, there, here, late, removal, uploads, owed, spent>> /\ Untouched

(* "Try again" of the error, or the focus returns to an old list. *)
AskItemsAgain ==
  /\ here /\ Q!Idle(list)
  /\ list' = Q!Asks(list)
  /\ UNCHANGED <<page, there, here, late, removal, uploads, owed, spent>> /\ Untouched

(* The dataset a link names has come: it is shown, whatever else the user    *)
(* has opened meanwhile.                                                    *)
FetchedDirectly(i) ==
  /\ i \in direct /\ direct' = direct \ {i}
  /\ \/ there[i] \in {"listed", "hidden"} /\ selected' = i /\ open' = TRUE /\ UNCHANGED spent
     \/ UNCHANGED panel /\ Fault
  /\ link' = NoLink
  /\ UNCHANGED <<page, there, list, here, late, removal, uploads, owed>>

(* For a visit that is over it shows nothing, but the link is still cleared, *)
(* by a navigation to the path that page had: this takes back a user who    *)
(* has left the page, and drops the link of one who has come back.          *)
FetchedLate(i) ==
  /\ i \in late /\ late' = late \ {i}
  /\ link' = NoLink /\ here' = TRUE
  /\ list' = IF here THEN list ELSE Q!Asks(list)
  /\ UNCHANGED <<page, there, direct, panel, removal, uploads, owed, spent>>

(* A job of the platform makes an item. *)
Appears(i) ==
  /\ there[i] = "unborn" /\ job[i] = "none" /\ page # "documents"
  /\ there' = [there EXCEPT ![i] = "listed"]
  /\ UNCHANGED <<page, list, here, late, removal, uploads, owed, spent>> /\ Untouched

-----------------------------------------------------------------------------
(* The panel.                                                               *)

SelectItem(i) ==
  /\ Mounted /\ ~open /\ ~box.open /\ Has(list, i)
  /\ selected' = i /\ open' = TRUE
  /\ UNCHANGED <<page, there, list, here, late, link, direct, removal, uploads, owed, spent>>

(* A click on a row of the page's table; search and paging hide rows only. *)
SelectDataset(i)  == page = "datasets"    /\ SelectItem(i)
SelectDocument(i) == page = "documents"   /\ SelectItem(i)
SelectModel(i)    == page = "models"      /\ SelectItem(i)
SelectGroup(i)    == page = "evaluations" /\ SelectItem(i)

CloseItem ==
  /\ Mounted /\ open /\ open' = FALSE
  /\ UNCHANGED <<page, there, list, here, late, link, direct, selected, removal, uploads, owed, spent>>

(* A panel's links to other pages close it; the user leaves 200 ms later,    *)
(* whatever they do meanwhile.                                              *)
LinkOutOfDataset == page = "datasets"    /\ CloseItem
LinkOutOfModel   == page = "models"      /\ CloseItem
LinkOutOfGroup   == page = "evaluations" /\ CloseItem

(* A new name or topic, once stored, refreshes the list; the panel keeps     *)
(* what it was opened with.                                                 *)
Renamed ==
  /\ Mounted /\ Act
  /\ list' = Q!Invalidated(list, here)
  /\ UNCHANGED <<page, there, here, late, removal, uploads, owed>> /\ Untouched

RenameDataset == page = "datasets" /\ open /\ Renamed
RenameDocument == page = "documents" /\ open /\ Renamed
RenameModel   == page = "models"   /\ open /\ Renamed
NameTopic     == page = "models" /\ ~open /\ (\E i \in Items : Has(list, i)) /\ Renamed

(* Confirmed in the dialog, which can be left while the request is pending. *)
Delete ==
  /\ Mounted /\ open /\ page # "evaluations" /\ removal = NoRemoval /\ Act
  /\ removal' = [item |-> selected, heard |-> TRUE]
  /\ UNCHANGED <<page, there, list, here, late, uploads, owed>> /\ Untouched

(* What the user was told: that an item was deleted or uploaded, or uploaded *)
(* "again", from a dialog that had seen the end of an upload before.        *)
Owes(i, what) ==
  owed' = IF here /\ list.data # NoData
            THEN owed \union {[item |-> i, what |-> what]} ELSE owed

(* A deleted run can still be fetched by its id; a document or a model not. *)
Deleted ==
  /\ removal # NoRemoval /\ removal' = NoRemoval
  /\ there[removal.item] = "listed"
  /\ there' = [there EXCEPT ![removal.item] = IF page = "datasets" THEN "hidden" ELSE "gone"]
  /\ Owes(removal.item, "deleted")
  /\ list' = Q!Invalidated(list, here)
  /\ open' = (open /\ ~removal.heard)
  /\ UNCHANGED <<page, here, late, link, direct, selected, uploads, spent>>

DeleteFails ==
  /\ removal # NoRemoval /\ removal' = NoRemoval
  /\ \/ there[removal.item] # "listed" /\ UNCHANGED spent
     \/ Fault
  /\ list' = Q!Invalidated(list, here)
  /\ UNCHANGED <<page, there, here, late, uploads, owed>> /\ Untouched

-----------------------------------------------------------------------------
(* Uploads.  The server: an upload becomes a job, the job makes the item.    *)

JobEnds(i) ==
  /\ job[i] = "running"
  /\ \E s \in Ended :
       /\ job' = [job EXCEPT ![i] = s]
       /\ there' = IF s = "succeeded" THEN [there EXCEPT ![i] = "listed"] ELSE there
  /\ UNCHANGED <<page, list, here, late, removal, box, tracked, told, owed, spent>> /\ Untouched

(* What the dialog shows. *)
Sending    == box.sending # NoItem
Processing == box.job # NoItem /\ box.seen \notin {"succeeded", "failed"}
Form       == ~Sending /\ (box.job = NoItem \/ box.seen = "failed")

OpenBox ==
  /\ page = "documents" /\ Mounted /\ ~open /\ ~box.open
  /\ box' = [box EXCEPT !.open = TRUE]
  /\ UNCHANGED <<page, there, list, here, late, removal, job, tracked, told, owed, spent>> /\ Untouched

(* Datasets have no dialog: the button is disabled while a file is sent.     *)
(* A document is submitted from the dialog's form; handled is not reset.    *)
Submit(i) ==
  /\ Mounted /\ page \in {"datasets", "documents"} /\ Form /\ Act
  /\ page = "documents" => box.open
  /\ there[i] = "unborn" /\ job[i] = "none"
  /\ job' = [job EXCEPT ![i] = "sent"]
  /\ box' = [box EXCEPT !.sending = i, !.job = NoItem, !.seen = "none", !.asking = FALSE]
  /\ UNCHANGED <<page, there, list, here, late, removal, tracked, told, owed>> /\ Untouched

(* The answer to an upload.  A dataset is tracked by a timer, wherever the   *)
(* user is; a document by the dialog, if it still waits for the answer.     *)
Accepted(i) ==
  /\ job[i] = "sent"
  /\ job' = [job EXCEPT ![i] = "running"]
  /\ IF page = "datasets"
       THEN /\ tracked' = tracked \union {i}
            /\ box' = IF box.sending = i THEN NoUpload ELSE box
            /\ UNCHANGED list
       ELSE /\ list' = Q!Invalidated(list, here)
            /\ box' = IF box.sending = i
                        THEN [box EXCEPT !.sending = NoItem, !.job = i, !.asking = TRUE]
                        ELSE box
            /\ UNCHANGED tracked
  /\ UNCHANGED <<page, there, here, late, removal, told, owed, spent>> /\ Untouched

UploadFails(i) ==
  /\ job[i] = "sent" /\ Fault
  /\ job' = [job EXCEPT ![i] = "failed"]
  /\ told' = told \union {i}
  /\ box' = IF box.sending = i THEN [box EXCEPT !.sending = NoItem] ELSE box
  /\ list' = IF page = "documents" THEN Q!Invalidated(list, here) ELSE list
  /\ UNCHANGED <<page, there, here, late, removal, tracked, owed>> /\ Untouched

(* Mutant: only the dialog itself follows the job. *)
CloseBoxSilently ==
  /\ box.open
  /\ box' = [box EXCEPT !.open = FALSE]
  /\ UNCHANGED <<page, there, list, here, late, removal, job, tracked, told, owed, spent>> /\ Untouched

(* Closing: a job under way is handed to a timer; with no job, and unless it *)
(* was minimized before, the dialog is reset and no longer waits.           *)
CloseBox ==
  /\ box.open
  /\ LET watched == box.job # NoItem /\ ~box.handled IN
     /\ tracked' = IF watched THEN tracked \union {box.job} ELSE tracked
     /\ box' = IF box.job = NoItem /\ ~box.minimized THEN NoUpload
               ELSE [box EXCEPT !.open = FALSE, !.minimized = @ \/ watched]
  /\ UNCHANGED <<page, there, list, here, late, removal, job, told, owed, spent>> /\ Untouched

(* useJob, every three seconds while the job is active *)
PollBox ==
  /\ Mounted /\ box.job # NoItem /\ ~box.asking /\ box.seen = "running"
  /\ box' = [box EXCEPT !.asking = TRUE]
  /\ UNCHANGED <<page, there, list, here, late, removal, job, tracked, told, owed, spent>> /\ Untouched

(* Only the first end a dialog sees is handled: a success fetches the list   *)
(* anew and closes the dialog soon after, a failure shows the form with the  *)
(* error.  The end of an upload sent from that form is shown and no more:   *)
(* handled is not reset.                                                    *)
BoxSees ==
  /\ box.asking
  /\ LET s     == job[box.job]
         first == s \in {"succeeded", "failed"} /\ ~box.handled
     IN  /\ box' = [box EXCEPT !.asking = FALSE, !.seen = s, !.handled = @ \/ first,
                               !.closing = @ \/ (first /\ s = "succeeded")]
         /\ told' = IF box.open /\ (s = "succeeded" \/ first) THEN told \union {box.job} ELSE told
         /\ list' = IF first /\ s = "succeeded" THEN Q!Invalidated(list, here) ELSE list
         /\ IF s # "succeeded" THEN UNCHANGED owed
            ELSE Owes(box.job, IF first THEN "uploaded" ELSE "again")
  /\ UNCHANGED <<page, there, here, late, removal, job, tracked, spent>> /\ Untouched

BoxIsBlind ==
  /\ box.asking /\ Fault
  /\ box' = [box EXCEPT !.asking = FALSE]
  /\ UNCHANGED <<page, there, list, here, late, removal, job, tracked, told, owed>> /\ Untouched

(* The timer of 1.5 s after a first success; it does not reset the dialog. *)
BoxCloses ==
  /\ box.closing
  /\ box' = [box EXCEPT !.open = FALSE, !.closing = FALSE]
  /\ UNCHANGED <<page, there, list, here, late, removal, job, tracked, told, owed, spent>> /\ Untouched

(* A timer asks for the job; it ends with an end, or with "lost connection". *)
(* The one for documents knows nothing of cancelled jobs.                   *)
Over(i) == job[i] \in (IF page = "datasets" THEN Ended ELSE {"succeeded", "failed"})

(* Mutant: the list is not fetched again. *)
TimerTells(i) ==
  /\ i \in tracked /\ Over(i)
  /\ tracked' = tracked \ {i} /\ told' = told \union {i}
  /\ IF job[i] = "succeeded" THEN Owes(i, "uploaded") ELSE UNCHANGED owed
  /\ UNCHANGED <<page, there, list, here, late, removal, job, box, spent>> /\ Untouched

TimerSees(i) ==
  /\ i \in tracked /\ Over(i)
  /\ tracked' = tracked \ {i} /\ told' = told \union {i}
  /\ IF job[i] = "succeeded"
       THEN list' = Q!Invalidated(list, here) /\ Owes(i, "uploaded")
       ELSE UNCHANGED <<list, owed>>
  /\ UNCHANGED <<page, there, here, late, removal, job, box, spent>> /\ Untouched

TimerGivesUp(i) ==
  /\ i \in tracked /\ Fault
  /\ tracked' = tracked \ {i} /\ told' = told \union {i}
  /\ UNCHANGED <<page, there, list, here, late, removal, job, box, owed>> /\ Untouched

-----------------------------------------------------------------------------
LeaveLibrary ==
  /\ here /\ spent.visits < MaxVisits
  /\ here' = FALSE /\ link' = NoLink
  /\ selected' = NoItem /\ open' = FALSE
  /\ late' = late \union direct /\ direct' = {}
  /\ removal' = [removal EXCEPT !.heard = FALSE] /\ box' = NoUpload
  /\ UNCHANGED <<page, there, list, job, tracked, told, owed, spent>>

(* With or without a link to an item that exists or existed. *)
Links == [item : {i \in Items : there[i] # "unborn"},
          by   : IF page = "datasets" THEN {"run", "job"} ELSE {"run"}]

EnterLibrary ==
  /\ ~here /\ here' = TRUE /\ Spend("visits", MaxVisits)
  /\ list' \in {Q!Asks(list)}
       \union (IF list.data # NoData /\ ~list.stale /\ ~list.failed THEN {list} ELSE {})
  /\ \E l \in {NoLink} \union Links : Follow(l, list')
  /\ UNCHANGED <<page, there, late, removal, uploads, owed>>

LibraryNext ==
  \/ ItemsAreRead \/ ItemsArrive \/ ItemsFail \/ AskItemsAgain \/ PollGroups
  \/ \E i \in Items : \/ FetchedDirectly(i) \/ FetchedLate(i) \/ Appears(i)
                      \/ SelectDataset(i) \/ SelectDocument(i) \/ SelectModel(i) \/ SelectGroup(i)
                      \/ JobEnds(i) \/ Submit(i) \/ Accepted(i) \/ UploadFails(i)
                      \/ TimerSees(i) \/ TimerGivesUp(i)
  \/ CloseItem \/ LinkOutOfDataset \/ LinkOutOfModel \/ LinkOutOfGroup
  \/ RenameDataset \/ RenameDocument \/ RenameModel \/ NameTopic \/ Delete \/ Deleted \/ DeleteFails
  \/ OpenBox \/ CloseBox \/ PollBox \/ BoxSees \/ BoxIsBlind \/ BoxCloses
  \/ LeaveLibrary \/ EnterLibrary

(* Requests are answered and timers fire. *)
LibraryFairness ==
  /\ WF_libraryVars(PollGroups) /\ WF_libraryVars(ItemsAreRead) /\ WF_libraryVars(ItemsArrive)
  /\ WF_libraryVars(PollBox) /\ WF_libraryVars(BoxSees)
  /\ \A i \in Items : WF_libraryVars(FetchedDirectly(i)) /\ WF_libraryVars(TimerSees(i))

LibrarySpec == LibraryInit /\ [][LibraryNext]_libraryVars /\ LibraryFairness
=============================================================================
