--------------------------- MODULE MCLibraryPages ---------------------------
EXTENDS LibraryPages

(* What is announced is what the list shows: whenever the list is at rest,   *)
(* an item deleted from this page is not in it, and an upload that was seen  *)
(* to succeed is, unless it has been deleted since (the invalidations of     *)
(* useDeleteDataset, useDeleteDocument, useDeleteModel, of the upload        *)
(* dialog and of the timers).  Not so an upload sent from a dialog that has  *)
(* seen the end of one before: the dialog announces its success and leaves   *)
(* the list as it was (upload-document-dialog.tsx, handled).                *)
ListKeepsUp ==
  Mounted /\ Q!Idle(list) =>
    \A c \in owed : CASE c.what = "deleted"  -> ~Has(list, c.item)
                      [] c.what = "uploaded" -> Has(list, c.item) \/ there[c.item] # "listed"
                      [] c.what = "again"    -> TRUE

(* The links the pages undertake to open: by run a dataset that can be       *)
(* fetched, listed or not, by job one of a list still to be read, unless a   *)
(* fetch of an earlier visit is under way, which takes the link with it; a   *)
(* document or a model of a list still to be read; a group of evaluations,   *)
(* whatever list the page has.                                              *)
Openable(i) ==
  /\ here /\ link.item = i /\ spent.faults = MaxFaults
  /\ \/ page = "datasets" /\ link.by = "run" /\ there[i] \in {"listed", "hidden"}
     \/ page = "evaluations" /\ there[i] = "listed"
     \/ there[i] = "listed" /\ list.fetch.at = "asked" /\ late = {}

Opened(i) ==      \* or the user has left, or the item was deleted first
  \/ ~here \/ (open /\ selected = i) \/ there[i] = "gone"
  \/ there[i] = "hidden" /\ link = [item |-> i, by |-> "job"]

(* A link that can be opened is opened, although the list is loading, and    *)
(* although it is known not to hold the item (datasets/page.tsx: "resolve    *)
(* the deep link independently of its cardinality").                        *)
LinkOpens == \A i \in Items : Openable(i) ~> Opened(i)

(* The same words, of every link to a dataset the server lists: those by job *)
(* are resolved from the list, and never if it is fresh and older than the   *)
(* dataset.                                                                 *)
DatasetLinkOpens ==
  \A i \in Items :
    (here /\ link.item = i /\ page = "datasets" /\ there[i] = "listed" /\ spent.faults = MaxFaults)
      ~> Opened(i)

InDialog(i) == box.job = i /\ ~box.handled

(* The end of an upload is told.  Of a dataset, wherever the user is by then; *)
(* so of a document whose dialog was closed over it: it is handed on, not    *)
(* lost.  In an open dialog as long as the page stays, unless its very first *)
(* look failed, which ends its polling.  This is said of the first end in a  *)
(* dialog, which hands no other on, and of success and failure: a cancelled  *)
(* document upload is shown as processing for ever.                         *)
EndIsTold ==
  \A i \in Items :
    /\ (Over(i) /\ (page = "datasets" \/ (InDialog(i) /\ box.minimized))) ~> (i \in told)
    /\ (Over(i) /\ InDialog(i))
         ~> (i \in told \/ ~Mounted \/ (box.seen = "none" /\ ~box.asking))
=============================================================================
