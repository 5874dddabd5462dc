------------------------------ MODULE JobsPage ------------------------------
(***************************************************************************)
(* The jobs page of the studio (features/jobs): the list of jobs, which is  *)
(* polled only while it shows an active job, the panel that shows one job   *)
(* from a query of its own, and the cancel, retry and delete dialogs of the *)
(* panel with the mutations they start.  The cache outlives the page, the   *)
(* page's own state does not; a failed list replaces the page, panel and    *)
(* all, by an error.                                                        *)
(***************************************************************************)
EXTENDS ListPage

CONSTANTS
  Jobs,         \* ids of jobs
  NoJob,        \* no job is selected
  MaxMoves,     \* bound on the steps of the worker
  FirstStatus   \* the statuses the jobs may have at first: a set of functions

(* Of ListPage: list is the query of useJobs, selected and open the page's   *)
(* selectedJobId and detailOpen; owed says which of the list and the answer  *)
(* on its way to it were read before a change that the user made while the  *)
(* page had a list to show; the acts are mutations.                         *)
VARIABLES
  status,    \* server: the status of each job
  held,      \* server: the jobs the worker has in hand
  detail,    \* the data of the query of useJob for the selected job
  asking,    \* it is being fetched
  dialogs,   \* which of the panel's dialogs have their flag set
  pending    \* mutations under way: [op, job, heard]

DB == INSTANCE JobStatus

server == <<status, held>>
own  == <<selected, open, dialogs>>
vars == <<server, list, detail, asking, here, own, pending, owed, spent>>

Active   == {"queued"} \union DB!InFlightStatus
Finished == DB!TerminalStatus
NoRow    == "absent"              \* the id has not been given out
Gone     == "deleted"             \* the row was deleted
Dialogs  == {"cancel", "retry", "delete"}

ASSUME JobsAssumption ==
  /\ FirstStatus \subseteq [Jobs -> DB!Status]
  /\ NoData \notin [Jobs -> DB!Status]

Listed(j) == list.data # NoData /\ list.data[j] \notin {NoRow, Gone}

-----------------------------------------------------------------------------
(* What the page shows.                                                     *)

(* The panel is mounted with the page, open or not. *)
Shown   == IF Mounted /\ open /\ selected # NoJob THEN detail ELSE NoData

CanCancel == Shown \in Active
CanDelete == Shown \in Finished
CanRetry  == Shown \in {"failed", "cancelled"}

Offered == {d \in Dialogs : \/ d = "cancel" /\ CanCancel
                            \/ d = "retry"  /\ CanRetry
                            \/ d = "delete" /\ CanDelete}

(* A dialog whose flag is set appears as soon as the panel offers it, and    *)
(* nothing behind it can be clicked.                                        *)
Modal == dialogs \intersect Offered

InFlight(op) == \E m \in pending : m.op = op

Init ==
  /\ status \in FirstStatus /\ held = {j \in Jobs : status[j] \in DB!InFlightStatus}
  /\ list = [Q!Fresh EXCEPT !.fetch.at = "asked"]
  /\ detail = NoData /\ asking = FALSE
  /\ here = TRUE
  /\ selected = NoJob /\ open = FALSE /\ dialogs = {}
  /\ pending = {} /\ owed = {}
  /\ spent = [moves |-> 0, acts |-> 0, faults |-> 0, visits |-> 1]

-----------------------------------------------------------------------------
(* The server: jobs go their way, as JobStatus has it.  The worker keeps a   *)
(* job it claimed in hand, and may write over its cancel.  (Were it to lose *)
(* the job, the row would stay as it is: nothing new to the page.)          *)

Proceeds(j) ==
  /\ Spend("moves", MaxMoves)
  /\ (DB!Claimed(j) /\ j \in held') \/ DB!Requeued(j) \/ DB!Worked(j) \/ DB!Overwritten(j)
  /\ UNCHANGED <<list, detail, asking, here, own, pending, owed>>

-----------------------------------------------------------------------------
(* The two queries.                                                         *)

(* refetchInterval of useJobs, every five seconds.  Mutant: queued jobs are left out. *)
HasRunning == list.data # NoData /\ \E j \in Jobs : list.data[j] = "running"
HasActive == list.data # NoData /\ \E j \in Jobs : list.data[j] \in Active

PollList ==
  /\ here /\ HasActive /\ Q!Idle(list)
  /\ list' = Q!Asks(list)
  /\ UNCHANGED <<server, detail, asking, here, own, pending, owed, spent>>

ListIsRead ==
  /\ list.fetch.at = "asked"
  /\ list' = Q!Reads(list, status)
  /\ owed' = owed \ {"answer"}
  /\ UNCHANGED <<server, detail, asking, here, own, pending, spent>>

ListArrives ==
  /\ list.fetch.at = "read"
  /\ list' = Q!Arrives(list)
  /\ owed' = IF "answer" \in owed THEN owed ELSE {}
  /\ UNCHANGED <<server, detail, asking, here, own, pending, spent>>

(* The error takes the place of the page: the panel loses its dialogs, and   *)
(* the callbacks of its mutations are not called.                           *)
Unheard == {[m EXCEPT !.heard = FALSE] : m \in pending}

ListFails ==
  /\ list.fetch.at # "idle" /\ Fault
  /\ list' = Q!Fails(list)
  /\ IF here THEN dialogs' = {} /\ pending' = Unheard ELSE UNCHANGED <<dialogs, pending>>
  /\ UNCHANGED <<server, detail, asking, here, selected, open, owed>>

(* "Try again" of the error, or the window regains the focus. *)
AskAgain ==
  /\ here /\ Q!Idle(list)
  /\ list' = Q!Asks(list)
  /\ UNCHANGED <<server, detail, asking, here, own, pending, owed, spent>>

(* refetchInterval of useJob, every three seconds *)
PollDetail ==
  /\ here /\ selected # NoJob /\ ~asking /\ detail \in Active
  /\ asking' = TRUE
  /\ UNCHANGED <<server, list, detail, here, own, pending, owed, spent>>

(* A job that is gone is an error, and leaves the last answer in place. *)
DetailArrives ==
  /\ asking /\ asking' = FALSE
  /\ detail' = IF status[selected] = Gone THEN detail ELSE status[selected]
  /\ UNCHANGED <<server, list, here, own, pending, owed, spent>>

DetailFails ==
  /\ asking /\ asking' = FALSE /\ Fault
  /\ UNCHANGED <<server, list, detail, here, own, pending, owed>>

-----------------------------------------------------------------------------
(* The user on the page.                                                    *)

(* The cache may hold the job from an earlier look at it; it is fetched if    *)
(* it does not, or if what it holds is old.                                 *)
Looks(j) ==
  \/ j = selected /\ UNCHANGED <<detail, asking>>
  \/ j # selected /\ detail' = NoData /\ asking' = TRUE
  \/ j # selected /\ Listed(j) /\ detail' = list.data[j] /\ asking' \in BOOLEAN

Select(j) ==
  /\ Mounted /\ ~open /\ Listed(j)
  /\ selected' = j /\ open' = TRUE
  /\ Looks(j)
  /\ UNCHANGED <<server, list, here, dialogs, pending, owed, spent>>

ClosePanel ==
  /\ Mounted /\ open /\ Modal = {}
  /\ open' = FALSE
  /\ UNCHANGED <<server, list, detail, asking, here, selected, dialogs, pending, owed, spent>>

OpenDialog(d) ==
  /\ d \in Offered /\ Modal = {}
  /\ d = "retry" => ~InFlight("retry")
  /\ dialogs' = dialogs \union {d}
  /\ UNCHANGED <<server, list, detail, asking, here, selected, open, pending, owed, spent>>

Dismiss(d) ==
  /\ d \in Modal
  /\ dialogs' = dialogs \ {d}
  /\ UNCHANGED <<server, list, detail, asking, here, selected, open, pending, owed, spent>>

(* useCancelJob writes its optimistic status under a key no list has, so it  *)
(* changes nothing on the page; it also drops every fetch under way.        *)
Confirm(d) ==
  /\ d \in Modal /\ Act
  /\ d \in {"retry", "delete"} => ~InFlight(d)
  /\ pending' = pending \union {[op |-> d, job |-> selected, heard |-> TRUE]}
  /\ IF d = "cancel"
       THEN /\ dialogs' = dialogs \ {d}
            /\ list' = Q!Dropped(list) /\ asking' = FALSE
       ELSE UNCHANGED <<dialogs, list, asking>>
  /\ UNCHANGED <<server, detail, here, selected, open, owed>>

-----------------------------------------------------------------------------
(* A mutation ends: the server applies it or refuses it, and its answer or   *)
(* its failure invalidates every query of jobs the page uses.               *)

Applicable(m) == \/ m.op = "cancel" /\ status[m.job] \in Active
                 \/ m.op = "delete" /\ status[m.job] \in Finished
                 \/ m.op = "retry"  /\ status[m.job] \in {"failed", "cancelled"}

(* What the server does; j is the job the change shows at. *)
Applies(m, j) ==
  \/ m.op = "cancel" /\ j = m.job /\ DB!Cancelled(j)
  \/ m.op = "delete" /\ j = m.job /\ DB!Deleted(j)
  \/ m.op = "retry"  /\ DB!Submitted(j)

(* Mutant: only the query of the shown job is invalidated.                   *)
SettledForPanel(m) ==
  /\ pending' = pending \ {m}
  /\ UNCHANGED <<list, detail, here, selected>>
  /\ asking' = (asking \/ selected # NoJob)

Settled(m) ==
  /\ pending' = pending \ {m}
  /\ list' = Q!Invalidated(list, here)
  /\ asking' = (asking \/ selected # NoJob)
  /\ UNCHANGED <<detail, here, selected>>

(* The callbacks the panel passed: the retry closes its dialog, the delete   *)
(* closes its dialog and the panel, whichever job it shows by now.          *)
Heard(m) ==
  /\ dialogs' = IF m.heard /\ m.op # "cancel" THEN dialogs \ {m.op} ELSE dialogs
  /\ open'    = IF m.heard /\ m.op = "delete" THEN FALSE ELSE open

Succeeds(m) ==
  /\ m \in pending /\ Applicable(m)
  /\ \E j \in Jobs : Applies(m, j)
  /\ owed' = IF here /\ list.data # NoData THEN {"list", "answer"} ELSE owed
  /\ Settled(m) /\ Heard(m)
  /\ UNCHANGED spent

Refused(m) ==
  /\ m \in pending /\ ~Applicable(m)
  /\ Settled(m)
  /\ UNCHANGED <<server, open, dialogs, owed, spent>>

(* The request fails, or its answer is lost after the server has done it. *)
Breaks(m) ==
  /\ m \in pending /\ Fault
  /\ \/ UNCHANGED server
     \/ Applicable(m) /\ \E j \in Jobs : Applies(m, j)
  /\ Settled(m)
  /\ UNCHANGED <<open, dialogs, owed>>

-----------------------------------------------------------------------------
Leave ==
  /\ here /\ spent.visits < MaxVisits
  /\ here' = FALSE
  /\ selected' = NoJob /\ open' = FALSE /\ dialogs' = {}
  /\ detail' = NoData /\ asking' = FALSE
  /\ pending' = Unheard
  /\ UNCHANGED <<server, list, owed, spent>>

(* Back on the page: the list is fetched unless it is fresh.  A link from    *)
(* the chat (?job=) opens the panel at once.                                *)
Enter ==
  /\ ~here /\ here' = TRUE
  /\ list' \in {Q!Asks(list)}
       \union (IF list.data # NoData /\ ~list.stale /\ ~list.failed THEN {list} ELSE {})
  /\ \/ UNCHANGED <<own, detail, asking>>
     \/ \E j \in Jobs : /\ status[j] # NoRow
                        /\ selected' = j /\ open' = TRUE /\ dialogs' = {}
                        /\ Looks(j)
  /\ spent' = [spent EXCEPT !.visits = @ + 1]
  /\ UNCHANGED <<server, pending, owed>>

Next ==
  \/ \E j \in Jobs : \/ Proceeds(j) \/ Select(j)
  \/ PollList \/ ListIsRead \/ ListArrives \/ ListFails \/ AskAgain
  \/ PollDetail \/ DetailArrives \/ DetailFails
  \/ ClosePanel \/ \E d \in Dialogs : OpenDialog(d) \/ Dismiss(d) \/ Confirm(d)
  \/ \E m \in pending : Succeeds(m) \/ Refused(m) \/ Breaks(m)
  \/ Leave \/ Enter

(* Timers fire, requests are answered; a job or a user need not go on. *)
Fairness ==
  /\ WF_vars(PollList) /\ WF_vars(ListIsRead) /\ WF_vars(ListArrives)
  /\ WF_vars(PollDetail) /\ WF_vars(DetailArrives)
  /\ WF_vars(\E m \in pending : Succeeds(m) \/ Refused(m))

Spec == Init /\ [][Next]_vars /\ Fairness
=============================================================================
