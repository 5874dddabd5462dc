----------------------------- MODULE JobStatus -----------------------------
(***************************************************************************)
(* What the jobs table promises about the status column of a job, seen     *)
(* from outside: which value may follow which, and who may write it.  The  *)
(* edges are those of the state diagram of docs/architecture.md, section   *)
(* 3.3, and one more that the code has and the diagram has not, kept apart *)
(* as Overwritten.                                                         *)
(***************************************************************************)
CONSTANT Jobs

VARIABLES
  status,   \* the status column
  held      \* the jobs a task of the worker's process has in hand

InFlightStatus == {"provisioning", "running"}
FinishedStatus == {"succeeded", "failed"}
TerminalStatus == FinishedStatus \union {"cancelled"}
RowStatus      == {"queued"} \union InFlightStatus \union TerminalStatus
Status         == RowStatus \union {"absent", "deleted"}

(* What the row of a task's job may say: that it is in flight, or that the  *)
(* user gave up, which nothing tells the task.                              *)
Undecided == InFlightStatus \union {"cancelled"}

Move(j, from, to) ==
  /\ status[j] \in from
  /\ status' = [status EXCEPT ![j] = to]

(* A task that decides its job has no more to do with it.                   *)
KeepsOrDrops(j, to) == held' = IF to \in FinishedStatus THEN held \ {j} ELSE held

Submitted(j) == Move(j, {"absent"}, "queued") /\ UNCHANGED held

(* The answer to a claim may be lost, and then no task has the row.         *)
Claimed(j) == Move(j, {"queued"}, "provisioning") /\ held' \in {held, held \union {j}}

Requeued(j) ==
  j \in held /\ Move(j, {"provisioning"}, "queued") /\ held' = held \ {j}

(* A task carries its job on, or decides it; it never takes it back.        *)
Worked(j) ==
  /\ j \in held
  /\ \E to \in InFlightStatus \union FinishedStatus :
       /\ Move(j, InFlightStatus \ {s \in {"running"} : to = "provisioning"}, to)
       /\ KeepsOrDrops(j, to)

(* Not in the diagram, which ends at cancelled, and by section 3.8 "a bug in *)
(* the code, not a design choice": a task that still has the job writes over *)
(* the cancel, for its writes are not guarded.  The claim CancelledIsFinal  *)
(* of JobLifecycle is what this edge breaks.                                *)
Overwritten(j) ==
  /\ j \in held
  /\ \E to \in InFlightStatus \union FinishedStatus :
       Move(j, {"cancelled"}, to) /\ KeepsOrDrops(j, to)

Cancelled(j) == Move(j, RowStatus, "cancelled") /\ UNCHANGED held
Deleted(j)   == Move(j, RowStatus \ {"queued"}, "deleted") /\ UNCHANGED held

(* Tasks end without a word: by an exception, or with the process.          *)
LetGo == held' \in SUBSET held /\ UNCHANGED status

(* A new process takes the rows in flight in hand, all at once.             *)
TakenOver ==
  /\ held = {}
  /\ held' = {j \in Jobs : status[j] \in InFlightStatus}
  /\ UNCHANGED status

Init == status = [j \in Jobs |-> "absent"] /\ held = {}

Next == \/ \E j \in Jobs : \/ Submitted(j) \/ Claimed(j) \/ Requeued(j) \/ Worked(j)
                           \/ Overwritten(j) \/ Cancelled(j) \/ Deleted(j)
        \/ LetGo \/ TakenOver

Spec == Init /\ [][Next]_<<status, held>>
=============================================================================
