----------------------------- MODULE Admission -----------------------------
(***************************************************************************)
(* How worker_loop admits jobs: each free slot makes it page through the   *)
(* whole queue, oldest first, against the GPUs that were free when the     *)
(* scan began, and claim the first job that fits with a guarded UPDATE.    *)
(*                                                                         *)
(* Between the read of a page and a claim, users submit and cancel, tasks  *)
(* end, and other replicas of the server claim.  What a claimed job does   *)
(* is module JobLifecycle; here it runs and then leaves its slot.          *)
(***************************************************************************)
EXTENDS Worker

CONSTANTS
  Workers,        \* server replicas, each with its own loop
  Demands,        \* GPUs a job may ask for
  PageSize,       \* _CANDIDATE_BATCH
  MaxFailures     \* bound: queries of a scan that raise

ASSUME AdmissionAssumption ==
  /\ MaxJobs \in Nat \ {0}
  /\ Demands \subseteq Nat
  /\ GpuBudget \in Nat
  /\ MaxConcurrent \in Nat \ {0}
  /\ PageSize \in Nat \ {0}
  /\ MaxFailures \in Nat

VARIABLES
  row,      \* "absent", "queued", "taken", or "over": cancelled or done
  demand,   \* estimate_gpu_demand of the row
  tasks,    \* in_flight of each worker
  phase,    \* "idle", or "scan" inside _claim_runnable_job
  held,     \* the tasks counted when gpu_free was computed
  page,     \* candidates of the current page still to be looked at
  full,     \* the page was read full, so another may follow
  cursor,   \* the last candidate looked at
  failures

scanVars == <<phase, held, page, full, cursor>>
admissionVars == <<row, demand, tasks, phase, held, page, full, cursor, failures>>

Demanded(S) == MapThenSumSet(LAMBDA j : demand[j], S)

FreeFor(w) == GpuBudget - Demanded(held[w])

Fits(w, j) == demand[j] <= FreeFor(w)

(* list_queued_candidates: the oldest PageSize queued rows after the cursor. *)
Page(after) ==
  LET queued == {j \in Jobs : row[j] = "queued" /\ j > after}
  IN  {j \in queued : Cardinality({k \in queued : k < j}) < PageSize}

ReadPage(w, after) ==
  /\ page' = [page EXCEPT ![w] = Page(after)]
  /\ full' = [full EXCEPT ![w] = Cardinality(Page(after)) = PageSize]

LeaveScan(w) ==
  /\ phase'  = [phase EXCEPT ![w] = "idle"]
  /\ held'   = [held EXCEPT ![w] = {}]
  /\ page'   = [page EXCEPT ![w] = {}]
  /\ full'   = [full EXCEPT ![w] = FALSE]
  /\ cursor' = [cursor EXCEPT ![w] = 0]
-----------------------------------------------------------------------------
AdmissionInit ==
  /\ row    = [j \in Jobs |-> "absent"]
  /\ demand = [j \in Jobs |-> 0]
  /\ tasks  = [w \in Workers |-> {}]
  /\ phase  = [w \in Workers |-> "idle"]
  /\ held   = [w \in Workers |-> {}]
  /\ page   = [w \in Workers |-> {}]
  /\ full   = [w \in Workers |-> FALSE]
  /\ cursor = [w \in Workers |-> 0]
  /\ failures = 0

(* create_job: a demand beyond the whole budget is refused.                 *)
CreateRow(j) ==
  /\ row[j] = "absent"
  /\ \A k \in 1..(j - 1) : row[k] # "absent"
  /\ \E d \in Demands : d <= GpuBudget /\ demand' = [demand EXCEPT ![j] = d]
  /\ row' = [row EXCEPT ![j] = "queued"]
  /\ UNCHANGED <<tasks, scanVars, failures>>

(* cancel_job: its write is not guarded and may meet a job already claimed. *)
Cancel(j) ==
  /\ row[j] \in {"queued", "taken"}
  /\ row' = [row EXCEPT ![j] = "over"]
  /\ UNCHANGED <<demand, tasks, scanVars, failures>>

(* Mutant: the GPUs are counted from the rows, as if a cancel freed them.   *)
BeginScan_CountsRows(w) ==
  /\ phase[w] = "idle"
  /\ Cardinality(tasks[w]) < MaxConcurrent
  /\ phase' = [phase EXCEPT ![w] = "scan"]
  /\ held'  = [held EXCEPT ![w] = {j \in tasks[w] : row[j] = "taken"}]
  /\ ReadPage(w, 0)
  /\ UNCHANGED <<row, demand, tasks, cursor, failures>>

BeginScan(w) ==
  /\ phase[w] = "idle"
  /\ Cardinality(tasks[w]) < MaxConcurrent
  /\ phase' = [phase EXCEPT ![w] = "scan"]
  /\ held'  = [held EXCEPT ![w] = tasks[w]]
  /\ ReadPage(w, 0)
  /\ UNCHANGED <<row, demand, tasks, cursor, failures>>

(* Mutant: ORDER BY created_at DESC within a page.                          *)
IsNext_Newest(w, j) == phase[w] = "scan" /\ j \in page[w] /\ \A k \in page[w] : k <= j

IsNext(w, j) == phase[w] = "scan" /\ j \in page[w] /\ \A k \in page[w] : j <= k

(* Mutant: the UPDATE of claim_job has no status guard.                     *)
ClaimRow_Unguarded(w, j) ==
  /\ IsNext(w, j)
  /\ Fits(w, j)
  /\ row' = [row EXCEPT ![j] = "taken"]
  /\ tasks' = [tasks EXCEPT ![w] = @ \union {j}]
  /\ LeaveScan(w)
  /\ UNCHANGED <<demand, failures>>

ClaimRow(w, j) ==
  /\ IsNext(w, j)
  /\ Fits(w, j)
  /\ row[j] = "queued"
  /\ row' = [row EXCEPT ![j] = "taken"]
  /\ tasks' = [tasks EXCEPT ![w] = @ \union {j}]
  /\ LeaveScan(w)
  /\ UNCHANGED <<demand, failures>>

(* Mutant: the scan returns at the first candidate it can not claim.        *)
PassOver_Stops(w, j) ==
  /\ IsNext(w, j)
  /\ ~Fits(w, j) \/ row[j] # "queued"
  /\ LeaveScan(w)
  /\ UNCHANGED <<row, demand, tasks, failures>>

(* The candidate does not fit, or the guard of claim_job finds it gone:     *)
(* cancelled, or claimed by another worker, since the page was read.        *)
PassOver(w, j) ==
  /\ IsNext(w, j)
  /\ ~Fits(w, j) \/ row[j] # "queued"
  /\ page' = [page EXCEPT ![w] = @ \ {j}]
  /\ cursor' = [cursor EXCEPT ![w] = j]
  /\ UNCHANGED <<row, demand, tasks, phase, held, full, failures>>

NextPage(w) ==
  /\ phase[w] = "scan" /\ page[w] = {} /\ full[w]
  /\ ReadPage(w, cursor[w])
  /\ UNCHANGED <<row, demand, tasks, phase, held, cursor, failures>>

(* A short page was the last: nothing to admit, the loop sleeps.            *)
EndScan(w) ==
  /\ phase[w] = "scan" /\ page[w] = {} /\ ~full[w]
  /\ LeaveScan(w)
  /\ UNCHANGED <<row, demand, tasks, failures>>

(* A database error in the scan is logged, and the loop starts over.        *)
ScanError(w) ==
  /\ failures < MaxFailures
  /\ failures' = failures + 1
  /\ phase[w] = "scan"
  /\ LeaveScan(w)
  /\ UNCHANGED <<row, demand, tasks>>

(* _reap: the task is done, its slot and its GPUs are free.                 *)
TaskEnds(w, j) ==
  /\ j \in tasks[w]
  /\ tasks' = [tasks EXCEPT ![w] = @ \ {j}]
  /\ row' = [row EXCEPT ![j] = "over"]
  /\ UNCHANGED <<demand, scanVars, failures>>

(* All slots are taken: the loop sleeps.                                    *)
SlotsTaken(w) ==
  /\ phase[w] = "idle"
  /\ Cardinality(tasks[w]) >= MaxConcurrent
  /\ UNCHANGED admissionVars

Scan(w) == BeginScan(w) \/ NextPage(w) \/ EndScan(w)
           \/ \E j \in Jobs : ClaimRow(w, j) \/ PassOver(w, j)

AdmissionNext == \/ \E j \in Jobs : CreateRow(j) \/ Cancel(j)
        \/ \E w \in Workers :
             \/ Scan(w) \/ ScanError(w) \/ SlotsTaken(w)
             \/ \E j \in Jobs : TaskEnds(w, j)

AdmissionSpec == AdmissionInit /\ [][AdmissionNext]_admissionVars

(* Every loop keeps scanning, and tasks that hold no GPU end.  Nothing is   *)
(* assumed about training jobs.                                             *)
AdmissionFairness ==
  /\ \A w \in Workers : WF_admissionVars(Scan(w))
  /\ WF_admissionVars(\E w \in Workers, j \in Jobs : demand[j] = 0 /\ TaskEnds(w, j))

AdmissionFairSpec == AdmissionSpec /\ AdmissionFairness
-----------------------------------------------------------------------------
(* The type invariant.                                                      *)
AdmissionTypeOK ==
  /\ row    \in [Jobs -> {"absent", "queued", "taken", "over"}]
  /\ demand \in [Jobs -> Nat]
  /\ tasks  \in [Workers -> SUBSET Jobs]
  /\ phase  \in [Workers -> {"idle", "scan"}]
  /\ held   \in [Workers -> SUBSET Jobs]
  /\ page   \in [Workers -> SUBSET Jobs]
  /\ full   \in [Workers -> BOOLEAN]
  /\ cursor \in [Workers -> {0} \union Jobs]
  /\ failures \in 0..MaxFailures

(* A job runs at one worker only, and leaves the queue for good, however    *)
(* many replicas read it in their pages before the first claim.             *)
NoDoubleRun ==
  /\ \A v, w \in Workers : v # w => tasks[v] \intersect tasks[w] = {}
  /\ \A w \in Workers : \A j \in tasks[w] : row[j] \in {"taken", "over"}

(* The tasks of a worker fit its budget and its slots, though what was free *)
(* is counted once, before a scan whose pages and claims are awaited one by *)
(* one, and though a cancelled job keeps its task, and its GPUs, for a      *)
(* while: the budget WithinBudget of JobLifecycle takes for granted.        *)
TasksFit ==
  \A w \in Workers : /\ Demanded(tasks[w]) <= GpuBudget
                     /\ Cardinality(tasks[w]) <= MaxConcurrent

(* A claim takes the oldest of the jobs that are queued when it commits and *)
(* fit what was free.                                                       *)
ClaimsOldestFit ==
  [][\A w \in Workers, j \in Jobs : j \in tasks'[w] \ tasks[w] =>
       \A k \in 1..(j - 1) : row[k] = "queued" => ~Fits(w, k)]_admissionVars

(* With more slots than GPUs (4 and 1 by default), CPU jobs never wait for  *)
(* training jobs, even ones that never end and fill whole pages of the      *)
(* queue before them: again and again no CPU job is in the queue.           *)
CpuJobsRun == []<>(\A j \in Jobs : row[j] = "queued" => demand[j] > 0)
=============================================================================
