---------------------------- MODULE JobLifecycle ----------------------------
(***************************************************************************)
(* The life of a job: the row in the jobs table, the worker that claims,   *)
(* dispatches and polls it, the API calls that create, cancel and delete   *)
(* it, the Kubernetes Job that does the work, and the restart of the       *)
(* server process in between.                                              *)
(*                                                                         *)
(* The worker and the API handlers are asyncio tasks of one process, so a  *)
(* step here is what one of them does up to the next await that lets the   *)
(* others run.  One server process runs at a time (replicas: 1, strategy:  *)
(* Recreate).  Job ids are 1..MaxJobs in the order of created_at.          *)
(***************************************************************************)
EXTENDS Worker

CONSTANTS
  Specs,          \* kinds of job: [gpus: Nat, needsRun: BOOLEAN]
  MaxCrashes,     \* bound: times the server process dies
  Requests,       \* what users do beside creating jobs: "cancel", "delete"
  Faults          \* which failures a behaviour may contain

FaultKinds ==
  { "claimLost",      \* the claim commits, its answer never arrives
    "taskError",      \* an exception other than JobBuildError leaves _run_job
    "submitLost",     \* the cluster creates the Job, the call raises
    "statusError",    \* a status call meets an API error that is not a 404
    "cancelError",    \* backend.cancel logs and swallows a failed delete
    "recoveryError" } \* _resume_inflight_jobs raises

ASSUME ConstantsAssumption ==
  /\ MaxJobs \in Nat \ {0}
  /\ Specs \subseteq [gpus : Nat, needsRun : BOOLEAN]
  /\ Specs # {}
  /\ GpuBudget \in Nat
  /\ MaxConcurrent \in Nat \ {0}
  /\ MaxCrashes \in Nat
  /\ Requests \subseteq {"cancel", "delete"}
  /\ Faults \subseteq FaultKinds

VARIABLES
  status,   \* jobs.status, "absent" before the INSERT, "deleted" after the DELETE
  handle,   \* jobs.backend_handle
  spec,     \* what the row's config asks for, frozen at creation
  run,      \* state of the MLflow run jobs.mlflow_run_id names
  pod,      \* the Kubernetes Job of that name
  worker,   \* where worker_loop is
  pc,       \* where the task of each job is
  told,     \* transitioned_to_running; during recovery: the listed row said running
  mine,     \* the task holds a non-empty mlflow_run_id
  api,      \* where the API handlers parked on each job are
  crashes

rowVars  == <<status, handle, spec>>
taskVars == <<pc, told, mine>>
vars     == <<status, handle, spec, run, pod, worker, pc, told, mine,
              api, crashes>>

(* The jobs a task of this process has in hand, those of the recovery       *)
(* included.                                                                *)
InHand == {j \in Jobs : pc[j] # "none"}

DB == INSTANCE JobStatus WITH held <- InHand

NoSpec == [gpus |-> 0, needsRun |-> FALSE]

RunState == {"none", "active", "finished", "failed"}

(* "expired" is a Job that succeeded and whose TTL ran out: gone, as "none". *)
PodState == {"none", "active", "stuck", "ok", "bad", "expired"}

SetupSteps    == {"setup", "build", "submit"}
PollSteps     == {"poll", "mark", "exit0", "writeOk", "fail", "reclaim", "writeFail"}
TaskSteps     == SetupSteps \union PollSteps \union {"unsubmitted", "record"}
RecoverySteps == {"probe", "adopt", "gone", "resume"}

InFlight == {j \in Jobs : pc[j] \in TaskSteps}

Up == worker # "down"

Exists(j) == status[j] \notin {"absent", "deleted"}

(* UPDATE jobs SET status = s WHERE id = j: unguarded, a no-op on no row.   *)
Write(j, s) == status' = IF Exists(j) THEN [status EXCEPT ![j] = s] ELSE status

Goto(j, step) == pc' = [pc EXCEPT ![j] = step]

Gpus(S) == MapThenSumSet(LAMBDA j : spec[j].gpus, S)

(* Mutant: what is in flight is not subtracted.                             *)
GpuFree_IgnoresTasks == GpuBudget

GpuFree == GpuBudget - Gpus(InFlight)

Gone(j) == pod[j] \in {"none", "expired"}

HoldsGpus(j) == pod[j] \in {"active", "stuck"}
-----------------------------------------------------------------------------
Init ==
  /\ status = [j \in Jobs |-> "absent"]
  /\ handle = [j \in Jobs |-> "none"]
  /\ spec   = [j \in Jobs |-> NoSpec]
  /\ run    = [j \in Jobs |-> "none"]
  /\ pod    = [j \in Jobs |-> "none"]
  /\ worker = "start"
  /\ pc     = [j \in Jobs |-> "none"]
  /\ told   = [j \in Jobs |-> FALSE]
  /\ mine   = [j \in Jobs |-> FALSE]
  /\ api    = [j \in Jobs |-> {}]
  /\ crashes = 0
-----------------------------------------------------------------------------
(* The API.  One handler of a kind is in flight per job at a time (bound).  *)

Create(j) ==
  /\ Up
  /\ status[j] = "absent"
  /\ \A k \in 1..(j - 1) : status[k] # "absent"
  /\ \E s \in Specs :
       /\ s.gpus <= GpuBudget
       /\ spec' = [spec EXCEPT ![j] = s]
  /\ status' = [status EXCEPT ![j] = "queued"]
  /\ UNCHANGED <<handle, run, pod, worker, taskVars, api, crashes>>

Park(j, step)   == api' = [api EXCEPT ![j] = @ \union {step}]
Unpark(j, step) == api' = [api EXCEPT ![j] = @ \ {step}]

(* A running job is first killed on its backend, a queued or provisioning   *)
(* one is not.                                                              *)
CancelRead(j) ==
  /\ Up /\ "cancel" \in Requests
  /\ api[j] \intersect {"kill", "cancel"} = {}
  /\ \/ status[j] = "running" /\ Park(j, "kill")
     \/ status[j] \in {"queued", "provisioning"} /\ Park(j, "cancel")
  /\ UNCHANGED <<rowVars, run, pod, worker, taskVars, crashes>>

(* backend.cancel: deletes the Job; an API error is logged and swallowed.   *)
BackendCancel(j) ==
  \/ pod' = [pod EXCEPT ![j] = IF @ = "expired" THEN @ ELSE "none"]
  \/ "cancelError" \in Faults /\ UNCHANGED pod

CancelKill(j) ==
  /\ "kill" \in api[j]
  /\ IF handle[j] = "real" THEN BackendCancel(j) ELSE UNCHANGED pod
  /\ api' = [api EXCEPT ![j] = (@ \ {"kill"}) \union {"cancel"}]
  /\ UNCHANGED <<rowVars, run, worker, taskVars, crashes>>

CancelWrite(j) ==
  /\ "cancel" \in api[j]
  /\ Write(j, "cancelled")
  /\ Unpark(j, "cancel")
  /\ UNCHANGED <<handle, spec, run, pod, worker, taskVars, crashes>>

DeleteRead(j) ==
  /\ Up /\ "delete" \in Requests
  /\ "delete" \notin api[j]
  /\ status[j] \in DB!TerminalStatus
  /\ Park(j, "delete")
  /\ UNCHANGED <<rowVars, run, pod, worker, taskVars, crashes>>

DeleteWrite(j) ==
  /\ "delete" \in api[j]
  /\ Write(j, "deleted")
  /\ Unpark(j, "delete")
  /\ UNCHANGED <<handle, spec, run, pod, worker, taskVars, crashes>>
-----------------------------------------------------------------------------
(* Mutant: a job that needs exactly what is free does not fit.              *)
Admissible_OffByOne(j) ==
  /\ worker = "idle"
  /\ Cardinality(InFlight) < MaxConcurrent
  /\ spec[j].gpus < GpuFree
  /\ status[j] = "queued"

(* The worker loop claims a queued job that fits the GPUs and the slots     *)
(* free.  Which one the scan of the queue picks, and that its older view of *)
(* what is free never admits more than this, is module Admission.           *)
Admissible(j) ==
  /\ worker = "idle"
  /\ Cardinality(InFlight) < MaxConcurrent
  /\ spec[j].gpus <= GpuFree
  /\ status[j] = "queued"

Claim(j) ==
  /\ Admissible(j)
  /\ status' = [status EXCEPT ![j] = "provisioning"]
  /\ Goto(j, "setup")
  /\ UNCHANGED <<handle, spec, run, pod, worker, told, mine, api, crashes>>

(* The loop logs the exception and retries; no task starts for the row.     *)
ClaimLost(j) ==
  /\ "claimLost" \in Faults
  /\ Admissible(j)
  /\ status' = [status EXCEPT ![j] = "provisioning"]
  /\ UNCHANGED <<handle, spec, run, pod, worker, taskVars, api, crashes>>

(* Nothing was admitted: the loop sleeps and looks again.                   *)
Sleep == worker = "idle" /\ UNCHANGED vars
-----------------------------------------------------------------------------
(* A job's task: _run_job up to the submit.                                 *)

(* _finish_mlflow_run: best effort, whatever its critical flag says.        *)
FinishRun(j, s) ==
  IF mine[j] THEN \E r \in {run[j], s} : run' = [run EXCEPT ![j] = r]
             ELSE UNCHANGED run

EndTask(j) ==
  /\ Goto(j, "none")
  /\ told' = [told EXCEPT ![j] = FALSE]
  /\ mine' = [mine EXCEPT ![j] = FALSE]

CreateRun(j) ==
  /\ pc[j] = "setup"
  /\ run' = [run EXCEPT ![j] = "active"]
  /\ mine' = [mine EXCEPT ![j] = TRUE]
  /\ Goto(j, "build")
  /\ UNCHANGED <<rowVars, pod, worker, told, api, crashes>>

(* Training goes on without a run; sdg, upload and eval jobs fail at once.  *)
CreateRunFails(j) ==
  /\ pc[j] = "setup"
  /\ IF spec[j].needsRun
       THEN Write(j, "failed") /\ EndTask(j)
       ELSE Goto(j, "build") /\ UNCHANGED <<status, told, mine>>
  /\ UNCHANGED <<handle, spec, run, pod, worker, api, crashes>>

Build(j) ==
  /\ pc[j] = "build"
  /\ Goto(j, "submit")
  /\ UNCHANGED <<rowVars, run, pod, worker, told, mine, api, crashes>>

(* No builder, or a JobBuildError; the MLflow run is not finished.          *)
BuildFails(j) ==
  /\ pc[j] = "build"
  /\ Write(j, "failed")
  /\ EndTask(j)
  /\ UNCHANGED <<handle, spec, run, pod, worker, api, crashes>>

(* Any other exception outside the two try blocks ends the task; the loop   *)
(* logs it and writes nothing.                                              *)
TaskError(j) ==
  /\ "taskError" \in Faults
  /\ pc[j] \in {"setup", "build", "unsubmitted", "record", "writeFail"}
  /\ EndTask(j)
  /\ UNCHANGED <<rowVars, run, pod, worker, api, crashes>>

(* The name of the Job is derived from the job id, so a live one collides.  *)
Submit(j) ==
  /\ pc[j] = "submit"
  /\ Gone(j)
  /\ pod' = [pod EXCEPT ![j] = "active"]
  /\ Goto(j, "record")
  /\ UNCHANGED <<rowVars, run, worker, told, mine, api, crashes>>

SubmitFails(j) ==
  /\ pc[j] = "submit"
  /\ \/ UNCHANGED pod
     \/ "submitLost" \in Faults /\ Gone(j) /\ pod' = [pod EXCEPT ![j] = "active"]
  /\ FinishRun(j, "failed")
  /\ Goto(j, "unsubmitted")
  /\ UNCHANGED <<rowVars, worker, told, mine, api, crashes>>

Record(j) ==
  /\ pc[j] = "record"
  /\ Write(j, "provisioning")
  /\ handle' = [handle EXCEPT ![j] = IF Exists(j) THEN "real" ELSE @]
  /\ Goto(j, "poll")
  /\ UNCHANGED <<spec, run, pod, worker, told, mine, api, crashes>>
-----------------------------------------------------------------------------
(* A job's task: _poll_and_finalize.                                        *)

(* Mutant: a failed Job is taken for one that exited with 0.                *)
Poll_IgnoresExitCode(j) ==
  /\ pc[j] = "poll"
  /\ \/ pod[j] = "active" /\ ~told[j] /\ Goto(j, "mark")
     \/ pod[j] \in {"ok", "bad"} /\ Goto(j, "exit0")
     \/ pod[j] = "stuck" /\ Goto(j, "reclaim")
     \/ Gone(j) /\ Goto(j, "fail")
  /\ UNCHANGED <<rowVars, run, pod, worker, told, mine, api, crashes>>

(* Exit code 1 and a Job that is gone both fail the job.  A poll that finds *)
(* it running and has already said so changes nothing.                      *)
Poll(j) ==
  /\ pc[j] = "poll"
  /\ \/ pod[j] = "active" /\ ~told[j] /\ Goto(j, "mark")
     \/ pod[j] = "ok" /\ Goto(j, "exit0")
     \/ pod[j] = "stuck" /\ Goto(j, "reclaim")
     \/ (pod[j] = "bad" \/ Gone(j)) /\ Goto(j, "fail")
  /\ UNCHANGED <<rowVars, run, pod, worker, told, mine, api, crashes>>

(* A failed read of the Job fails the job; a failed look at its pods hides  *)
(* that one is stuck.                                                       *)
PollError(j) ==
  /\ "statusError" \in Faults
  /\ pc[j] = "poll"
  /\ \/ Goto(j, "fail")
     \/ pod[j] = "stuck" /\ ~told[j] /\ Goto(j, "mark")
  /\ UNCHANGED <<rowVars, run, pod, worker, told, mine, api, crashes>>

MarkRunning(j) ==
  /\ pc[j] = "mark"
  /\ Write(j, "running")
  /\ told' = [told EXCEPT ![j] = TRUE]
  /\ Goto(j, "poll")
  /\ UNCHANGED <<handle, spec, run, pod, worker, mine, api, crashes>>

(* Exit code 0: tags, on_success, and the run is finished.  A task with no  *)
(* run id of its own looks for one in the container's log.                  *)
FinishOk(j) ==
  /\ pc[j] = "exit0"
  /\ IF mine[j]
       THEN FinishRun(j, "finished")
       ELSE \E r \in {"none", "active", "finished"} : run' = [run EXCEPT ![j] = r]
  /\ Goto(j, "writeOk")
  /\ UNCHANGED <<rowVars, pod, worker, told, mine, api, crashes>>

(* An exception on the way there is a failure of the job.                   *)
FinishOkError(j) ==
  /\ "taskError" \in Faults
  /\ pc[j] \in {"exit0", "writeOk"}
  /\ FinishRun(j, "failed")
  /\ Goto(j, "writeFail")
  /\ UNCHANGED <<rowVars, pod, worker, told, mine, api, crashes>>

(* Mutant: the Job that can never start is left on the cluster.             *)
FinishFailed_NoReclaim(j) ==
  /\ pc[j] \in {"fail", "reclaim"}
  /\ FinishRun(j, "failed")
  /\ Goto(j, "writeFail")
  /\ UNCHANGED <<rowVars, pod, worker, told, mine, api, crashes>>

(* A Job that can never start is deleted; the run is finished as FAILED.    *)
FinishFailed(j) ==
  /\ pc[j] \in {"fail", "reclaim"}
  /\ IF pc[j] = "reclaim" THEN BackendCancel(j) ELSE UNCHANGED pod
  /\ FinishRun(j, "failed")
  /\ Goto(j, "writeFail")
  /\ UNCHANGED <<rowVars, worker, told, mine, api, crashes>>

WriteSucceeded(j) ==
  /\ pc[j] = "writeOk"
  /\ Write(j, "succeeded")
  /\ EndTask(j)
  /\ UNCHANGED <<handle, spec, run, pod, worker, api, crashes>>

(* Mutant: no return after a failed submission.                             *)
WriteFailed_FallsThrough(j) ==
  /\ pc[j] \in {"writeFail", "unsubmitted"}
  /\ Write(j, "failed")
  /\ IF pc[j] = "unsubmitted"
       THEN Goto(j, "record") /\ UNCHANGED <<told, mine>>
       ELSE EndTask(j)
  /\ UNCHANGED <<handle, spec, run, pod, worker, api, crashes>>

WriteFailed(j) ==
  /\ pc[j] \in {"writeFail", "unsubmitted"}
  /\ Write(j, "failed")
  /\ handle' = [handle EXCEPT ![j] =
                  IF pc[j] = "unsubmitted" /\ Exists(j) THEN "fallback" ELSE @]
  /\ EndTask(j)
  /\ UNCHANGED <<spec, run, pod, worker, api, crashes>>
-----------------------------------------------------------------------------
(* Restart recovery: the rows in flight are listed once, each is probed on  *)
(* the cluster, and those to be adopted become tasks when all are decided.  *)

ListInFlight ==
  LET listed == {j \in Jobs : status[j] \in DB!InFlightStatus}
  IN  /\ worker = "start"
      /\ worker' = "recover"
      /\ pc'   = [j \in Jobs |-> IF j \in listed THEN "probe" ELSE "none"]
      /\ told' = [j \in Jobs |-> j \in listed /\ status[j] = "running"]
      /\ mine' = [j \in Jobs |-> j \in listed /\ run[j] # "none"]
      /\ UNCHANGED <<rowVars, run, pod, api, crashes>>

Listed(j) == IF told[j] THEN "running" ELSE "provisioning"

Deciding == {j \in Jobs : pc[j] \in {"adopt", "gone"}}

(* Mutant: only Jobs that still run are resumed.                            *)
Probe_SkipsFinished(j) ==
  /\ worker = "recover"
  /\ pc[j] = "probe"
  /\ Deciding = {}
  /\ \/ Gone(j) /\ Goto(j, "gone") /\ UNCHANGED <<told, mine>>
     \/ HoldsGpus(j) /\ handle[j] = "real" /\ Goto(j, "resume") /\ UNCHANGED <<told, mine>>
     \/ HoldsGpus(j) /\ handle[j] # "real" /\ Goto(j, "adopt") /\ UNCHANGED <<told, mine>>
     \/ pod[j] \in {"ok", "bad"} /\ EndTask(j)
  /\ UNCHANGED <<rowVars, run, pod, worker, api, crashes>>

(* The handle is read from the row or rebuilt from the job id.              *)
Probe(j) ==
  /\ worker = "recover"
  /\ pc[j] = "probe"
  /\ Deciding = {}
  /\ \/ Gone(j) /\ Goto(j, "gone")
     \/ ~Gone(j) /\ handle[j] = "real" /\ Goto(j, "resume")
     \/ ~Gone(j) /\ handle[j] # "real" /\ Goto(j, "adopt")
  /\ UNCHANGED <<rowVars, run, pod, worker, told, mine, api, crashes>>

(* Mutant: any API error is read as a 404.                                  *)
ProbeError_IsGone(j) ==
  /\ "statusError" \in Faults
  /\ worker = "recover"
  /\ pc[j] = "probe"
  /\ Deciding = {}
  /\ Goto(j, "gone")
  /\ UNCHANGED <<rowVars, run, pod, worker, told, mine, api, crashes>>

(* Indeterminate: the job is left untouched.                                *)
ProbeError(j) ==
  /\ "statusError" \in Faults
  /\ worker = "recover"
  /\ pc[j] = "probe"
  /\ Deciding = {}
  /\ EndTask(j)
  /\ UNCHANGED <<rowVars, run, pod, worker, api, crashes>>

(* Mutant: the rebuilt handle is not persisted.                             *)
Adopt_ForgetsHandle(j) ==
  /\ pc[j] = "adopt"
  /\ Goto(j, "resume")
  /\ UNCHANGED <<rowVars, run, pod, worker, told, mine, api, crashes>>

(* The two writes of recovery are guarded by the status that was listed.    *)
Adopt(j) ==
  /\ pc[j] = "adopt"
  /\ IF status[j] = Listed(j)
       THEN /\ handle' = [handle EXCEPT ![j] = "real"]
            /\ Goto(j, "resume")
            /\ UNCHANGED <<told, mine>>
       ELSE EndTask(j) /\ UNCHANGED handle
  /\ UNCHANGED <<status, spec, run, pod, worker, api, crashes>>

MarkGone_Unguarded(j) ==
  /\ pc[j] = "gone"
  /\ Write(j, IF told[j] THEN "failed" ELSE "queued")
  /\ EndTask(j)
  /\ UNCHANGED <<handle, spec, run, pod, worker, api, crashes>>

MarkGone(j) ==
  /\ pc[j] = "gone"
  /\ status' = IF status[j] # Listed(j) THEN status
               ELSE [status EXCEPT ![j] = IF told[j] THEN "failed" ELSE "queued"]
  /\ EndTask(j)
  /\ UNCHANGED <<handle, spec, run, pod, worker, api, crashes>>

Resume ==
  /\ worker = "recover"
  /\ \A j \in Jobs : pc[j] \in {"none", "resume"}
  /\ worker' = "idle"
  /\ pc' = [j \in Jobs |-> IF pc[j] = "resume" THEN "poll" ELSE "none"]
  /\ UNCHANGED <<rowVars, run, pod, told, mine, api, crashes>>

(* The exception is logged and the loop starts without the listed jobs.     *)
RecoveryError ==
  /\ "recoveryError" \in Faults
  /\ worker \in {"start", "recover"}
  /\ worker' = "idle"
  /\ pc'   = [j \in Jobs |-> "none"]
  /\ told' = [j \in Jobs |-> FALSE]
  /\ mine' = [j \in Jobs |-> FALSE]
  /\ UNCHANGED <<rowVars, run, pod, api, crashes>>
-----------------------------------------------------------------------------
(* The server process dies, with every task and handler in it, or is        *)
(* stopped, which detaches the tasks at the await they are at.              *)
Crash ==
  /\ Up
  /\ crashes < MaxCrashes
  /\ crashes' = crashes + 1
  /\ worker' = "down"
  /\ pc'   = [j \in Jobs |-> "none"]
  /\ told' = [j \in Jobs |-> FALSE]
  /\ mine' = [j \in Jobs |-> FALSE]
  /\ api'  = [j \in Jobs |-> {}]
  /\ UNCHANGED <<rowVars, run, pod>>

Boot ==
  /\ worker = "down"
  /\ worker' = "start"
  /\ UNCHANGED <<rowVars, run, pod, taskVars, api, crashes>>

(* The cluster.  A finished Job lives an hour, and a task polls every two   *)
(* seconds: it expires only while no task of this process has it.           *)
PodEnds(j) ==
  /\ pod[j] = "active"
  /\ \E s \in {"ok", "bad", "stuck"} : pod' = [pod EXCEPT ![j] = s]
  /\ UNCHANGED <<rowVars, run, worker, taskVars, api, crashes>>

PodExpires(j) ==
  /\ pod[j] \in {"ok", "bad"}
  /\ j \notin InFlight
  /\ pod' = [pod EXCEPT ![j] = IF @ = "ok" THEN "expired" ELSE "none"]
  /\ UNCHANGED <<rowVars, run, worker, taskVars, api, crashes>>
-----------------------------------------------------------------------------
Api(j)     == \/ Create(j) \/ CancelRead(j) \/ CancelKill(j) \/ CancelWrite(j)
              \/ DeleteRead(j) \/ DeleteWrite(j)
Admit      == \E j \in Jobs : Claim(j)
SetupTask(j) == CreateRun(j) \/ CreateRunFails(j) \/ Build(j) \/ BuildFails(j)
                \/ Submit(j) \/ SubmitFails(j) \/ Record(j)
PollTask(j) == Poll(j) \/ MarkRunning(j) \/ FinishOk(j) \/ FinishFailed(j)
               \/ WriteSucceeded(j) \/ WriteFailed(j)
Task(j)    == SetupTask(j) \/ PollTask(j)
Recovery   == ListInFlight \/ Resume \/ \E j \in Jobs : Probe(j) \/ Adopt(j) \/ MarkGone(j)
Fault(j)   == ClaimLost(j) \/ TaskError(j) \/ PollError(j) \/ FinishOkError(j) \/ ProbeError(j)
Cluster(j) == PodEnds(j) \/ PodExpires(j)

Next ==
  \/ \E j \in Jobs : Api(j) \/ Task(j) \/ Fault(j) \/ Cluster(j)
  \/ Admit \/ Recovery \/ RecoveryError \/ Crash \/ Boot \/ Sleep

Spec == Init /\ [][Next]_vars

(* The event loop runs every task that can step, a restarted pod boots, and *)
(* every container ends.  Users, faults, crashes and expiry are not fair.   *)
Fairness ==
  /\ WF_vars(Admit) /\ WF_vars(Recovery) /\ WF_vars(Boot)
  /\ \A j \in Jobs : WF_vars(Task(j)) /\ WF_vars(PodEnds(j))

FairSpec == Spec /\ Fairness
-----------------------------------------------------------------------------
(* Properties.                                                              *)

(* The type invariant of the component.                                     *)
TypeOK ==
  /\ status \in [Jobs -> DB!Status]
  /\ handle \in [Jobs -> {"none", "real", "fallback"}]
  /\ spec   \in [Jobs -> Specs \union {NoSpec}]
  /\ run    \in [Jobs -> RunState]
  /\ pod    \in [Jobs -> PodState]
  /\ worker \in {"down", "start", "recover", "idle"}
  /\ pc     \in [Jobs -> TaskSteps \union RecoverySteps \union {"none"}]
  /\ told   \in [Jobs -> BOOLEAN]
  /\ mine   \in [Jobs -> BOOLEAN]
  /\ api \in [Jobs -> SUBSET {"kill", "cancel", "delete"}]
  /\ crashes \in 0..MaxCrashes

(* The inductive invariant, one idea a conjunct.                            *)

QueuedIsFree ==
  \A j \in Jobs : status[j] \in {"absent", "queued"} => Gone(j) /\ pc[j] = "none"

SetupIsFree == \A j \in Jobs : pc[j] \in SetupSteps \union {"gone"} => Gone(j)

TaskOwnsRow ==
  \A j \in Jobs : pc[j] # "none" => status[j] \in DB!Undecided \union {"deleted"}

SetupNotRunning ==
  \A j \in Jobs : pc[j] \in SetupSteps \union {"unsubmitted", "record"} => status[j] # "running"

HandleKept ==
  \A j \in Jobs :
    /\ pc[j] \in PollSteps \union {"resume"} /\ Exists(j) => handle[j] = "real"
    /\ status[j] = "running" => handle[j] = "real"

PhasesApart ==
  /\ worker # "idle"    => \A j \in Jobs : pc[j] \notin TaskSteps
  /\ worker # "recover" => \A j \in Jobs : pc[j] \notin RecoverySteps

DeleteAfterEnd ==
  \A j \in Jobs : "delete" \in api[j] =>
    /\ status[j] \notin {"absent", "queued"}
    /\ worker # "idle" => status[j] \in DB!TerminalStatus \union {"deleted"}

OkIsTrue ==
  \A j \in Jobs : pc[j] \in {"exit0", "writeOk"} \/ status[j] = "succeeded" =>
                    pod[j] \in {"ok", "expired", "none"}

IInv == /\ QueuedIsFree /\ SetupIsFree /\ TaskOwnsRow /\ SetupNotRunning
        /\ HandleKept /\ PhasesApart /\ DeleteAfterEnd /\ OkIsTrue

(* A job is never submitted while the cluster still has its Job: neither a  *)
(* restart, nor a late answer, nor a cancelled row that comes back starts   *)
(* the same work twice, and no submit runs into its own name.               *)
NoDoubleSubmit == \A j \in Jobs : pc[j] \in SetupSteps => Gone(j)

(* A row that says running carries the handle a cancel needs to kill the    *)
(* job, whatever crash or restart came between the submit and that row.     *)
RunningIsKillable == \A j \in Jobs : status[j] = "running" => handle[j] = "real"

(* The jobs in flight, adopted ones included, never need more GPUs than the *)
(* budget nor more slots than max_concurrent_jobs.                          *)
WithinBudget ==
  /\ Gpus(InFlight) <= GpuBudget
  /\ Cardinality(InFlight) <= MaxConcurrent

(* What the worker decided stays decided: a succeeded or failed job may be  *)
(* cancelled by a late write or deleted, but no task, resumed or requeued,  *)
(* writes about it again.                                                   *)
FinishedIsFinal ==
  [][\A j \in Jobs : status[j] \in DB!FinishedStatus =>
       status'[j] \in {status[j], "cancelled", "deleted"}]_vars

(* A job recorded as succeeded left nothing behind on the cluster that      *)
(* still runs or that had failed.                                           *)
SucceededIsTrue ==
  \A j \in Jobs : status[j] = "succeeded" => pod[j] \in {"ok", "expired", "none"}

(* While no fault happened and the server did not die, a Job that holds a   *)
(* GPU is polled by a task: no interleaving of cancels and deletes with the *)
(* worker's steps leaves one behind.                                        *)
NoOrphan ==
  Faults = {} /\ crashes = 0 => \A j \in Jobs : HoldsGpus(j) => j \in InFlight

(* The component keeps the status table's promise: whatever crash, fault    *)
(* or cancel comes between the steps of a task, a row moves only along the  *)
(* edges of the table, only a task of this process moves it on, and a       *)
(* cancelled row moves only while a task still has its job in hand.         *)
StatusTable == DB!Spec

(* What docs/architecture.md says of a cancelled job, that it is at its     *)
(* end: its row is only ever deleted.                                       *)
CancelledIsFinal ==
  [][\A j \in Jobs : status[j] = "cancelled" => status'[j] \in {"cancelled", "deleted"}]_vars

(* Every job the worker took is decided, or given up by its user, even when *)
(* the server dies in the middle and the job must be adopted or run again.  *)
Settles ==
  \A j \in Jobs : status[j] \in DB!InFlightStatus ~>
                     status[j] \in DB!TerminalStatus \union {"deleted"}

(* The queue drains: each queued job is claimed, or its user cancels it.    *)
QueueDrains ==
  \A j \in Jobs : status[j] = "queued" ~> status[j] # "queued"
=============================================================================
