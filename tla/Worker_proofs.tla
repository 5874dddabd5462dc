--------------------------- MODULE Worker_proofs ---------------------------
(***************************************************************************)
(* Theorems about the worker.  First JobLifecycle, for every number of     *)
(* jobs, every GPU budget and pool size, any number of crashes and every   *)
(* set of faults; then Admission, for any number of replicas, jobs, GPUs,  *)
(* slots and failures and any size of page.                                *)
(***************************************************************************)
EXTENDS JobLifecycle, Admission, FiniteSetTheorems, TLAPS

(* Every step keeps the types.                                              *)
LEMMA TypeStep == TypeOK /\ [Next]_vars => TypeOK'
<1> USE DEF TypeOK, DB!Status, DB!RowStatus, DB!InFlightStatus, DB!TerminalStatus,
            DB!FinishedStatus, TaskSteps, SetupSteps, PollSteps, RecoverySteps,
            PodState, RunState
<1> SUFFICES ASSUME TypeOK, [Next]_vars PROVE TypeOK'
  OBVIOUS
<1> USE DEF rowVars, taskVars, Goto, EndTask, Write, Park, Unpark
<1>1. ASSUME NEW j \in Jobs, Api(j) PROVE TypeOK'
  <2>1. CASE Create(j) BY <2>1 DEF Create
  <2>2. CASE CancelRead(j) BY <2>2 DEF CancelRead
  <2>3. CASE CancelKill(j) BY <2>3 DEF CancelKill, BackendCancel
  <2>4. CASE CancelWrite(j) BY <2>4 DEF CancelWrite
  <2>5. CASE DeleteRead(j) BY <2>5 DEF DeleteRead
  <2>6. CASE DeleteWrite(j) BY <2>6 DEF DeleteWrite
  <2>7. QED BY <1>1, <2>1, <2>2, <2>3, <2>4, <2>5, <2>6 DEF Api
<1>2. ASSUME NEW j \in Jobs, SetupTask(j) PROVE TypeOK'
  <2>1. CASE CreateRun(j) BY <2>1 DEF CreateRun
  <2>2. CASE CreateRunFails(j) BY <2>2 DEF CreateRunFails
  <2>3. CASE Build(j) BY <2>3 DEF Build
  <2>4. CASE BuildFails(j) BY <2>4 DEF BuildFails
  <2>5. CASE Submit(j) BY <2>5 DEF Submit
  <2>6. CASE SubmitFails(j) BY <2>6 DEF SubmitFails, FinishRun
  <2>7. CASE Record(j) BY <2>7 DEF Record
  <2>8. QED BY <1>2, <2>1, <2>2, <2>3, <2>4, <2>5, <2>6, <2>7 DEF SetupTask
<1>3. ASSUME NEW j \in Jobs, PollTask(j) PROVE TypeOK'
  <2>1. CASE Poll(j) BY <2>1 DEF Poll
  <2>2. CASE MarkRunning(j) BY <2>2 DEF MarkRunning
  <2>3. CASE FinishOk(j) BY <2>3 DEF FinishOk, FinishRun
  <2>4. CASE FinishFailed(j) BY <2>4 DEF FinishFailed, FinishRun, BackendCancel
  <2>5. CASE WriteSucceeded(j) BY <2>5 DEF WriteSucceeded
  <2>6. CASE WriteFailed(j) BY <2>6 DEF WriteFailed
  <2>7. QED BY <1>3, <2>1, <2>2, <2>3, <2>4, <2>5, <2>6 DEF PollTask
<1>4. ASSUME NEW j \in Jobs, Fault(j) PROVE TypeOK'
  <2>1. CASE ClaimLost(j) BY <2>1 DEF ClaimLost
  <2>2. CASE TaskError(j) BY <2>2 DEF TaskError
  <2>3. CASE PollError(j) BY <2>3 DEF PollError
  <2>4. CASE FinishOkError(j) BY <2>4 DEF FinishOkError, FinishRun
  <2>5. CASE ProbeError(j) BY <2>5 DEF ProbeError
  <2>6. QED BY <1>4, <2>1, <2>2, <2>3, <2>4, <2>5 DEF Fault
<1>5. ASSUME NEW j \in Jobs, Cluster(j) PROVE TypeOK'
  BY <1>5 DEF Cluster, PodEnds, PodExpires
<1>6. CASE Admit
  BY <1>6 DEF Admit, Claim
<1>7. CASE Recovery
  <2>1. CASE ListInFlight BY <2>1 DEF ListInFlight
  <2>2. CASE Resume BY <2>2 DEF Resume
  <2>3. ASSUME NEW j \in Jobs, Probe(j) PROVE TypeOK' BY <2>3 DEF Probe
  <2>4. ASSUME NEW j \in Jobs, Adopt(j) PROVE TypeOK' BY <2>4 DEF Adopt
  <2>5. ASSUME NEW j \in Jobs, MarkGone(j) PROVE TypeOK' BY <2>5 DEF MarkGone
  <2>6. QED BY <1>7, <2>1, <2>2, <2>3, <2>4, <2>5 DEF Recovery
<1>8. CASE RecoveryError BY <1>8 DEF RecoveryError
<1>9. CASE Crash BY <1>9, ConstantsAssumption DEF Crash
<1>10. CASE Boot BY <1>10 DEF Boot
<1>11. CASE Sleep \/ UNCHANGED vars BY <1>11 DEF Sleep, vars
<1>12. QED
  BY <1>1, <1>2, <1>3, <1>4, <1>5, <1>6, <1>7, <1>8, <1>9, <1>10, <1>11 DEF Next, Task

(* The variables keep their types: every write of the worker, the API, the  *)
(* recovery and the cluster stays in the vocabulary of the jobs table.      *)
THEOREM TypeCorrect == Spec => []TypeOK
<1>1. Init => TypeOK
  BY ConstantsAssumption
  DEF Init, TypeOK, NoSpec, DB!Status, RunState, PodState
<1>2. QED BY <1>1, TypeStep, PTL DEF Spec

(* The inductive invariant: the typing above and the conjuncts of IInv.     *)
(* A task owns a row that is not finished and not queued, so nothing is     *)
(* submitted while a Job of that name lives.  TypeOK is assumed on both     *)
(* sides of the step, from TypeStep.                                        *)
LEMMA InvariantStep == TypeOK /\ TypeOK' /\ IInv /\ [Next]_vars => IInv'
<1> SUFFICES ASSUME TypeOK, TypeOK', IInv, [Next]_vars PROVE IInv'
  OBVIOUS
<1> USE DEF TypeOK, IInv, QueuedIsFree, SetupIsFree, TaskOwnsRow, SetupNotRunning,
            HandleKept, PhasesApart, DeleteAfterEnd, OkIsTrue,
            DB!Status, DB!RowStatus, DB!InFlightStatus, DB!TerminalStatus,
            DB!FinishedStatus, DB!Undecided,
            TaskSteps, SetupSteps, PollSteps, RecoverySteps, PodState, Gone, Exists,
            rowVars, taskVars, Goto, EndTask, Write, Park, Unpark
<1>1. ASSUME NEW j \in Jobs, Api(j) PROVE IInv'
  <2>1. CASE Create(j) BY <2>1 DEF Create, Up
  <2>2. CASE CancelRead(j) BY <2>2 DEF CancelRead, Up
  <2>3. CASE CancelKill(j) BY <2>3 DEF CancelKill, BackendCancel
  <2>4. CASE CancelWrite(j) BY <2>4 DEF CancelWrite
  <2>5. CASE DeleteRead(j) BY <2>5 DEF DeleteRead, Up
  <2>6. CASE DeleteWrite(j) BY <2>6 DEF DeleteWrite
  <2>7. QED BY <1>1, <2>1, <2>2, <2>3, <2>4, <2>5, <2>6 DEF Api
<1>2. ASSUME NEW j \in Jobs, SetupTask(j) PROVE IInv'
  <2>1. CASE CreateRun(j) BY <2>1 DEF CreateRun
  <2>2. CASE CreateRunFails(j) BY <2>2 DEF CreateRunFails
  <2>3. CASE Build(j) BY <2>3 DEF Build
  <2>4. CASE BuildFails(j) BY <2>4 DEF BuildFails
  <2>5. CASE Submit(j) BY <2>5 DEF Submit
  <2>6. CASE SubmitFails(j) BY <2>6 DEF SubmitFails
  <2>7. CASE Record(j) BY <2>7 DEF Record
  <2>8. QED BY <1>2, <2>1, <2>2, <2>3, <2>4, <2>5, <2>6, <2>7 DEF SetupTask
<1>3. ASSUME NEW j \in Jobs, PollTask(j) PROVE IInv'
  <2>1. CASE Poll(j) BY <2>1 DEF Poll
  <2>2. CASE MarkRunning(j) BY <2>2 DEF MarkRunning
  <2>3. CASE FinishOk(j) BY <2>3 DEF FinishOk
  <2>4. CASE FinishFailed(j) BY <2>4 DEF FinishFailed, BackendCancel
  <2>5. CASE WriteSucceeded(j) BY <2>5 DEF WriteSucceeded
  <2>6. CASE WriteFailed(j) BY <2>6 DEF WriteFailed
  <2>7. QED BY <1>3, <2>1, <2>2, <2>3, <2>4, <2>5, <2>6 DEF PollTask
<1>4. ASSUME NEW j \in Jobs, Fault(j) PROVE IInv'
  <2>1. CASE ClaimLost(j) BY <2>1 DEF ClaimLost, Admissible
  <2>2. CASE TaskError(j) BY <2>2 DEF TaskError
  <2>3. CASE PollError(j) BY <2>3 DEF PollError
  <2>4. CASE FinishOkError(j) BY <2>4 DEF FinishOkError
  <2>5. CASE ProbeError(j) BY <2>5 DEF ProbeError
  <2>6. QED BY <1>4, <2>1, <2>2, <2>3, <2>4, <2>5 DEF Fault
<1>5. ASSUME NEW j \in Jobs, Cluster(j) PROVE IInv'
  <2>1. CASE PodEnds(j) BY <2>1 DEF PodEnds
  <2>2. CASE PodExpires(j) BY <2>2 DEF PodExpires
  <2>3. QED BY <1>5, <2>1, <2>2 DEF Cluster
<1>6. CASE Admit
  BY <1>6 DEF Admit, Claim, Admissible
<1>7. CASE Recovery
  <2>1. CASE ListInFlight BY <2>1 DEF ListInFlight
  <2>2. CASE Resume BY <2>2 DEF Resume
  <2>3. ASSUME NEW j \in Jobs, Probe(j) PROVE IInv' BY <2>3 DEF Probe
  <2>4. ASSUME NEW j \in Jobs, Adopt(j) PROVE IInv' BY <2>4 DEF Adopt, Listed
  <2>5. ASSUME NEW j \in Jobs, MarkGone(j) PROVE IInv' BY <2>5 DEF MarkGone, Listed
  <2>6. QED BY <1>7, <2>1, <2>2, <2>3, <2>4, <2>5 DEF Recovery
<1>8. CASE RecoveryError BY <1>8 DEF RecoveryError
<1>9. CASE Crash BY <1>9 DEF Crash, Up
<1>10. CASE Boot BY <1>10 DEF Boot
<1>11. CASE Sleep \/ UNCHANGED vars BY <1>11 DEF Sleep, vars
<1>12. QED
  BY <1>1, <1>2, <1>3, <1>4, <1>5, <1>6, <1>7, <1>8, <1>9, <1>10, <1>11 DEF Next, Task

(* The invariant holds of an empty table and an idle cluster.               *)
LEMMA InvariantInit == Init => IInv
BY DEF Init, IInv, QueuedIsFree, SetupIsFree, TaskOwnsRow, SetupNotRunning,
       HandleKept, PhasesApart, DeleteAfterEnd, OkIsTrue, Gone,
       SetupSteps, PollSteps, TaskSteps, RecoverySteps

(* The invariant holds in every reachable state: between them its parts say *)
(* who may write about a job, and what the cluster holds for it, at every   *)
(* step of its task.                                                        *)
THEOREM Invariant == Spec => []IInv
<1>1. TypeOK /\ IInv /\ [Next]_vars => IInv'
  BY TypeStep, InvariantStep
<1>2. QED BY <1>1, InvariantInit, TypeCorrect, PTL DEF Spec

(* A Job is never submitted for a job whose earlier Job the cluster still   *)
(* has, through any crash, restart, cancel or fault.                        *)
THEOREM NeverSubmitsTwice == Spec => []NoDoubleSubmit
<1>1. IInv => NoDoubleSubmit BY DEF IInv, SetupIsFree, NoDoubleSubmit
<1>2. QED BY <1>1, Invariant, PTL

(* Every row that says running carries the handle a cancel needs.           *)
THEOREM RunningHasHandle == Spec => []RunningIsKillable
<1>1. IInv => RunningIsKillable BY DEF IInv, HandleKept, RunningIsKillable
<1>2. QED BY <1>1, Invariant, PTL

(* A succeeded job left no Job that runs or failed.                         *)
THEOREM SucceededLeavesNothing == Spec => []SucceededIsTrue
<1>1. IInv => SucceededIsTrue BY DEF IInv, OkIsTrue, SucceededIsTrue
<1>2. QED BY <1>1, Invariant, PTL

(* Each step of the component is a step of the status table or leaves it    *)
(* alone.  What a step does to the tasks is seen in the set of jobs they    *)
(* have in hand.                                                            *)
DBStep == DB!Next \/ UNCHANGED <<status, InHand>>

LEMMA InHandFollows ==
  ASSUME TypeOK, NEW j \in Jobs, NEW s, pc' = [pc EXCEPT ![j] = s]
  PROVE  InHand' = IF s = "none" THEN InHand \ {j} ELSE InHand \union {j}
BY DEF TypeOK, InHand

(* A write of a task that goes on, or that decides its job and ends.        *)
LEMMA TaskWrites ==
  ASSUME TypeOK, IInv, NEW j \in Jobs, NEW s \in {"provisioning", "running", "succeeded", "failed"},
         pc[j] # "none", Write(j, s), s = "provisioning" => status[j] # "running",
         NEW t, pc' = [pc EXCEPT ![j] = t],
         (t = "none") <=> s \in {"succeeded", "failed"}
  PROVE  DBStep
<1>1. InHand' = IF s \in {"succeeded", "failed"} THEN InHand \ {j} ELSE InHand
  <2>1. j \in InHand
    BY DEF InHand
  <2> QED
    BY <2>1, InHandFollows
<1>2. j \in InHand
  BY DEF InHand
<1>3. CASE ~Exists(j)
  <2>1. status' = status
    BY <1>3 DEF Write
  <2>2. DB!LetGo
    BY <1>1, <2>1 DEF DB!LetGo
  <2> QED
    BY <2>2 DEF DBStep, DB!Next
<1>4. CASE Exists(j)
  <2>1. status' = [status EXCEPT ![j] = s]
    BY <1>4 DEF Write
  <2>2. status[j] \in {"provisioning", "running", "cancelled"}
    BY <1>4 DEF IInv, TaskOwnsRow, Exists, DB!Undecided, DB!InFlightStatus
  <2>3. s \in DB!InFlightStatus \union DB!FinishedStatus /\ DB!KeepsOrDrops(j, s)
    BY <1>1 DEF DB!KeepsOrDrops, DB!InFlightStatus, DB!FinishedStatus
  <2>4. CASE status[j] = "cancelled"
    <3>1. DB!Overwritten(j)
      BY <1>2, <2>1, <2>3, <2>4 DEF DB!Overwritten, DB!Move
    <3> QED
      BY <3>1 DEF DBStep, DB!Next
  <2>5. CASE status[j] # "cancelled"
    <3>1. DB!Move(j, DB!InFlightStatus \ {r \in {"running"} : s = "provisioning"}, s)
      BY <2>1, <2>2, <2>5 DEF DB!Move, DB!InFlightStatus
    <3>2. DB!Worked(j)
      BY <1>2, <2>3, <3>1 DEF DB!Worked
    <3> QED
      BY <3>2 DEF DBStep, DB!Next
  <2> QED
    BY <2>4, <2>5
<1> QED
  BY <1>3, <1>4

LEMMA StatusStep == TypeOK /\ IInv /\ [Next]_vars => [DB!Next]_<<status, InHand>>
<1> SUFFICES ASSUME TypeOK, IInv, Next PROVE DBStep
  BY DEF vars, DBStep, InHand
<1> USE DEF rowVars, taskVars
(* Steps that leave the row alone: the task goes on, or ends without a word. *)
<1>1. ASSUME NEW j \in Jobs, pc[j] # "none", status' = status, NEW t, pc' = [pc EXCEPT ![j] = t]
      PROVE DBStep
  <2>1. InHand' \in SUBSET InHand
    <3>1. j \in InHand
      BY <1>1 DEF InHand
    <3> QED
      BY <1>1, <3>1, InHandFollows
  <2> QED
    BY <1>1, <2>1 DEF DBStep, DB!Next, DB!LetGo
<1>2. ASSUME NEW j \in Jobs, Api(j) PROVE DBStep
  <2>1. InHand' = InHand
    BY <1>2 DEF InHand, Api, Create, CancelRead, CancelKill, CancelWrite, DeleteRead, DeleteWrite
  <2>2. CASE Create(j)
    <3>1. DB!Submitted(j)
      BY <2>1, <2>2 DEF Create, DB!Submitted, DB!Move
    <3> QED
      BY <3>1 DEF DBStep, DB!Next
  <2>3. CASE CancelRead(j) \/ CancelKill(j) \/ DeleteRead(j)
    BY <2>1, <2>3 DEF CancelRead, CancelKill, DeleteRead, DBStep
  <2>4. CASE CancelWrite(j)
    <3>1. Exists(j) => status[j] \in DB!RowStatus
      BY DEF TypeOK, DB!Status, Exists
    <3>2. QED BY <2>1, <2>4, <3>1 DEF CancelWrite, Write, DBStep, DB!Next, DB!Cancelled, DB!Move
  <2>5. CASE DeleteWrite(j)
    <3>1. Exists(j) => status[j] \in DB!RowStatus \ {"queued"}
      BY <2>5 DEF TypeOK, DB!Status, Exists, IInv, DeleteAfterEnd, DeleteWrite
    <3>2. QED BY <2>1, <2>5, <3>1 DEF DeleteWrite, Write, DBStep, DB!Next, DB!Deleted, DB!Move
  <2> QED BY <1>2, <2>2, <2>3, <2>4, <2>5 DEF Api
<1>3. ASSUME NEW j \in Jobs, SetupTask(j) PROVE DBStep
  <2>1. CASE CreateRunFails(j)
    <3>1. CASE spec[j].needsRun
      <4>1. Write(j, "failed") /\ pc' = [pc EXCEPT ![j] = "none"] /\ pc[j] # "none"
        BY <2>1, <3>1 DEF CreateRunFails, EndTask, Goto
      <4> QED
        BY <4>1, TaskWrites
    <3>2. CASE ~spec[j].needsRun
      <4>1. status' = status /\ pc' = [pc EXCEPT ![j] = "build"] /\ pc[j] # "none"
        BY <2>1, <3>2 DEF CreateRunFails, Goto
      <4> QED
        BY <4>1, <1>1
    <3> QED
      BY <3>1, <3>2
  <2>2. CASE BuildFails(j)
    <3>1. Write(j, "failed") /\ pc' = [pc EXCEPT ![j] = "none"] /\ pc[j] # "none"
      BY <2>2 DEF BuildFails, EndTask, Goto
    <3> QED
      BY <3>1, TaskWrites
  <2>3. CASE Record(j)
    <3>1. /\ Write(j, "provisioning") /\ pc' = [pc EXCEPT ![j] = "poll"] /\ pc[j] # "none"
          /\ status[j] # "running"
      BY <2>3 DEF Record, Goto, IInv, SetupNotRunning
    <3> QED
      BY <3>1, TaskWrites
  <2>4. CASE CreateRun(j) \/ Build(j) \/ Submit(j) \/ SubmitFails(j)
    <3>1. pc[j] # "none" /\ status' = status /\ \E t : pc' = [pc EXCEPT ![j] = t]
      BY <2>4 DEF CreateRun, Build, Submit, SubmitFails, Goto
    <3> QED
      BY <3>1, <1>1
  <2> QED BY <1>3, <2>1, <2>2, <2>3, <2>4 DEF SetupTask
<1>4. ASSUME NEW j \in Jobs, PollTask(j) PROVE DBStep
  <2>1. CASE MarkRunning(j)
    <3>1. Write(j, "running") /\ pc' = [pc EXCEPT ![j] = "poll"] /\ pc[j] # "none"
      BY <2>1 DEF MarkRunning, Goto
    <3> QED
      BY <3>1, TaskWrites
  <2>2. CASE WriteSucceeded(j)
    <3>1. Write(j, "succeeded") /\ pc' = [pc EXCEPT ![j] = "none"] /\ pc[j] # "none"
      BY <2>2 DEF WriteSucceeded, EndTask, Goto
    <3> QED
      BY <3>1, TaskWrites
  <2>3. CASE WriteFailed(j)
    <3>1. Write(j, "failed") /\ pc' = [pc EXCEPT ![j] = "none"] /\ pc[j] # "none"
      BY <2>3 DEF WriteFailed, EndTask, Goto
    <3> QED
      BY <3>1, TaskWrites
  <2>4. CASE Poll(j) \/ FinishOk(j) \/ FinishFailed(j)
    <3>1. pc[j] # "none" /\ status' = status /\ \E t : pc' = [pc EXCEPT ![j] = t]
      BY <2>4 DEF Poll, FinishOk, FinishFailed, Goto
    <3> QED
      BY <3>1, <1>1
  <2> QED BY <1>4, <2>1, <2>2, <2>3, <2>4 DEF PollTask
<1>5. ASSUME NEW j \in Jobs, Claim(j) \/ ClaimLost(j) PROVE DBStep
  <2>1. InHand' \in {InHand, InHand \union {j}}
    <3>1. CASE Claim(j)
      <4>1. pc' = [pc EXCEPT ![j] = "setup"]
        BY <3>1 DEF Claim, Goto
      <4>2. InHand' = IF "setup" = "none" THEN InHand \ {j} ELSE InHand \union {j}
        BY <4>1, InHandFollows
      <4> QED
        BY <4>2
    <3>2. CASE ClaimLost(j)
      <4>1. pc' = pc
        BY <3>2 DEF ClaimLost
      <4> QED
        BY <4>1 DEF InHand
    <3> QED BY <1>5, <3>1, <3>2
  <2> QED
    BY <1>5, <2>1 DEF Claim, ClaimLost, Admissible, DBStep, DB!Next, DB!Claimed, DB!Move
<1>6. ASSUME NEW j \in Jobs, MarkGone(j) PROVE DBStep
  <2>1. j \in InHand /\ pc' = [pc EXCEPT ![j] = "none"] /\ pc[j] # "none"
    BY <1>6 DEF MarkGone, EndTask, Goto, InHand
  <2>2. InHand' = InHand \ {j}
    BY <2>1, InHandFollows
  <2>3. CASE status[j] = "provisioning" /\ status' = [status EXCEPT ![j] = "queued"]
    BY <2>1, <2>2, <2>3 DEF DBStep, DB!Next, DB!Requeued, DB!Move
  <2>4. CASE status[j] = "running" /\ status' = [status EXCEPT ![j] = "failed"]
    BY <2>1, <2>4, TaskWrites DEF Write, Exists
  <2>5. CASE status' = status
    BY <1>1, <2>1, <2>5
  <2> QED BY <1>6, <2>3, <2>4, <2>5 DEF MarkGone, Listed, TypeOK
<1>7. ASSUME NEW j \in Jobs, TaskError(j) \/ PollError(j) \/ FinishOkError(j) \/ ProbeError(j)
                              \/ Probe(j) \/ Adopt(j)
      PROVE DBStep
  <2>1. pc[j] # "none" /\ status' = status /\ \E t : pc' = [pc EXCEPT ![j] = t]
    BY <1>7 DEF TaskError, PollError, FinishOkError, ProbeError, Probe, Adopt, EndTask, Goto
  <2> QED
    BY <1>1, <2>1
<1>8. CASE ListInFlight
  <2>1. InHand = {}
    BY <1>8 DEF ListInFlight, InHand, IInv, PhasesApart, TypeOK
  <2>2. InHand' = {j \in Jobs : status[j] \in DB!InFlightStatus}
    BY <1>8 DEF ListInFlight, InHand
  <2> QED
    BY <1>8, <2>1, <2>2 DEF ListInFlight, DBStep, DB!Next, DB!TakenOver
<1>9. CASE Resume \/ RecoveryError \/ Crash
  <2>1. status' = status /\ InHand' \in SUBSET InHand
    BY <1>9 DEF Resume, RecoveryError, Crash, InHand
  <2> QED
    BY <2>1 DEF DBStep, DB!Next, DB!LetGo
<1>10. CASE Boot \/ Sleep \/ \E j \in Jobs : Cluster(j)
  BY <1>10 DEF Boot, Sleep, Cluster, PodEnds, PodExpires, vars, DBStep, InHand
<1> QED
  BY <1>2, <1>3, <1>4, <1>5, <1>6, <1>7, <1>8, <1>9, <1>10 DEF Next, Task, Fault, Admit, Recovery

(* The component implements the status table: whatever crash or fault, the  *)
(* status column moves only as JobStatus allows, and a cancelled row only   *)
(* while a task of the process has its job in hand.                         *)
THEOREM KeepsStatusTable == Spec => StatusTable
<1>1. Init => DB!Init BY DEF Init, DB!Init, InHand
<1>2. QED BY <1>1, StatusStep, TypeCorrect, Invariant, PTL DEF Spec, StatusTable, DB!Spec

(* A succeeded or failed job is only ever cancelled late or deleted.        *)
THEOREM FinishedStaysFinished == Spec => FinishedIsFinal
<1>1. TypeOK /\ IInv /\ [Next]_vars =>
        [\A j \in Jobs : status[j] \in DB!FinishedStatus =>
            status'[j] \in {status[j], "cancelled", "deleted"}]_vars
  <2> SUFFICES ASSUME TypeOK, IInv, [Next]_vars,
                      NEW j \in Jobs, status[j] \in DB!FinishedStatus
               PROVE  status'[j] \in {status[j], "cancelled", "deleted"}
    OBVIOUS
  <2>1. CASE DB!Next
    BY <2>1 DEF TypeOK, DB!Next, DB!Submitted, DB!Claimed, DB!Requeued, DB!Worked,
                DB!Overwritten, DB!Cancelled, DB!Deleted, DB!LetGo, DB!TakenOver, DB!Move,
                DB!InFlightStatus, DB!FinishedStatus
  <2>2. CASE UNCHANGED <<status, InHand>> BY <2>2
  <2>3. QED BY <2>1, <2>2, StatusStep
<1>2. QED BY <1>1, TypeCorrect, Invariant, PTL DEF Spec, FinishedIsFinal

-----------------------------------------------------------------------------
(* No Job is left behind: while no fault happened and the server did not    *)
(* die, a task that has yet to look at a Job that holds GPUs is at one of   *)
(* four steps.                                                              *)

Attended ==
  Faults = {} /\ crashes = 0 =>
    \A j \in Jobs : HoldsGpus(j) => pc[j] \in {"record", "poll", "mark", "reclaim"}

LEMMA AttendedStep == TypeOK /\ IInv /\ Attended /\ [Next]_vars => Attended'
<1> SUFFICES ASSUME TypeOK, IInv, Attended, [Next]_vars, Faults = {}, crashes' = 0
             PROVE  \A j \in Jobs : HoldsGpus(j)' => pc'[j] \in {"record", "poll", "mark", "reclaim"}
  BY DEF Attended
<1> DEFINE Goal == \A j \in Jobs : HoldsGpus(j)' => pc'[j] \in {"record", "poll", "mark", "reclaim"}
<1>1. crashes = 0
  <2>1. crashes \in Nat /\ ~Crash
    BY ConstantsAssumption DEF TypeOK, Crash
  <2>2. crashes' = crashes
    BY <2>1 DEF Next, Api, Task, SetupTask, PollTask, Fault, Cluster, Admit, Recovery, Create,
       CancelRead, CancelKill, CancelWrite, DeleteRead, DeleteWrite, CreateRun, CreateRunFails,
       Build, BuildFails, Submit, SubmitFails, Record, Poll, MarkRunning, FinishOk, FinishFailed,
       WriteSucceeded, WriteFailed, ClaimLost, TaskError, PollError, FinishOkError, ProbeError,
       PodEnds, PodExpires, Claim, ListInFlight, Resume, Probe, Adopt, MarkGone, RecoveryError,
       Boot, Sleep, vars
  <2> QED
    BY <2>2
<1>2. \A j \in Jobs : HoldsGpus(j) => pc[j] \in {"record", "poll", "mark", "reclaim"}
  BY <1>1 DEF Attended
<1> USE DEF TypeOK, HoldsGpus, Gone, PodState, TaskSteps, SetupSteps, PollSteps, RecoverySteps,
            rowVars, taskVars, Goto, EndTask, BackendCancel
<1>3. ASSUME NEW j \in Jobs, Api(j) PROVE Goal
  BY <1>2, <1>3 DEF Api, Create, CancelRead, CancelKill, CancelWrite, DeleteRead, DeleteWrite
<1>4. ASSUME NEW j \in Jobs, SetupTask(j) PROVE Goal
  BY <1>2, <1>4 DEF SetupTask, CreateRun, CreateRunFails, Build, BuildFails, Submit, SubmitFails,
                    Record
<1>5. ASSUME NEW j \in Jobs, PollTask(j) PROVE Goal
  BY <1>2, <1>5 DEF PollTask, Poll, MarkRunning, FinishOk, FinishFailed, WriteSucceeded, WriteFailed
<1>6. ASSUME NEW j \in Jobs, Cluster(j) PROVE Goal
  BY <1>2, <1>6 DEF Cluster, PodEnds, PodExpires
<1>7. CASE Admit
  BY <1>2, <1>7 DEF Admit, Claim, Admissible, IInv, QueuedIsFree
<1>8. CASE Recovery
  <2>1. worker \in {"start", "recover"} => \A j \in Jobs : ~HoldsGpus(j)
    BY <1>2 DEF IInv, PhasesApart
  <2>2. CASE ListInFlight
    BY <2>1, <2>2 DEF ListInFlight
  <2>3. CASE Resume
    BY <2>1, <2>3 DEF Resume
  <2>4. ASSUME NEW j \in Jobs, Probe(j) \/ Adopt(j) \/ MarkGone(j) PROVE Goal
    BY <1>2, <2>4 DEF Probe, Adopt, MarkGone
  <2> QED
    BY <1>8, <2>2, <2>3, <2>4 DEF Recovery
<1>9. CASE Boot \/ Sleep \/ UNCHANGED vars
  BY <1>2, <1>9 DEF Boot, Sleep, vars
<1>10. ~RecoveryError /\ ~Crash /\ \A j \in Jobs : ~Fault(j)
  BY <1>1 DEF RecoveryError, Crash, Fault, ClaimLost, TaskError, PollError, FinishOkError, ProbeError
<1> QED
  BY <1>3, <1>4, <1>5, <1>6, <1>7, <1>8, <1>9, <1>10 DEF Next, Task

(* No interleaving of users' requests with the worker's steps leaves a Job   *)
(* on a GPU that no task polls: a cancel of a row that is not yet running    *)
(* leaves its task in place, and a delete does.                             *)
THEOREM NothingIsLeftBehind == Spec => []NoOrphan
<1>1. Init => Attended BY DEF Init, Attended, HoldsGpus
<1>2. Attended => NoOrphan
  BY DEF Attended, NoOrphan, InFlight, TaskSteps, SetupSteps, PollSteps
<1>3. QED BY <1>1, <1>2, AttendedStep, TypeCorrect, Invariant, PTL DEF Spec

-----------------------------------------------------------------------------
(* The GPUs a set of jobs asks for, as a sum: MapThenSumSet picks one job    *)
(* after the other.  What it comes to for every finite set is shown by a     *)
(* set that is minimal among those for which it would not.                   *)

Pick(s)   == CHOOSE x \in s : TRUE
Rest(s)   == s \ {Pick(s)}
Sum(sp, S) == MapThenSumSet(LAMBDA j : sp[j].gpus, S)
Adds(sp, f, S) ==
  f = [s \in SUBSET S |-> IF s = {} THEN 0 ELSE sp[Pick(s)].gpus + f[Rest(s)]]

LEMMA SumDef == ASSUME NEW sp, NEW S PROVE Sum(sp, S) = (CHOOSE f : Adds(sp, f, S))[S]
  BY Zenon DEF Sum, MapThenSumSet, MapThenFoldSet, Adds, Pick, Rest

LEMMA GpusAreSummed == \A S : Gpus(S) = Sum(spec, S)
  BY DEF Gpus, Sum

LEMMA MinimalSet ==
  ASSUME NEW S, IsFiniteSet(S), NEW T \in SUBSET (SUBSET S), T # {}
  PROVE  \E m \in T : \A s \in T : ~(s \subseteq m /\ s # m)
<1>1. T \subseteq FiniteSubsetsOf(S)
  BY FS_Subset DEF FiniteSubsetsOf
<1>2. \E m \in T : \A s \in T : ~(<<s, m>> \in StrictSubsetOrdering(S))
  BY <1>1, FS_StrictSubsetOrderingWellFounded, WFMin, Zenon
<1>3. \A m, s \in T : s \subseteq m /\ s # m => <<s, m>> \in StrictSubsetOrdering(S)
  BY DEF StrictSubsetOrdering
<1> QED
  BY <1>2, <1>3

LEMMA PickIsIn == ASSUME NEW s, s # {} PROVE Pick(s) \in s
  BY DEF Pick

(* Two sums agree on the sets both are defined for.                         *)
LEMMA SumsAgree ==
  ASSUME NEW sp, NEW S, IsFiniteSet(S), NEW T, NEW f, NEW h, Adds(sp, f, S), Adds(sp, h, T)
  PROVE  \A s \in SUBSET S : s \subseteq T => f[s] = h[s]
<1> DEFINE Bad == {s \in SUBSET S : s \subseteq T /\ f[s] # h[s]}
<1> SUFFICES ASSUME Bad # {} PROVE FALSE
  OBVIOUS
<1>1. PICK m \in Bad : \A s \in Bad : ~(s \subseteq m /\ s # m)
  <2>1. Bad \in SUBSET (SUBSET S)
    OBVIOUS
  <2> HIDE DEF Bad
  <2> QED
    BY <2>1, MinimalSet
<1>2. \A s \in SUBSET S : f[s] = IF s = {} THEN 0 ELSE sp[Pick(s)].gpus + f[Rest(s)]
  BY DEF Adds
<1>3. \A s \in SUBSET T : h[s] = IF s = {} THEN 0 ELSE sp[Pick(s)].gpus + h[Rest(s)]
  BY DEF Adds
<1>4. m # {}
  BY <1>2, <1>3
<1>5. Rest(m) \subseteq m /\ Rest(m) # m
  BY <1>4, PickIsIn DEF Rest
<1>6. f[Rest(m)] = h[Rest(m)]
  BY <1>1, <1>5
<1> QED
  BY <1>1, <1>2, <1>3, <1>4, <1>6

LEMMA SumExists == ASSUME NEW sp, NEW S, IsFiniteSet(S) PROVE \E f : Adds(sp, f, S)
<1> DEFINE Ok(s) == \E f : Adds(sp, f, s)
           F(s)  == CHOOSE f : Adds(sp, f, s)
           V(s)  == F(s)[s]
           Bad   == {s \in SUBSET S : ~Ok(s)}
<1> SUFFICES ASSUME Bad # {} PROVE FALSE
  OBVIOUS
<1>1. PICK m \in Bad : \A s \in Bad : ~(s \subseteq m /\ s # m)
  <2>1. Bad \in SUBSET (SUBSET S)
    OBVIOUS
  <2> HIDE DEF Bad
  <2> QED
    BY <2>1, MinimalSet
<1>2. \A s \in SUBSET m : s # m => Adds(sp, F(s), s) /\ IsFiniteSet(s)
  BY <1>1, FS_Subset
<1> DEFINE g == [s \in SUBSET m |-> IF s = {} THEN 0 ELSE sp[Pick(s)].gpus + V(Rest(s))]
<1>3. ASSUME NEW s \in SUBSET m, s # m PROVE V(s) = g[s]
  <2>1. CASE s = {}
    <3>1. Adds(sp, F(s), s)
      BY <1>2, <1>3
    <3> HIDE DEF F
    <3> QED
      BY <2>1, <3>1 DEF Adds
  <2>2. CASE s # {}
    <3>1. Rest(s) \subseteq s /\ Rest(s) # m /\ Rest(s) \in SUBSET m
      BY <1>3, <2>2, PickIsIn DEF Rest
    <3> HIDE DEF F
    <3>2. V(s) = sp[Pick(s)].gpus + F(s)[Rest(s)]
      BY <1>2, <1>3, <2>2 DEF Adds
    <3>3. F(s)[Rest(s)] = V(Rest(s))
      <4>1. /\ Adds(sp, F(s), s) /\ IsFiniteSet(s) /\ Adds(sp, F(Rest(s)), Rest(s))
        BY <1>2, <1>3, <3>1
      <4> QED
        BY <3>1, <4>1, SumsAgree
    <3> QED
      BY <2>2, <3>2, <3>3
  <2> QED
    BY <2>1, <2>2
<1>4. Adds(sp, g, m)
  <2>1. ASSUME NEW s \in SUBSET m, s # {} PROVE V(Rest(s)) = g[Rest(s)]
    <3>1. Rest(s) \in SUBSET m /\ Rest(s) # m
      BY <2>1, PickIsIn DEF Rest
    <3> HIDE DEF g, V
    <3> QED
      BY <3>1, <1>3
  <2> HIDE DEF V
  <2>2. g = [s \in SUBSET m |-> IF s = {} THEN 0 ELSE sp[Pick(s)].gpus + g[Rest(s)]]
    BY <2>1
  <2> QED
    BY <2>2 DEF Adds
<1> QED
  BY <1>1, <1>4

LEMMA SumPicks ==
  ASSUME NEW sp, NEW S, IsFiniteSet(S)
  PROVE  Sum(sp, S) = IF S = {} THEN 0 ELSE sp[Pick(S)].gpus + Sum(sp, Rest(S))
<1> DEFINE F(s) == CHOOSE f : Adds(sp, f, s)
<1>1. Adds(sp, F(S), S) /\ Adds(sp, F(Rest(S)), Rest(S))
  <2>1. IsFiniteSet(Rest(S))
    BY FS_Subset DEF Rest
  <2> QED
    BY <2>1, SumExists
<1>2. Sum(sp, S) = F(S)[S] /\ Sum(sp, Rest(S)) = F(Rest(S))[Rest(S)]
  BY SumDef
<1> HIDE DEF F
<1>3. F(S)[S] = IF S = {} THEN 0 ELSE sp[Pick(S)].gpus + F(S)[Rest(S)]
  BY <1>1 DEF Adds
<1>4. F(S)[Rest(S)] = F(Rest(S))[Rest(S)]
  <2>1. Rest(S) \in SUBSET S
    BY DEF Rest
  <2> QED
    BY <1>1, <2>1, SumsAgree
<1> QED
  BY <1>2, <1>3, <1>4

LEMMA SumIsNat ==
  ASSUME NEW sp, NEW S, IsFiniteSet(S), \A j \in S : sp[j].gpus \in Nat
  PROVE  \A s \in SUBSET S : Sum(sp, s) \in Nat
<1> DEFINE Bad == {s \in SUBSET S : Sum(sp, s) \notin Nat}
<1> SUFFICES ASSUME Bad # {} PROVE FALSE
  OBVIOUS
<1>1. PICK m \in Bad : \A s \in Bad : ~(s \subseteq m /\ s # m)
  <2>1. Bad \in SUBSET (SUBSET S)
    OBVIOUS
  <2> HIDE DEF Bad
  <2> QED
    BY <2>1, MinimalSet
<1>2. Sum(sp, m) = IF m = {} THEN 0 ELSE sp[Pick(m)].gpus + Sum(sp, Rest(m))
  BY <1>1, FS_Subset, SumPicks
<1>3. m # {}
  BY <1>1, <1>2
<1>4. Pick(m) \in S /\ Rest(m) \in SUBSET S /\ Rest(m) \subseteq m /\ Rest(m) # m
  BY <1>1, <1>3, PickIsIn DEF Rest
<1>5. Sum(sp, Rest(m)) \in Nat
  BY <1>1, <1>4
<1> QED
  BY <1>1, <1>2, <1>3, <1>4, <1>5

(* Any job can be taken out of the sum.                                     *)
LEMMA SumRemoves ==
  ASSUME NEW sp, NEW S, IsFiniteSet(S), \A j \in S : sp[j].gpus \in Nat
  PROVE  \A s \in SUBSET S : \A x \in s : Sum(sp, s) = sp[x].gpus + Sum(sp, s \ {x})
<1> DEFINE Bad == {s \in SUBSET S : \E x \in s : Sum(sp, s) # sp[x].gpus + Sum(sp, s \ {x})}
<1> SUFFICES ASSUME Bad # {} PROVE FALSE
  OBVIOUS
<1>1. PICK m \in Bad : \A s \in Bad : ~(s \subseteq m /\ s # m)
  <2>1. Bad \in SUBSET (SUBSET S)
    OBVIOUS
  <2> HIDE DEF Bad
  <2> QED
    BY <2>1, MinimalSet
<1>2. PICK x \in m : Sum(sp, m) # sp[x].gpus + Sum(sp, m \ {x})
  BY <1>1
<1> DEFINE p == Pick(m)
<1>3. p \in m /\ Rest(m) = m \ {p} /\ m \in SUBSET S
  BY <1>1, <1>2, PickIsIn DEF Rest
<1>4. Sum(sp, m) = sp[p].gpus + Sum(sp, m \ {p})
  <2>1. IsFiniteSet(m) /\ m # {}
    BY <1>3, FS_Subset
  <2>2. Sum(sp, m) = IF m = {} THEN 0 ELSE sp[Pick(m)].gpus + Sum(sp, Rest(m))
    BY <2>1, SumPicks, Zenon
  <2> QED
    BY <1>3, <2>1, <2>2
<1> HIDE DEF p
<1>5. p # x
  BY <1>2, <1>4
<1>6. \A s \in SUBSET m : s # m => \A y \in s : Sum(sp, s) = sp[y].gpus + Sum(sp, s \ {y})
  BY <1>1
<1> HIDE DEF Bad
<1>7. Sum(sp, m \ {p}) = sp[x].gpus + Sum(sp, m \ {p, x})
  <2>1. (m \ {p}) \ {x} = m \ {p, x} /\ m \ {p} \in SUBSET m /\ m \ {p} # m /\ x \in m \ {p}
    BY <1>3, <1>5
  <2> QED
    BY <1>6, <2>1
<1>8. Sum(sp, m \ {x}) = sp[p].gpus + Sum(sp, m \ {p, x})
  <2>1. (m \ {x}) \ {p} = m \ {p, x} /\ m \ {x} \in SUBSET m /\ m \ {x} # m /\ p \in m \ {x}
    BY <1>2, <1>3, <1>5
  <2> QED
    BY <1>6, <2>1
<1>9. sp[x].gpus \in Nat /\ sp[p].gpus \in Nat /\ Sum(sp, m \ {p, x}) \in Nat
  <2>1. m \ {p, x} \in SUBSET S
    BY <1>3
  <2> QED
    BY <1>2, <1>3, <2>1, SumIsNat
<1> QED
  BY <1>2, <1>4, <1>7, <1>8, <1>9

LEMMA SumIsMonotone ==
  ASSUME NEW sp, NEW S, IsFiniteSet(S), \A j \in S : sp[j].gpus \in Nat, NEW T \in SUBSET S
  PROVE  Sum(sp, T) <= Sum(sp, S)
<1> DEFINE Bad == {s \in SUBSET S : ~(Sum(sp, S \ s) <= Sum(sp, S))}
<1>1. Bad = {}
  <2> SUFFICES ASSUME Bad # {} PROVE FALSE
    OBVIOUS
  <2>1. PICK m \in Bad : \A s \in Bad : ~(s \subseteq m /\ s # m)
    <3>1. Bad \in SUBSET (SUBSET S)
      OBVIOUS
    <3> HIDE DEF Bad
    <3> QED
      BY <3>1, MinimalSet
  <2>2. Sum(sp, S) \in Nat /\ Sum(sp, S \ m) \in Nat
    BY SumIsNat
  <2>3. PICK x \in m : TRUE
    <3>1. S \ {} = S
      OBVIOUS
    <3>2. Sum(sp, S) <= Sum(sp, S)
      BY <2>2
    <3>3. m # {}
      <4>1. ~(Sum(sp, S \ m) <= Sum(sp, S))
        BY <2>1
      <4> QED
        BY <3>1, <3>2, <4>1, Zenon
    <3> QED
      BY <3>3
  <2> DEFINE n == m \ {x}
  <2>4. n \in SUBSET S /\ n \notin Bad /\ x \in S \ n /\ (S \ n) \ {x} = S \ m
    BY <2>1, <2>3
  <2>5. Sum(sp, S \ n) <= Sum(sp, S)
    BY <2>4
  <2> HIDE DEF n, Bad
  <2>6. Sum(sp, S \ n) = sp[x].gpus + Sum(sp, S \ m)
    <3>1. S \ n \in SUBSET S
      OBVIOUS
    <3> QED
      BY <2>4, <3>1, SumRemoves
  <2>7. sp[x].gpus \in Nat
    BY <2>4
  <2> QED
    BY <2>1, <2>2, <2>5, <2>6, <2>7 DEF Bad
<1>2. S \ T \in SUBSET S /\ S \ (S \ T) = T
  OBVIOUS
<1> QED
  BY <1>1, <1>2

LEMMA SumIsSame ==
  ASSUME NEW sp, NEW sq, NEW S, IsFiniteSet(S), \A j \in S : sq[j].gpus = sp[j].gpus
  PROVE  \A s \in SUBSET S : Sum(sq, s) = Sum(sp, s)
<1> DEFINE Bad == {s \in SUBSET S : Sum(sq, s) # Sum(sp, s)}
<1> SUFFICES ASSUME Bad # {} PROVE FALSE
  OBVIOUS
<1>1. PICK m \in Bad : \A s \in Bad : ~(s \subseteq m /\ s # m)
  <2>1. Bad \in SUBSET (SUBSET S)
    OBVIOUS
  <2> HIDE DEF Bad
  <2> QED
    BY <2>1, MinimalSet
<1>2. /\ Sum(sp, m) = IF m = {} THEN 0 ELSE sp[Pick(m)].gpus + Sum(sp, Rest(m))
      /\ Sum(sq, m) = IF m = {} THEN 0 ELSE sq[Pick(m)].gpus + Sum(sq, Rest(m))
  BY <1>1, FS_Subset, SumPicks
<1>3. m # {}
  BY <1>1, <1>2
<1>4. Pick(m) \in S /\ Rest(m) \in SUBSET S /\ Rest(m) \subseteq m /\ Rest(m) # m
  BY <1>1, <1>3, PickIsIn DEF Rest
<1>5. Sum(sq, Rest(m)) = Sum(sp, Rest(m))
  BY <1>1, <1>4
<1> QED
  BY <1>1, <1>2, <1>3, <1>4, <1>5

-----------------------------------------------------------------------------
(* The budget.  What is counted against it is every task and every row in   *)
(* flight whose Job is there, so that a restart may adopt it.  Without the  *)
(* faults that leave such a row to no task, the worker sees all of it when  *)
(* it admits a job, and a restart adopts no more than was there before.     *)

Harmless == {"submitLost", "cancelError", "claimLost"}

Adoptable(j) == (pc[j] = "probe" \/ status[j] \in DB!InFlightStatus) /\ ~Gone(j)

Held == {j \in Jobs : pc[j] \in TaskSteps \union {"adopt", "resume"} \/ Adoptable(j)}

RowHasTask ==
  \A j \in Jobs :
    /\ status[j] \in DB!InFlightStatus /\ ~Gone(j) =>
         /\ worker = "idle" => pc[j] \in TaskSteps
         /\ worker = "recover" => pc[j] \in {"probe", "adopt", "resume"}
    /\ pc[j] \in RecoverySteps /\ status[j] \in DB!InFlightStatus => status[j] = Listed(j)

LEMMA RowHasTaskStep ==
  ASSUME Faults \subseteq Harmless
  PROVE  TypeOK /\ TypeOK' /\ IInv /\ RowHasTask /\ [Next]_vars => RowHasTask'
<1> SUFFICES ASSUME TypeOK, TypeOK', IInv, RowHasTask, [Next]_vars PROVE RowHasTask'
  OBVIOUS
<1> USE DEF TypeOK, RowHasTask, Listed, DB!Status, DB!RowStatus, DB!InFlightStatus,
            DB!TerminalStatus, DB!FinishedStatus, TaskSteps, SetupSteps, PollSteps, RecoverySteps,
            Exists, rowVars, taskVars, Goto, EndTask, Write, Gone, PodState,
            BackendCancel
<1>1. ASSUME NEW j \in Jobs, Api(j) PROVE RowHasTask'
  <2>1. CASE Create(j) BY <2>1 DEF Create
  <2>2. CASE CancelRead(j) \/ CancelKill(j) \/ DeleteRead(j)
    BY <2>2 DEF CancelRead, CancelKill, DeleteRead
  <2>3. CASE CancelWrite(j) BY <2>3 DEF CancelWrite
  <2>4. CASE DeleteWrite(j) BY <2>4 DEF DeleteWrite
  <2>5. QED BY <1>1, <2>1, <2>2, <2>3, <2>4 DEF Api
<1>2. ASSUME NEW j \in Jobs, SetupTask(j) PROVE RowHasTask'
  <2> USE DEF IInv, PhasesApart
  <2>1. CASE CreateRun(j) BY <2>1 DEF CreateRun
  <2>2. CASE CreateRunFails(j) BY <2>2 DEF CreateRunFails
  <2>3. CASE Build(j) BY <2>3 DEF Build
  <2>4. CASE BuildFails(j) BY <2>4 DEF BuildFails
  <2>5. CASE Submit(j) BY <2>5 DEF Submit
  <2>6. CASE SubmitFails(j) BY <2>6 DEF SubmitFails
  <2>7. CASE Record(j) BY <2>7 DEF Record
  <2>8. QED BY <1>2, <2>1, <2>2, <2>3, <2>4, <2>5, <2>6, <2>7 DEF SetupTask
<1>3. ASSUME NEW j \in Jobs, PollTask(j) PROVE RowHasTask'
  <2> USE DEF IInv, PhasesApart
  <2>1. CASE Poll(j) BY <2>1 DEF Poll
  <2>2. CASE MarkRunning(j) BY <2>2 DEF MarkRunning
  <2>3. CASE FinishOk(j) BY <2>3 DEF FinishOk
  <2>4. CASE FinishFailed(j) BY <2>4 DEF FinishFailed
  <2>5. CASE WriteSucceeded(j) BY <2>5 DEF WriteSucceeded
  <2>6. CASE WriteFailed(j) BY <2>6 DEF WriteFailed
  <2>7. QED BY <1>3, <2>1, <2>2, <2>3, <2>4, <2>5, <2>6 DEF PollTask
<1>4. CASE Admit
  BY <1>4 DEF Admit, Claim, Admissible
<1>5. CASE Recovery
  <2>1. CASE ListInFlight BY <2>1 DEF ListInFlight
  <2>2. CASE Resume BY <2>2 DEF Resume
  <2>3. ASSUME NEW j \in Jobs, Probe(j) PROVE RowHasTask' BY <2>3 DEF Probe
  <2>4. ASSUME NEW j \in Jobs, Adopt(j) PROVE RowHasTask' BY <2>4 DEF Adopt
  <2>5. ASSUME NEW j \in Jobs, MarkGone(j) PROVE RowHasTask' BY <2>5 DEF MarkGone
  <2>6. QED BY <1>5, <2>1, <2>2, <2>3, <2>4, <2>5 DEF Recovery
<1>6. CASE Crash
  BY <1>6 DEF Crash
<1>7. CASE Boot \/ Sleep \/ UNCHANGED vars
  BY <1>7 DEF Boot, Sleep, vars
<1>8. ASSUME NEW j \in Jobs, Cluster(j) PROVE RowHasTask'
  BY <1>8 DEF Cluster, PodEnds, PodExpires
<1>10. ASSUME NEW j \in Jobs, ClaimLost(j) PROVE RowHasTask'
  BY <1>10 DEF ClaimLost, Admissible, IInv, QueuedIsFree, PhasesApart
<1>9. ~RecoveryError /\ \A j \in Jobs : Fault(j) => ClaimLost(j)
  BY DEF Harmless, RecoveryError, Fault, TaskError, PollError, FinishOkError, ProbeError
<1> QED
  BY <1>1, <1>2, <1>3, <1>4, <1>5, <1>6, <1>7, <1>8, <1>9, <1>10 DEF Next, Task

(* A step that admits no job adds nothing to what is counted, nor changes   *)
(* what that asks for.                                                      *)
LEMMA HeldStep ==
  ASSUME Faults \subseteq Harmless, TypeOK, IInv, [Next]_vars, \A j \in Jobs : ~Claim(j)
  PROVE  Held' \subseteq Held /\ \A j \in Held' : spec'[j] = spec[j]
<1> DEFINE Goal == Held' \subseteq Held /\ \A j \in Held' : spec'[j] = spec[j]
<1> USE DEF TypeOK, Held, Adoptable, DB!Status, DB!RowStatus, DB!InFlightStatus, DB!TerminalStatus,
            DB!FinishedStatus, TaskSteps, SetupSteps, PollSteps, RecoverySteps,
            Exists, rowVars, taskVars, Goto, EndTask, Write, Gone, PodState,
            BackendCancel
<1>1. ASSUME NEW j \in Jobs, Api(j) PROVE Goal
  <2>1. CASE Create(j) BY <2>1 DEF Create, IInv, QueuedIsFree
  <2>2. CASE CancelRead(j) \/ CancelKill(j) \/ DeleteRead(j)
    BY <2>2 DEF CancelRead, CancelKill, DeleteRead
  <2>3. CASE CancelWrite(j) BY <2>3 DEF CancelWrite
  <2>4. CASE DeleteWrite(j) BY <2>4 DEF DeleteWrite
  <2>5. QED BY <1>1, <2>1, <2>2, <2>3, <2>4 DEF Api
<1>2. ASSUME NEW j \in Jobs, SetupTask(j) PROVE Goal
  BY <1>2 DEF SetupTask, CreateRun, CreateRunFails, Build, BuildFails, Submit, SubmitFails, Record
<1>3. ASSUME NEW j \in Jobs, PollTask(j) PROVE Goal
  BY <1>3 DEF PollTask, Poll, MarkRunning, FinishOk, FinishFailed, WriteSucceeded, WriteFailed
<1>4. CASE Recovery
  <2>1. CASE ListInFlight BY <2>1 DEF ListInFlight
  <2>2. CASE Resume BY <2>2 DEF Resume
  <2>3. ASSUME NEW j \in Jobs, Probe(j) \/ Adopt(j) \/ MarkGone(j) PROVE Goal
    BY <2>3 DEF Probe, Adopt, MarkGone
  <2>4. QED BY <1>4, <2>1, <2>2, <2>3 DEF Recovery
<1>5. CASE Crash \/ Boot \/ Sleep \/ UNCHANGED vars
  BY <1>5 DEF Crash, Boot, Sleep, vars
<1>6. ASSUME NEW j \in Jobs, Cluster(j) PROVE Goal
  BY <1>6 DEF Cluster, PodEnds, PodExpires
<1>8. ASSUME NEW j \in Jobs, ClaimLost(j) PROVE Goal
  BY <1>8 DEF ClaimLost, Admissible, IInv, QueuedIsFree
<1>7. ~RecoveryError /\ \A j \in Jobs : Fault(j) => ClaimLost(j)
  BY DEF Harmless, RecoveryError, Fault, TaskError, PollError, FinishOkError, ProbeError
<1> QED
  BY <1>1, <1>2, <1>3, <1>4, <1>5, <1>6, <1>7, <1>8 DEF Next, Task, Admit

Budget == Sum(spec, Held) <= GpuBudget /\ Cardinality(Held) <= MaxConcurrent

(* Jobs are finitely many, and each asks for a number of GPUs.              *)
LEMMA JobsAreFinite ==
  ASSUME TypeOK
  PROVE  /\ IsFiniteSet(Jobs) /\ \A j \in Jobs : spec[j].gpus \in Nat
         /\ \A S \in SUBSET Jobs : IsFiniteSet(S) /\ Cardinality(S) \in Nat /\ Sum(spec, S) \in Nat
<1>1. IsFiniteSet(Jobs)
  BY ConstantsAssumption, FS_Interval DEF Jobs
<1>2. \A j \in Jobs : spec[j].gpus \in Nat
  BY ConstantsAssumption DEF TypeOK, NoSpec
<1>3. ASSUME NEW S \in SUBSET Jobs
      PROVE  IsFiniteSet(S) /\ Cardinality(S) \in Nat /\ Sum(spec, S) \in Nat
  BY <1>1, <1>2, FS_Subset, FS_CardinalityType, SumIsNat
<1> QED
  BY <1>1, <1>2, <1>3

(* What is counted less, or for what is counted the same, is within it too. *)
LEMMA FewerKeepBudget ==
  ASSUME TypeOK, TypeOK', Budget, Held' \subseteq Held, \A j \in Held' : spec'[j] = spec[j]
  PROVE  Budget'
<1>1. Held \in SUBSET Jobs /\ Held' \in SUBSET Jobs
  BY DEF Held
<1>2. /\ IsFiniteSet(Held) /\ Cardinality(Held) \in Nat /\ Sum(spec, Held) \in Nat
      /\ IsFiniteSet(Held') /\ Cardinality(Held') \in Nat /\ Sum(spec, Held') \in Nat
      /\ \A j \in Held : spec[j].gpus \in Nat
  BY <1>1, JobsAreFinite
<1>3. Cardinality(Held') <= Cardinality(Held)
  BY <1>2, FS_Subset
<1>4. Sum(spec, Held') <= Sum(spec, Held)
  BY <1>2, SumIsMonotone
<1>5. Sum(spec', Held') = Sum(spec, Held')
  <2>1. \A j \in Held' : spec'[j].gpus = spec[j].gpus
    OBVIOUS
  <2>2. \A S \in SUBSET Held' : Sum(spec', S) = Sum(spec, S)
    BY <1>2, <2>1, SumIsSame
  <2> QED
    BY <2>2
<1>6. GpuBudget \in Nat /\ MaxConcurrent \in Nat
  BY ConstantsAssumption
<1> QED
  BY <1>2, <1>3, <1>4, <1>5, <1>6 DEF Budget

(* The job the worker admits fits what is free next to all that is counted. *)
LEMMA ClaimKeepsBudget ==
  ASSUME TypeOK, TypeOK', IInv, RowHasTask, Budget, NEW j \in Jobs, Claim(j)
  PROVE  Budget'
<1>1. /\ worker = "idle" /\ Cardinality(InFlight) < MaxConcurrent
      /\ spec[j].gpus <= GpuBudget - Gpus(InFlight)
      /\ status[j] = "queued" /\ pc[j] = "none" /\ spec' = spec
      /\ status' = [status EXCEPT ![j] = "provisioning"] /\ pc' = [pc EXCEPT ![j] = "setup"]
  BY DEF Claim, Admissible, GpuFree, IInv, QueuedIsFree, Goto
<1>2. Held = InFlight
  BY <1>1 DEF Held, Adoptable, InFlight, RowHasTask, IInv, PhasesApart, TypeOK, TaskSteps, SetupSteps, PollSteps,
              RecoverySteps
<1>3. Held' = InFlight \union {j} /\ j \notin InFlight
  BY <1>1, <1>2 DEF Held, Adoptable, InFlight, Gone, TypeOK, DB!InFlightStatus, TaskSteps, SetupSteps,
                    PollSteps, Claim
<1>4. InFlight \in SUBSET Jobs /\ Held' \in SUBSET Jobs
  BY <1>3 DEF InFlight
<1>5. /\ IsFiniteSet(InFlight) /\ Cardinality(InFlight) \in Nat /\ Sum(spec, InFlight) \in Nat
      /\ IsFiniteSet(Held') /\ spec[j].gpus \in Nat /\ \A k \in Held' : spec[k].gpus \in Nat
  BY <1>4, JobsAreFinite
<1>6. Cardinality(Held') = Cardinality(InFlight) + 1
  BY <1>3, <1>5, FS_AddElement
<1>7. Sum(spec, Held') = spec[j].gpus + Sum(spec, InFlight)
  <2>1. Held' \ {j} = InFlight /\ j \in Held' /\ Held' \in SUBSET Held'
    BY <1>3
  <2>2. \A s \in SUBSET Held' : \A x \in s : Sum(spec, s) = spec[x].gpus + Sum(spec, s \ {x})
    BY <1>5, SumRemoves
  <2> QED
    BY <2>1, <2>2
<1>8. Gpus(InFlight) = Sum(spec, InFlight)
  BY GpusAreSummed
<1>9. GpuBudget \in Nat /\ MaxConcurrent \in Nat
  BY ConstantsAssumption
<1>10. spec' = spec
  BY <1>1
<1>11. Sum(spec, Held') <= GpuBudget
  BY <1>1, <1>5, <1>7, <1>8, <1>9
<1>12. Cardinality(Held') <= MaxConcurrent
  BY <1>1, <1>5, <1>6, <1>9
<1> QED
  BY <1>10, <1>11, <1>12 DEF Budget

(* The jobs in flight never need more GPUs than the budget, nor more slots  *)
(* than there are, also after restarts that adopt what still runs: whatever *)
(* users cancel or delete, and with lost claims and submits and failed      *)
(* cancels.  Each of the other faults can leave a row whose Job runs to no  *)
(* task, and a restart that adopts it next to what was admitted meanwhile.  *)
THEOREM BudgetIsKept == ASSUME Faults \subseteq Harmless PROVE Spec => []WithinBudget
<1>1. Init => RowHasTask
  BY DEF Init, RowHasTask, DB!InFlightStatus, RecoverySteps
<1>2. Init => Budget
  <2> SUFFICES ASSUME Init PROVE Budget
    OBVIOUS
  <2>1. Held = {}
    BY DEF Init, Held, Adoptable, Gone, TaskSteps, SetupSteps, PollSteps
  <2>2. Sum(spec, {}) = 0 /\ Cardinality({}) = 0
    BY SumPicks, FS_EmptySet
  <2> QED
    BY <2>1, <2>2, ConstantsAssumption DEF Budget
<1>3. TypeOK /\ TypeOK' /\ IInv /\ RowHasTask /\ Budget /\ [Next]_vars => Budget'
  BY HeldStep, FewerKeepBudget, ClaimKeepsBudget
<1>4. TypeOK /\ Budget => WithinBudget
  <2> SUFFICES ASSUME TypeOK, Budget PROVE WithinBudget
    OBVIOUS
  <2>1. InFlight \subseteq Held /\ Held \in SUBSET Jobs /\ InFlight \in SUBSET Jobs
    BY DEF InFlight, Held, TaskSteps, SetupSteps, PollSteps
  <2>2. /\ IsFiniteSet(Held) /\ Cardinality(Held) \in Nat /\ Sum(spec, Held) \in Nat
        /\ Cardinality(InFlight) \in Nat /\ Sum(spec, InFlight) \in Nat
        /\ \A j \in Held : spec[j].gpus \in Nat
    BY <2>1, JobsAreFinite
  <2>3. Cardinality(InFlight) <= Cardinality(Held)
    BY <2>1, <2>2, FS_Subset
  <2>4. Sum(spec, InFlight) <= Sum(spec, Held)
    BY <2>1, <2>2, SumIsMonotone
  <2>5. Gpus(InFlight) = Sum(spec, InFlight)
    BY GpusAreSummed
  <2> QED
    BY <2>2, <2>3, <2>4, <2>5, ConstantsAssumption DEF Budget, WithinBudget
<1> QED
  BY <1>1, <1>2, <1>3, <1>4, TypeStep, RowHasTaskStep, TypeCorrect, Invariant, PTL DEF Spec

-----------------------------------------------------------------------------
(* Admission.  What a claim may take from the queue is decided by the guard *)
(* of its UPDATE alone: neither the page it came from nor the GPUs counted  *)
(* before matter to that proof.  Which of the queue it takes is decided by  *)
(* the pages, and the last theorem is about what a scan still has before it.*)

LEMMA PageOfJobs == ASSUME NEW after PROVE Page(after) \in SUBSET Jobs
  BY DEF Page

(* Leaving a scan and reading a page keep the types of what they write.     *)
LEMMA LeaveScanTypes ==
    ASSUME AdmissionTypeOK, NEW w \in Workers, LeaveScan(w)
    PROVE  /\ phase'  \in [Workers -> {"idle", "scan"}]
           /\ held'   \in [Workers -> SUBSET Jobs]
           /\ page'   \in [Workers -> SUBSET Jobs]
           /\ full'   \in [Workers -> BOOLEAN]
           /\ cursor' \in [Workers -> {0} \union Jobs]
  BY DEF AdmissionTypeOK, LeaveScan

LEMMA ReadPageTypes ==
    ASSUME AdmissionTypeOK, NEW w \in Workers, NEW after, ReadPage(w, after)
    PROVE  page' \in [Workers -> SUBSET Jobs] /\ full' \in [Workers -> BOOLEAN]
  <1>1. page' \in [Workers -> SUBSET Jobs]  BY PageOfJobs DEF AdmissionTypeOK, ReadPage
  <1>2. (Cardinality(Page(after)) = PageSize) \in BOOLEAN  OBVIOUS
  <1>3. full' \in [Workers -> BOOLEAN]  BY <1>2 DEF AdmissionTypeOK, ReadPage
  <1> QED  BY <1>1, <1>3

LEMMA AdmissionTypeStep ==
  AdmissionTypeOK /\ [AdmissionNext]_admissionVars => AdmissionTypeOK'
  <1> SUFFICES ASSUME AdmissionTypeOK, [AdmissionNext]_admissionVars PROVE AdmissionTypeOK'
    OBVIOUS
  <1>1. ASSUME NEW j \in Jobs, CreateRow(j) PROVE AdmissionTypeOK'
    <2>1. PICK d \in Demands : demand' = [demand EXCEPT ![j] = d]  BY <1>1 DEF CreateRow
    <2>2. demand' \in [Jobs -> Nat]  BY <2>1, AdmissionAssumption DEF AdmissionTypeOK
    <2> QED  BY <1>1, <2>2 DEF AdmissionTypeOK, CreateRow, scanVars
  <1>2. ASSUME NEW j \in Jobs, Cancel(j) PROVE AdmissionTypeOK'
    BY <1>2 DEF AdmissionTypeOK, Cancel, scanVars
  <1>3. ASSUME NEW w \in Workers, BeginScan(w) PROVE AdmissionTypeOK'
    <2>1. page' \in [Workers -> SUBSET Jobs] /\ full' \in [Workers -> BOOLEAN]
      BY <1>3, ReadPageTypes DEF BeginScan
    <2> QED  BY <1>3, <2>1 DEF AdmissionTypeOK, BeginScan
  <1>4. ASSUME NEW w \in Workers, NEW j \in Jobs, ClaimRow(w, j) PROVE AdmissionTypeOK'
    <2>1. LeaveScan(w)  BY <1>4 DEF ClaimRow
    <2> QED  BY <1>4, <2>1, LeaveScanTypes DEF AdmissionTypeOK, ClaimRow
  <1>5. ASSUME NEW w \in Workers, NEW j \in Jobs, PassOver(w, j) PROVE AdmissionTypeOK'
    BY <1>5 DEF AdmissionTypeOK, PassOver
  <1>6. ASSUME NEW w \in Workers, NextPage(w) PROVE AdmissionTypeOK'
    <2>1. page' \in [Workers -> SUBSET Jobs] /\ full' \in [Workers -> BOOLEAN]
      BY <1>6, ReadPageTypes DEF NextPage
    <2> QED  BY <1>6, <2>1 DEF AdmissionTypeOK, NextPage
  <1>7. ASSUME NEW w \in Workers, EndScan(w) PROVE AdmissionTypeOK'
    <2>1. LeaveScan(w)  BY <1>7 DEF EndScan
    <2> QED  BY <1>7, <2>1, LeaveScanTypes DEF AdmissionTypeOK, EndScan
  <1>8. ASSUME NEW w \in Workers, ScanError(w) PROVE AdmissionTypeOK'
    <2>1. LeaveScan(w)  BY <1>8 DEF ScanError
    <2>2. failures' \in 0..MaxFailures
      BY <1>8, AdmissionAssumption DEF AdmissionTypeOK, ScanError
    <2> QED  BY <1>8, <2>1, <2>2, LeaveScanTypes DEF AdmissionTypeOK, ScanError
  <1>9. ASSUME NEW w \in Workers, NEW j \in Jobs, TaskEnds(w, j) PROVE AdmissionTypeOK'
    BY <1>9 DEF AdmissionTypeOK, TaskEnds, scanVars
  <1>10. ASSUME UNCHANGED admissionVars PROVE AdmissionTypeOK'
    BY <1>10 DEF AdmissionTypeOK, admissionVars
  <1> QED
    BY <1>1, <1>2, <1>3, <1>4, <1>5, <1>6, <1>7, <1>8, <1>9, <1>10
    DEF AdmissionNext, Scan, SlotsTaken

(* Every variable keeps its type, whatever the bounds.                      *)
THEOREM AdmissionTypes == AdmissionSpec => []AdmissionTypeOK
  <1>1. AdmissionInit => AdmissionTypeOK
    BY AdmissionAssumption DEF AdmissionInit, AdmissionTypeOK
  <1> QED  BY <1>1, AdmissionTypeStep, PTL DEF AdmissionSpec

(* NoDoubleRun is inductive over the type invariant: a claim takes a job    *)
(* whose row is queued, and the row of a job some worker runs is not.       *)
LEMMA ClaimsAlone ==
    ASSUME AdmissionTypeOK, NoDoubleRun, [AdmissionNext]_admissionVars PROVE NoDoubleRun'
  <1>1. ASSUME NEW w \in Workers, NEW j \in Jobs, ClaimRow(w, j) PROVE NoDoubleRun'
    <2>1. \A v \in Workers : j \notin tasks[v]  BY <1>1 DEF ClaimRow, NoDoubleRun
    <2>2. /\ tasks' = [tasks EXCEPT ![w] = @ \union {j}]
          /\ row' = [row EXCEPT ![j] = "taken"]
      BY <1>1 DEF ClaimRow
    <2>3. \A u, v \in Workers : u # v => tasks'[u] \intersect tasks'[v] = {}
      BY <2>1, <2>2 DEF AdmissionTypeOK, NoDoubleRun
    <2>4. \A v \in Workers : \A k \in tasks'[v] : row'[k] \in {"taken", "over"}
      BY <2>2 DEF AdmissionTypeOK, NoDoubleRun
    <2> QED  BY <2>3, <2>4 DEF NoDoubleRun
  <1>2. ASSUME NEW w \in Workers, NEW j \in Jobs, TaskEnds(w, j) PROVE NoDoubleRun'
    BY <1>2 DEF AdmissionTypeOK, TaskEnds, NoDoubleRun
  <1>3. ASSUME NEW j \in Jobs, CreateRow(j) PROVE NoDoubleRun'
    BY <1>3 DEF AdmissionTypeOK, CreateRow, NoDoubleRun
  <1>4. ASSUME NEW j \in Jobs, Cancel(j) PROVE NoDoubleRun'
    BY <1>4 DEF AdmissionTypeOK, Cancel, NoDoubleRun
  <1>5. ASSUME UNCHANGED <<row, tasks>> PROVE NoDoubleRun'
    BY <1>5 DEF NoDoubleRun
  <1> QED
    BY <1>1, <1>2, <1>3, <1>4, <1>5
    DEF AdmissionNext, Scan, SlotsTaken, BeginScan, PassOver, NextPage, EndScan, ScanError,
        admissionVars

(* With any number of replicas reading the same queue, no job is run twice. *)
THEOREM RunsOnce == AdmissionSpec => []NoDoubleRun
  <1>1. AdmissionInit => NoDoubleRun
    BY DEF AdmissionInit, NoDoubleRun
  <1>2. AdmissionTypeOK /\ NoDoubleRun /\ [AdmissionNext]_admissionVars => NoDoubleRun'
    BY ClaimsAlone
  <1> QED  BY <1>1, <1>2, AdmissionTypes, PTL DEF AdmissionSpec
-----------------------------------------------------------------------------
(* The GPUs of a set of jobs are a sum over what each asks for: the same    *)
(* when those of the set ask for the same.                                  *)

DemandSum(d, S) == MapThenSumSet(LAMBDA j : d[j], S)
AddsDemands(d, f, S) ==
  f = [s \in SUBSET S |->
         IF s = {} THEN 0
         ELSE d[CHOOSE x \in s : TRUE] + f[s \ {CHOOSE x \in s : TRUE}]]

LEMMA DemandSumDef ==
  ASSUME NEW d, NEW S
  PROVE  DemandSum(d, S) = (CHOOSE f : AddsDemands(d, f, S))[S]
  BY Zenon DEF DemandSum, MapThenSumSet, MapThenFoldSet, AddsDemands

LEMMA DemandSumIsSame ==
    ASSUME NEW d, NEW e, NEW S, \A x \in S : d[x] = e[x]
    PROVE  DemandSum(d, S) = DemandSum(e, S)
  <1>1. ASSUME NEW f PROVE AddsDemands(d, f, S) <=> AddsDemands(e, f, S)
    <2>1. \A s \in SUBSET S : s # {} => (CHOOSE x \in s : TRUE) \in S
      OBVIOUS
    <2> QED  BY <2>1 DEF AddsDemands
  <1>2. (CHOOSE f : AddsDemands(d, f, S)) = (CHOOSE f : AddsDemands(e, f, S))
    BY <1>1, Zenon
  <1> QED  BY <1>2, DemandSumDef

LEMMA DemandsAreSummed == \A S : Demanded(S) = DemandSum(demand, S)
  BY DEF Demanded, DemandSum

(* What a scan counted as free stays free as long as its tasks keep what    *)
(* they ask for.                                                            *)
LEMMA FitsIsKept ==
    ASSUME NEW w, NEW k, held'[w] = held[w], demand'[k] = demand[k],
           \A j \in held[w] : demand'[j] = demand[j]
    PROVE  Fits(w, k)' <=> Fits(w, k)
  <1>1. Demanded(held[w]) = DemandSum(demand, held[w])  BY DemandsAreSummed
  <1>2. (\A S : Demanded(S) = DemandSum(demand, S))'  BY DemandsAreSummed, PTL
  <1>3. Demanded(held[w])' = DemandSum(demand', held'[w])  BY <1>2
  <1>4. Demanded(held[w])' = Demanded(held[w])  BY <1>1, <1>3, DemandSumIsSame
  <1> QED  BY <1>4 DEF Fits, FreeFor

-----------------------------------------------------------------------------
(* A page is the oldest part of the queue behind the cursor: what it leaves *)
(* out comes after all of it.                                               *)
LEMMA PageIsOldest ==
    ASSUME AdmissionAssumption, NEW after \in Nat, NEW k \in Jobs, row[k] = "queued",
           k > after,
           k \notin Page(after), NEW j \in Page(after)
    PROVE  j < k
  <1> DEFINE queued == {i \in Jobs : row[i] = "queued" /\ i > after}
             Older(i) == {q \in queued : q < i}
  <1>1. k \in queued /\ j \in queued  BY DEF Page
  <1>2. Cardinality(Older(j)) < PageSize /\ ~(Cardinality(Older(k)) < PageSize)
    BY <1>1 DEF Page
  <1>3. k \in Jobs /\ j \in Jobs /\ Jobs \subseteq Int /\ PageSize \in Int
    BY <1>1, AdmissionAssumption DEF Jobs, AdmissionAssumption
  <1>4. ASSUME ~(j < k) PROVE FALSE
    <2>1. Older(k) \subseteq Older(j)
      <3> SUFFICES ASSUME NEW q \in queued, q < k PROVE q < j
        OBVIOUS
      <3> QED  BY <1>3, <1>4
    <2>2. IsFiniteSet(Jobs)
      BY FS_Interval, AdmissionAssumption DEF Jobs, AdmissionAssumption
    <2>3. IsFiniteSet(Older(j))
      <3>1. Older(j) \subseteq Jobs  OBVIOUS
      <3> QED  BY <2>2, <3>1, FS_Subset
    <2> HIDE DEF Older
    <2>4. /\ Cardinality(Older(k)) <= Cardinality(Older(j))
          /\ Cardinality(Older(k)) \in Nat /\ Cardinality(Older(j)) \in Nat
      BY <2>1, <2>3, FS_Subset, FS_CardinalityType
    <2> QED  BY <1>2, <1>3, <2>4
  <1> QED  BY <1>4

-----------------------------------------------------------------------------
(* The inductive invariant of a scan.  Every queued job is on its page, or  *)
(* did not fit what the scan counted as free, or comes after all the scan   *)
(* has looked at and all it has on its page: users may add to the queue     *)
(* behind a page and never before it, since rows are inserted in order.     *)

InOrder == \A j, k \in Jobs : j < k /\ row[k] # "absent" => row[j] # "absent"

Known(w) ==
  /\ \A j \in page[w] \union held[w] \union tasks[w] : row[j] # "absent"
  /\ cursor[w] = 0 \/ row[cursor[w]] # "absent"

Ahead(w, k) == k > cursor[w] /\ \A j \in page[w] : j < k

Covers(w) ==
  \A k \in Jobs : row[k] = "queued" => k \in page[w] \/ ~Fits(w, k) \/ Ahead(w, k)

ScanIsSound(w) ==
  /\ Known(w)
  /\ phase[w] = "idle" => cursor[w] = 0
  /\ phase[w] = "scan" => Covers(w)

ScansAreSound == InOrder /\ \A w \in Workers : ScanIsSound(w)

(* A row that exists stays and keeps its demand, and none enters the queue  *)
(* but by being inserted.                                                   *)
LEMMA RowsStay ==
    ASSUME AdmissionTypeOK, [AdmissionNext]_admissionVars
    PROVE  \A j \in Jobs :
             /\ row[j] # "absent" => row'[j] # "absent" /\ demand'[j] = demand[j]
             /\ row'[j] = "queued" => row[j] \in {"queued", "absent"}
  BY DEF AdmissionTypeOK, AdmissionNext, CreateRow, Cancel, Scan, BeginScan, ClaimRow,
         PassOver, NextPage, EndScan,
         ScanError, TaskEnds, SlotsTaken, admissionVars

(* A row is inserted after all that exist.                                  *)
LEMMA OrderIsKept ==
  ASSUME AdmissionTypeOK, ScansAreSound, [AdmissionNext]_admissionVars
  PROVE  InOrder'
  <1>1. Jobs \subseteq Int  BY AdmissionAssumption DEF Jobs, AdmissionAssumption
  <1>2. ASSUME NEW j \in Jobs, CreateRow(j) PROVE InOrder'
    <2>1. \A k \in Jobs : k < j => row[k] # "absent"
      BY <1>2, AdmissionAssumption DEF CreateRow, Jobs, AdmissionAssumption
    <2>2. \A k \in Jobs : row'[k] = IF k = j THEN "queued" ELSE row[k]
      BY <1>2 DEF CreateRow, AdmissionTypeOK
    <2> QED  BY <1>1, <2>1, <2>2 DEF InOrder, ScansAreSound
  <1>3. ASSUME \A j \in Jobs : row'[j] # "absent" => row[j] # "absent" PROVE InOrder'
    BY <1>3, RowsStay DEF InOrder, ScansAreSound
  <1>4. ASSUME NEW w \in Workers, NEW j \in Jobs, TaskEnds(w, j) PROVE InOrder'
    <2>1. row[j] # "absent"  BY <1>4 DEF TaskEnds, ScansAreSound, ScanIsSound, Known
    <2> QED  BY <1>3, <1>4, <2>1 DEF TaskEnds, AdmissionTypeOK
  <1> QED
    BY <1>2, <1>3, <1>4
    DEF AdmissionNext, Cancel, Scan, BeginScan, ClaimRow, PassOver, NextPage, EndScan,
        ScanError,
        SlotsTaken, admissionVars, AdmissionTypeOK

(* What happens elsewhere leaves a scan sound: a row inserted meanwhile     *)
(* comes after all the scan knows of.                                       *)
LEMMA SameScan ==
    ASSUME AdmissionTypeOK, ScansAreSound, [AdmissionNext]_admissionVars, NEW v \in Workers,
           phase'[v] = phase[v], held'[v] = held[v], page'[v] = page[v],
           cursor'[v] = cursor[v], tasks'[v] \subseteq tasks[v]
    PROVE  ScanIsSound(v)'
  <1>1. Jobs \subseteq Nat \ {0}  BY AdmissionAssumption DEF Jobs, AdmissionAssumption
  <1>2. /\ page[v] \subseteq Jobs /\ held[v] \subseteq Jobs /\ tasks[v] \subseteq Jobs
        /\ cursor[v] \in Jobs \union {0}
    BY DEF AdmissionTypeOK
  <1>3. Known(v) /\ (phase[v] = "idle" => cursor[v] = 0) /\ (phase[v] = "scan" => Covers(v))
    BY DEF ScansAreSound, ScanIsSound
  <1>4. Known(v)'  BY <1>1, <1>2, <1>3, RowsStay DEF Known
  <1>5. ASSUME phase[v] = "scan", NEW k \in Jobs, row'[k] = "queued"
        PROVE  k \in page'[v] \/ ~Fits(v, k)' \/ Ahead(v, k)'
    <2>1. CASE row[k] = "queued"
      <3>1. k \in page[v] \/ ~Fits(v, k) \/ Ahead(v, k)  BY <1>3, <1>5, <2>1 DEF Covers
      <3>2. Fits(v, k)' <=> Fits(v, k)
        <4>1. \A j \in held[v] : demand'[j] = demand[j]
          BY <1>2, <1>3, RowsStay DEF Known
        <4>2. demand'[k] = demand[k]  BY <2>1, RowsStay
        <4> QED  BY <4>1, <4>2, FitsIsKept
      <3>3. Ahead(v, k)' <=> Ahead(v, k)  BY DEF Ahead
      <3> QED  BY <3>1, <3>2, <3>3
    <2>2. CASE row[k] = "absent"
      <3>1. \A j \in Jobs : row[j] # "absent" => j < k
        BY <1>1, <2>2 DEF InOrder, ScansAreSound
      <3>2. \A j \in page[v] : j < k  BY <1>2, <1>3, <3>1 DEF Known
      <3>3. k \in Int /\ k > 0  BY <1>1
      <3>4. CASE cursor[v] = 0
        <4>1. k > cursor[v]  BY <3>3, <3>4
        <4> QED  BY <3>2, <4>1 DEF Ahead
      <3>5. CASE cursor[v] # 0
        <4>1. cursor[v] \in Jobs  BY <1>2, <3>5
        <4>2. row[cursor[v]] # "absent" /\ cursor[v] \in Int
          <5>1. Jobs \subseteq Int  BY <1>1
          <5> QED  BY <1>3, <3>5, <4>1, <5>1, Zenon DEF Known
        <4>3. k > cursor[v]  BY <3>1, <3>3, <4>1, <4>2
        <4> QED  BY <3>2, <4>3 DEF Ahead
      <3> QED  BY <3>4, <3>5
    <2> QED  BY <1>5, <2>1, <2>2, RowsStay
  <1>6. phase[v] = "scan" => Covers(v)'  BY <1>5 DEF Covers
  <1> QED  BY <1>3, <1>4, <1>6 DEF ScanIsSound

LEMMA LeftScan ==
    ASSUME AdmissionTypeOK, ScansAreSound, [AdmissionNext]_admissionVars,
           NEW w \in Workers, LeaveScan(w),
           \A j \in tasks'[w] : row'[j] # "absent"
    PROVE  ScanIsSound(w)'
  <1>1. phase'[w] = "idle" /\ held'[w] = {} /\ page'[w] = {} /\ cursor'[w] = 0
    BY DEF LeaveScan, AdmissionTypeOK
  <1> QED  BY <1>1 DEF ScanIsSound, Known

(* A scan starts before the whole queue.                                    *)
LEMMA ScanBegins ==
    ASSUME AdmissionTypeOK, ScansAreSound, [AdmissionNext]_admissionVars,
           NEW w \in Workers, BeginScan(w)
    PROVE  ScanIsSound(w)'
  <1>1. Jobs \subseteq Nat \ {0}  BY AdmissionAssumption DEF Jobs, AdmissionAssumption
  <1>2. /\ phase'[w] = "scan" /\ held'[w] = tasks[w] /\ page'[w] = Page(0)
        /\ cursor' = cursor /\ tasks' = tasks /\ row' = row /\ cursor[w] = 0
    BY DEF BeginScan, ReadPage, AdmissionTypeOK, ScansAreSound, ScanIsSound
  <1>3. Known(w)'
    <2>1. \A j \in Page(0) : row[j] # "absent"  BY DEF Page
    <2> QED  BY <1>2, <2>1 DEF Known, ScansAreSound, ScanIsSound
  <1>4. Covers(w)'
    <2>1. ASSUME NEW k \in Jobs, row[k] = "queued", k \notin Page(0) PROVE Ahead(w, k)'
      <3>1. k > 0  BY <1>1
      <3>2. \A j \in Page(0) : j < k  BY <2>1, <3>1, PageIsOldest, AdmissionAssumption
      <3> QED  BY <1>2, <3>1, <3>2 DEF Ahead
    <2> QED  BY <1>2, <2>1 DEF Covers
  <1> QED  BY <1>2, <1>3, <1>4 DEF ScanIsSound

(* The next page starts where the last one ended.                           *)
LEMMA PageTurns ==
    ASSUME AdmissionTypeOK, ScansAreSound, [AdmissionNext]_admissionVars,
           NEW w \in Workers, NextPage(w)
    PROVE  ScanIsSound(w)'
  <1>1. Jobs \subseteq Nat \ {0}  BY AdmissionAssumption DEF Jobs, AdmissionAssumption
  <1>2. /\ phase' = phase /\ held' = held /\ page'[w] = Page(cursor[w])
        /\ cursor' = cursor /\ tasks' = tasks /\ row' = row /\ demand' = demand
        /\ phase[w] = "scan" /\ page[w] = {}
    BY DEF NextPage, ReadPage, AdmissionTypeOK
  <1>3. Known(w) /\ Covers(w)  BY <1>2 DEF ScansAreSound, ScanIsSound
  <1>4. Known(w)'
    <2>1. \A j \in Page(cursor[w]) : row[j] # "absent"  BY DEF Page
    <2> QED  BY <1>2, <1>3, <2>1 DEF Known
  <1>5. ASSUME NEW k \in Jobs, row[k] = "queued", k \notin Page(cursor[w]), Fits(w, k)'
        PROVE  Ahead(w, k)'
    <2>1. Fits(w, k)  BY <1>2, <1>5, FitsIsKept
    <2>2. k > cursor[w]  BY <1>2, <1>3, <1>5, <2>1 DEF Covers, Ahead
    <2>3. cursor[w] \in Nat
      <3>1. cursor[w] \in {0} \union Jobs  BY DEF AdmissionTypeOK
      <3>2. 0 \in Nat /\ Jobs \subseteq Nat  BY <1>1
      <3> QED  BY <3>1, <3>2, Zenon
    <2>4. \A j \in Page(cursor[w]) : j < k
      BY <1>5, <2>2, <2>3, PageIsOldest, AdmissionAssumption
    <2> QED  BY <1>2, <2>2, <2>4 DEF Ahead
  <1>6. Covers(w)'  BY <1>2, <1>5 DEF Covers
  <1> QED  BY <1>2, <1>4, <1>6 DEF ScanIsSound

(* What is passed over did not fit, or is no longer in the queue.           *)
LEMMA CandidatePasses ==
    ASSUME AdmissionTypeOK, ScansAreSound, [AdmissionNext]_admissionVars,
           NEW w \in Workers, NEW i \in Jobs, PassOver(w, i)
    PROVE  ScanIsSound(w)'
  <1>1. Jobs \subseteq Nat \ {0}  BY AdmissionAssumption DEF Jobs, AdmissionAssumption
  <1>2. /\ phase' = phase /\ held' = held /\ page'[w] = page[w] \ {i}
        /\ cursor'[w] = i /\ tasks' = tasks /\ row' = row /\ demand' = demand
        /\ phase[w] = "scan" /\ i \in page[w] /\ (~Fits(w, i) \/ row[i] # "queued")
        /\ \A k \in page[w] : i <= k
    BY DEF PassOver, IsNext, AdmissionTypeOK
  <1>3. Known(w) /\ Covers(w)  BY <1>2 DEF ScansAreSound, ScanIsSound
  <1>4. Known(w)'  BY <1>2, <1>3 DEF Known
  <1>5. ASSUME NEW k \in Jobs, row[k] = "queued", k \notin page'[w], Fits(w, k)'
        PROVE  Ahead(w, k)'
    <2>1. Fits(w, k)  BY <1>2, <1>5, FitsIsKept
    <2>2. k \notin page[w]  BY <1>2, <1>5, <2>1
    <2>3. \A j \in page[w] : j < k  BY <1>3, <1>5, <2>1, <2>2 DEF Covers, Ahead
    <2> QED  BY <1>1, <1>2, <2>3 DEF Ahead
  <1>6. Covers(w)'  BY <1>2, <1>5 DEF Covers
  <1> QED  BY <1>2, <1>4, <1>6 DEF ScanIsSound

LEMMA ScansStep ==
  ASSUME AdmissionTypeOK, ScansAreSound, [AdmissionNext]_admissionVars
  PROVE  ScansAreSound'
  <1> SUFFICES ASSUME NEW v \in Workers PROVE ScanIsSound(v)'
    BY OrderIsKept DEF ScansAreSound
  <1>1. Known(v)  BY DEF ScansAreSound, ScanIsSound
  <1>2. \A j \in tasks[v] : row'[j] # "absent"  BY <1>1, RowsStay DEF Known, AdmissionTypeOK
  <1>3. ASSUME NEW j \in Jobs, CreateRow(j) \/ Cancel(j) PROVE ScanIsSound(v)'
    BY <1>3, SameScan DEF CreateRow, Cancel, scanVars
  <1>4. ASSUME NEW w \in Workers, NEW j \in Jobs, TaskEnds(w, j) PROVE ScanIsSound(v)'
    <2>1. tasks'[v] \subseteq tasks[v]  BY <1>4 DEF TaskEnds, AdmissionTypeOK
    <2> QED  BY <1>4, <2>1, SameScan DEF TaskEnds, scanVars
  <1>5. ASSUME NEW w \in Workers, BeginScan(w) PROVE ScanIsSound(v)'
    <2>1. CASE v = w  BY <1>5, <2>1, ScanBegins
    <2>2. CASE v # w
      BY <1>5, <2>2, SameScan DEF BeginScan, ReadPage, AdmissionTypeOK
    <2> QED  BY <2>1, <2>2
  <1>6. ASSUME NEW w \in Workers, NextPage(w) PROVE ScanIsSound(v)'
    <2>1. CASE v = w  BY <1>6, <2>1, PageTurns
    <2>2. CASE v # w
      BY <1>6, <2>2, SameScan DEF NextPage, ReadPage, AdmissionTypeOK
    <2> QED  BY <2>1, <2>2
  <1>7. ASSUME NEW w \in Workers, NEW j \in Jobs, PassOver(w, j) PROVE ScanIsSound(v)'
    <2>1. CASE v = w  BY <1>7, <2>1, CandidatePasses
    <2>2. CASE v # w
      BY <1>7, <2>2, SameScan DEF PassOver, AdmissionTypeOK
    <2> QED  BY <2>1, <2>2
  <1>8. ASSUME NEW w \in Workers, NEW j \in Jobs, ClaimRow(w, j) PROVE ScanIsSound(v)'
    <2>1. CASE v = w
      <3>1. \A i \in tasks'[v] : row'[i] # "absent"
        BY <1>2, <1>8, <2>1 DEF ClaimRow, AdmissionTypeOK
      <3> QED  BY <1>8, <2>1, <3>1, LeftScan DEF ClaimRow
    <2>2. CASE v # w
      BY <1>8, <2>2, SameScan DEF ClaimRow, LeaveScan, AdmissionTypeOK
    <2> QED  BY <2>1, <2>2
  <1>9. ASSUME NEW w \in Workers, EndScan(w) \/ ScanError(w) PROVE ScanIsSound(v)'
    <2>1. LeaveScan(w) /\ tasks' = tasks  BY <1>9 DEF EndScan, ScanError
    <2>2. CASE v = w  BY <1>2, <2>1, <2>2, LeftScan
    <2>3. CASE v # w
      BY <2>1, <2>3, SameScan DEF LeaveScan, AdmissionTypeOK
    <2> QED  BY <2>2, <2>3
  <1>10. ASSUME UNCHANGED admissionVars PROVE ScanIsSound(v)'
    BY <1>10, SameScan DEF admissionVars
  <1> QED
    BY <1>3, <1>4, <1>5, <1>6, <1>7, <1>8, <1>9, <1>10 DEF AdmissionNext, Scan, SlotsTaken

(* A claim takes the head of its page, so an older job that is queued and   *)
(* would fit is neither on the page nor behind it.                          *)
LEMMA ClaimIsOldest ==
    ASSUME AdmissionTypeOK, ScansAreSound, [AdmissionNext]_admissionVars,
           NEW w \in Workers, NEW j \in Jobs,
           j \in tasks'[w] \ tasks[w], NEW k \in 1..(j - 1), row[k] = "queued"
    PROVE  ~Fits(w, k)
  <1>1. Jobs \subseteq Nat \ {0}  BY AdmissionAssumption DEF Jobs, AdmissionAssumption
  <1>2. k \in Jobs /\ k < j  BY AdmissionAssumption DEF Jobs, AdmissionAssumption
  <1>3. ClaimRow(w, j)
    BY DEF AdmissionTypeOK, AdmissionNext, CreateRow, Cancel, Scan, BeginScan, ClaimRow,
           PassOver, NextPage, EndScan,
           ScanError, TaskEnds, SlotsTaken, admissionVars
  <1>4. j \in page[w] /\ (\A i \in page[w] : j <= i) /\ Covers(w)
    BY <1>3 DEF ClaimRow, IsNext, ScansAreSound, ScanIsSound
  <1> QED  BY <1>1, <1>2, <1>4 DEF Covers, Ahead

(* Whatever users insert and cancel, other replicas claim and tasks give    *)
(* back while a scan pages through the queue, the job it claims is the      *)
(* oldest one that is queued at that moment and fits what was free when the *)
(* scan began.                                                              *)
THEOREM OldestIsClaimed == AdmissionSpec => ClaimsOldestFit
  <1>1. AdmissionInit => ScansAreSound
    BY DEF AdmissionInit, ScansAreSound, ScanIsSound, InOrder, Known
  <1>2. AdmissionTypeOK /\ ScansAreSound /\ [AdmissionNext]_admissionVars => ScansAreSound'
    BY ScansStep
  <1>3. AdmissionTypeOK /\ ScansAreSound /\ [AdmissionNext]_admissionVars =>
          [\A w \in Workers, j \in Jobs : j \in tasks'[w] \ tasks[w] =>
             \A k \in 1..(j - 1) : row[k] = "queued" => ~Fits(w, k)]_admissionVars
    BY ClaimIsOldest
  <1> QED  BY <1>1, <1>2, <1>3, AdmissionTypes, PTL DEF AdmissionSpec, ClaimsOldestFit

-----------------------------------------------------------------------------
(* The budget of a worker.  The lemmas on sums hold for demands too.         *)

Priced(d) == [j \in Jobs |-> [gpus |-> d[j]]]

LEMMA DemandIsSum ==
    ASSUME NEW d, NEW S \in SUBSET Jobs PROVE DemandSum(d, S) = Sum(Priced(d), S)
  <1>1. ASSUME NEW f PROVE AddsDemands(d, f, S) <=> Adds(Priced(d), f, S)
    <2>1. \A s \in SUBSET S : s # {} => Priced(d)[Pick(s)].gpus = d[Pick(s)]
      BY PickIsIn DEF Priced
    <2>2. [s \in SUBSET S |-> IF s = {} THEN 0 ELSE d[Pick(s)] + f[Rest(s)]]
          = [s \in SUBSET S |-> IF s = {} THEN 0 ELSE Priced(d)[Pick(s)].gpus + f[Rest(s)]]
      BY <2>1
    <2> QED  BY <2>2 DEF AddsDemands, Adds, Pick, Rest
  <1>2. (CHOOSE f : AddsDemands(d, f, S)) = (CHOOSE f : Adds(Priced(d), f, S))
    BY <1>1, Zenon
  <1> QED  BY <1>2, DemandSumDef, SumDef

LEMMA DemandsAddUp ==
    ASSUME NEW d \in [Jobs -> Nat], NEW T \in SUBSET Jobs
    PROVE  /\ IsFiniteSet(T) /\ Cardinality(T) \in Nat /\ DemandSum(d, T) \in Nat
           /\ \A S \in SUBSET T : DemandSum(d, S) <= DemandSum(d, T)
                                  /\ Cardinality(S) <= Cardinality(T)
           /\ \A j \in T : DemandSum(d, T) = d[j] + DemandSum(d, T \ {j})
  <1>1. IsFiniteSet(Jobs)
    BY FS_Interval, AdmissionAssumption DEF Jobs, AdmissionAssumption
  <1>2. IsFiniteSet(T) /\ Cardinality(T) \in Nat
    BY <1>1, FS_Subset, FS_CardinalityType
  <1>3. \A j \in T : Priced(d)[j].gpus = d[j] /\ Priced(d)[j].gpus \in Nat
    BY DEF Priced
  <1> HIDE DEF Priced
  <1>4. \A S \in SUBSET T : DemandSum(d, S) = Sum(Priced(d), S)
    BY DemandIsSum
  <1>5. DemandSum(d, T) \in Nat
    <2>1. T \in SUBSET T  OBVIOUS
    <2> QED  BY <1>2, <1>3, <1>4, <2>1, SumIsNat
  <1>6. ASSUME NEW S \in SUBSET T
        PROVE  DemandSum(d, S) <= DemandSum(d, T) /\ Cardinality(S) <= Cardinality(T)
    <2>1. Sum(Priced(d), S) <= Sum(Priced(d), T)  BY <1>2, <1>3, SumIsMonotone
    <2>2. Cardinality(S) <= Cardinality(T)  BY <1>2, FS_Subset
    <2> QED  BY <1>4, <2>1, <2>2
  <1>7. ASSUME NEW j \in T PROVE DemandSum(d, T) = d[j] + DemandSum(d, T \ {j})
    <2>1. T \in SUBSET T /\ T \ {j} \in SUBSET T  OBVIOUS
    <2>2. Sum(Priced(d), T) = Priced(d)[j].gpus + Sum(Priced(d), T \ {j})
      BY <1>2, <1>3, <2>1, SumRemoves
    <2> QED  BY <1>3, <1>4, <2>1, <2>2
  <1> QED  BY <1>2, <1>5, <1>6, <1>7

(* While a scan is under way, tasks of its worker only end: what it counted *)
(* covers them, and the slot it began for is still free.                    *)
Counted(w) ==
  phase[w] = "scan" => tasks[w] \subseteq held[w] /\ Cardinality(tasks[w]) < MaxConcurrent

FitsInv == TasksFit /\ \A w \in Workers : Counted(w)

LEMMA DemandsAreSummedAfter == (\A S : Demanded(S) = DemandSum(demand, S))'
  BY DemandsAreSummed, PTL

(* A claim: the job fits next to all that was counted, hence to all there is. *)
LEMMA ClaimFits ==
    ASSUME AdmissionTypeOK, AdmissionTypeOK', FitsInv,
           NEW w \in Workers, NEW j \in Jobs, ClaimRow(w, j)
    PROVE  Demanded(tasks[w])' <= GpuBudget /\ Cardinality(tasks'[w]) <= MaxConcurrent
  <1> DEFINE T == tasks[w] \union {j}
  <1>1. /\ tasks'[w] = T /\ demand' = demand /\ phase[w] = "scan"
        /\ demand[j] <= GpuBudget - Demanded(held[w])
    BY DEF ClaimRow, IsNext, Fits, FreeFor, AdmissionTypeOK
  <1>2. tasks[w] \subseteq held[w] /\ Cardinality(tasks[w]) < MaxConcurrent
    BY <1>1 DEF FitsInv, Counted
  <1>3. demand \in [Jobs -> Nat] /\ tasks[w] \in SUBSET Jobs /\ held[w] \in SUBSET Jobs
    BY DEF AdmissionTypeOK
  <1>4. T \in SUBSET Jobs /\ j \in T /\ T \ {j} \in SUBSET held[w] /\ demand[j] \in Nat
    BY <1>2, <1>3
  <1>5. GpuBudget \in Nat /\ MaxConcurrent \in Nat
    BY AdmissionAssumption DEF AdmissionAssumption
  <1>6. Demanded(held[w]) = DemandSum(demand, held[w])
        /\ Demanded(tasks[w])' = DemandSum(demand, T)
    BY <1>1, DemandsAreSummed, DemandsAreSummedAfter
  <1>7. Cardinality(T) <= MaxConcurrent
    <2>1. IsFiniteSet(tasks[w]) /\ Cardinality(tasks[w]) \in Nat  BY <1>3, DemandsAddUp
    <2>2. Cardinality(T) = IF j \in tasks[w] THEN Cardinality(tasks[w])
                           ELSE Cardinality(tasks[w]) + 1
      BY <2>1, FS_AddElement
    <2> QED  BY <1>2, <1>5, <2>1, <2>2
  <1> HIDE DEF T
  <1>8. /\ DemandSum(demand, T) = demand[j] + DemandSum(demand, T \ {j})
        /\ DemandSum(demand, T) \in Nat
    BY <1>3, <1>4, DemandsAddUp
  <1>9. /\ DemandSum(demand, T \ {j}) <= DemandSum(demand, held[w])
        /\ DemandSum(demand, held[w]) \in Nat
    BY <1>3, <1>4, DemandsAddUp
  <1>10. DemandSum(demand, T \ {j}) \in Nat
    <2>1. T \ {j} \in SUBSET Jobs  BY <1>4
    <2> QED  BY <1>3, <2>1, DemandsAddUp
  <1>11. DemandSum(demand, T) <= GpuBudget
    BY <1>1, <1>4, <1>5, <1>6, <1>8, <1>9, <1>10
  <1> QED  BY <1>1, <1>6, <1>7, <1>11

(* Any other step takes tasks away at most, and none of them asks for more. *)
LEMMA FewerTasksFit ==
    ASSUME AdmissionTypeOK, AdmissionTypeOK', NoDoubleRun, FitsInv,
           [AdmissionNext]_admissionVars, NEW v \in Workers, tasks'[v] \subseteq tasks[v]
    PROVE  /\ Demanded(tasks[v])' <= GpuBudget
           /\ Cardinality(tasks'[v]) <= Cardinality(tasks[v])
           /\ Cardinality(tasks[v]) \in Nat /\ Cardinality(tasks'[v]) \in Nat
  <1>1. /\ demand \in [Jobs -> Nat] /\ demand' \in [Jobs -> Nat]
        /\ tasks[v] \in SUBSET Jobs /\ tasks'[v] \in SUBSET Jobs
    BY DEF AdmissionTypeOK
  <1>2. \A j \in tasks'[v] : demand'[j] = demand[j]
    BY <1>1, RowsStay DEF NoDoubleRun
  <1>3. DemandSum(demand', tasks'[v]) = DemandSum(demand, tasks'[v])
    BY <1>2, DemandSumIsSame
  <1>4. /\ DemandSum(demand, tasks'[v]) <= DemandSum(demand, tasks[v])
        /\ Cardinality(tasks'[v]) <= Cardinality(tasks[v])
        /\ DemandSum(demand, tasks[v]) \in Nat /\ Cardinality(tasks[v]) \in Nat
    BY <1>1, DemandsAddUp
  <1>5. DemandSum(demand, tasks'[v]) \in Nat /\ Cardinality(tasks'[v]) \in Nat
    BY <1>1, DemandsAddUp
  <1>6. /\ Demanded(tasks[v]) = DemandSum(demand, tasks[v])
        /\ Demanded(tasks[v])' = DemandSum(demand', tasks'[v])
    BY DemandsAreSummed, DemandsAreSummedAfter
  <1>7. Demanded(tasks[v]) <= GpuBudget /\ GpuBudget \in Nat
    BY AdmissionAssumption DEF FitsInv, TasksFit, AdmissionAssumption
  <1>8. DemandSum(demand, tasks'[v]) <= GpuBudget
    BY <1>4, <1>5, <1>6, <1>7
  <1> QED  BY <1>3, <1>4, <1>5, <1>6, <1>8

LEMMA FitsStep ==
    ASSUME AdmissionTypeOK, AdmissionTypeOK', NoDoubleRun, FitsInv,
           [AdmissionNext]_admissionVars
    PROVE  FitsInv'
  <1> DEFINE Fitting(v) == /\ Demanded(tasks[v]) <= GpuBudget
                           /\ Cardinality(tasks[v]) <= MaxConcurrent
                           /\ Counted(v)
  <1> SUFFICES ASSUME NEW v \in Workers PROVE Fitting(v)'
    BY DEF FitsInv, TasksFit
  <1>0. MaxConcurrent \in Nat  BY AdmissionAssumption DEF AdmissionAssumption
  <1>1. Cardinality(tasks[v]) <= MaxConcurrent /\ Counted(v)
    BY DEF FitsInv, TasksFit
  <1>2. ASSUME tasks'[v] \subseteq tasks[v],
               phase'[v] = "scan" => phase[v] = "scan" /\ held'[v] = held[v]
        PROVE  Fitting(v)'
    <2>1. /\ Demanded(tasks[v])' <= GpuBudget
          /\ Cardinality(tasks'[v]) <= Cardinality(tasks[v])
          /\ Cardinality(tasks[v]) \in Nat /\ Cardinality(tasks'[v]) \in Nat
      BY <1>2, FewerTasksFit
    <2>2. Counted(v)'  BY <1>0, <1>1, <1>2, <2>1 DEF Counted
    <2> QED  BY <1>0, <1>1, <2>1, <2>2
  <1>3. ASSUME NEW w \in Workers, BeginScan(w) PROVE Fitting(v)'
    <2>1. tasks' = tasks  BY <1>3 DEF BeginScan
    <2>2. CASE v = w
      <3>1. held'[v] = tasks[v] /\ Cardinality(tasks[v]) < MaxConcurrent
        BY <1>3, <2>2 DEF BeginScan, AdmissionTypeOK
      <3>2. Counted(v)'  BY <2>1, <3>1 DEF Counted
      <3>3. Demanded(tasks[v])' <= GpuBudget  BY <2>1, FewerTasksFit
      <3> QED  BY <1>1, <2>1, <3>2, <3>3
    <2>3. CASE v # w
      BY <1>2, <1>3, <2>1, <2>3 DEF BeginScan, AdmissionTypeOK
    <2> QED  BY <2>2, <2>3
  <1>4. ASSUME NEW w \in Workers, NEW j \in Jobs, ClaimRow(w, j) PROVE Fitting(v)'
    <2>1. CASE v = w
      <3>1. phase'[v] = "idle"  BY <1>4, <2>1 DEF ClaimRow, LeaveScan, AdmissionTypeOK
      <3>2. Counted(v)'  BY <3>1 DEF Counted
      <3>3. Demanded(tasks[v])' <= GpuBudget /\ Cardinality(tasks'[v]) <= MaxConcurrent
        BY <1>4, <2>1, ClaimFits
      <3> QED  BY <3>2, <3>3
    <2>2. CASE v # w
      <3>1. tasks'[v] = tasks[v] /\ phase'[v] = phase[v] /\ held'[v] = held[v]
        BY <1>4, <2>2 DEF ClaimRow, LeaveScan, AdmissionTypeOK
      <3> QED  BY <1>2, <3>1
    <2> QED  BY <2>1, <2>2
  <1>5. ASSUME NEW w \in Workers, EndScan(w) \/ ScanError(w) PROVE Fitting(v)'
    <2>1. tasks' = tasks /\ (phase'[v] = "scan" => phase[v] = "scan" /\ held'[v] = held[v])
      BY <1>5 DEF EndScan, ScanError, LeaveScan, AdmissionTypeOK
    <2> QED  BY <1>2, <2>1
  <1>6. ASSUME NEW w \in Workers, NEW j \in Jobs, TaskEnds(w, j) PROVE Fitting(v)'
    <2>1. tasks'[v] \subseteq tasks[v] /\ phase' = phase /\ held' = held
      BY <1>6 DEF TaskEnds, scanVars, AdmissionTypeOK
    <2> QED  BY <1>2, <2>1
  <1>7. ASSUME UNCHANGED <<tasks, phase, held>> PROVE Fitting(v)'
    BY <1>2, <1>7
  <1> QED
    BY <1>3, <1>4, <1>5, <1>6, <1>7
    DEF AdmissionNext, Scan, CreateRow, Cancel, PassOver, NextPage, SlotsTaken, scanVars,
        admissionVars

(* What was counted before a scan is enough for the claim at its end: no    *)
(* worker ever runs more than its GPUs and its slots allow, whatever is     *)
(* cancelled, ends or fails in between.                                     *)
THEOREM TasksFitTheBudget == AdmissionSpec => []TasksFit
  <1>1. AdmissionInit => FitsInv
    <2> SUFFICES ASSUME AdmissionInit, NEW w \in Workers
                 PROVE  /\ Demanded(tasks[w]) <= GpuBudget
                        /\ Cardinality(tasks[w]) <= MaxConcurrent /\ Counted(w)
      BY DEF FitsInv, TasksFit
    <2>1. tasks[w] = {} /\ phase[w] = "idle"  BY DEF AdmissionInit
    <2>2. GpuBudget \in Nat /\ MaxConcurrent \in Nat
      BY AdmissionAssumption DEF AdmissionAssumption
    <2>3. Cardinality({}) = 0 /\ IsFiniteSet({})  BY FS_EmptySet
    <2>4. Demanded({}) = 0
      <3>1. Demanded({}) = Sum(Priced(demand), {})
        BY DemandsAreSummed, DemandIsSum
      <3> QED  BY <2>3, <3>1, SumPicks
    <2> QED  BY <2>1, <2>2, <2>3, <2>4 DEF Counted
  <1>2. AdmissionTypeOK /\ AdmissionTypeOK' /\ NoDoubleRun /\ FitsInv
          /\ [AdmissionNext]_admissionVars => FitsInv'
    BY FitsStep
  <1>3. FitsInv => TasksFit  BY DEF FitsInv
  <1> QED  BY <1>1, <1>2, <1>3, AdmissionTypes, RunsOnce, PTL DEF AdmissionSpec
=============================================================================
