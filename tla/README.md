# A TLA+ verification of Amortized

Amortized is a control plane that builds task models: a user, mostly through a
chat with an agent ("Morty"), asks for synthetic data generation, training,
evaluation or document jobs.  A FastAPI server stores them as rows of a
PostgreSQL table; one worker inside the server dispatches them as Kubernetes
Jobs, polls them, and records the outcome in the row and in MLflow.  The agent
API of the same server proxies the chat to an OpenCode server in a sandbox and
routes it between an orchestrator and subagents.  The studio is a React
application over both; a gateway in front of it provisions a private stack
for each user and keeps that stack's model credentials current.

This directory holds TLA+ modules that model the parts of that system where
steps of several actors meet, the TLC configurations that check them on small
instances, and TLAPS proofs for instances of every size.  Paths below are
relative to the repository.

## 1. Inventory

| component | source | state it keeps | operations | interacts with |
|---|---|---|---|---|
| Jobs table | `src/amortized/db/repository.py` | one row a job: status, config, handle, MLflow run id, parent | insert, unguarded update by id, guarded claim, page of queued rows, delete | everything below |
| Worker | `src/amortized/worker.py` | `in_flight`: asyncio tasks and the GPUs each holds | admission loop, set-up and submit, poll and finalize, restart recovery, shutdown | table, backend, MLflow, builders |
| Job API | `src/amortized/core/jobs.py`, `api/jobs.py` | none | create (with gates), cancel, delete, retry, logs | table, backend |
| Backends | `src/amortized/backends/*.py` | Kubernetes: none, the cluster has it. Local: the processes. SSH: none | submit, status, cancel, logs, rebuild a handle | worker, cancel |
| Builders | `src/amortized/jobs/*.py` | none | turn a config into a command, files and resources | worker |
| MLflow | `src/amortized/core/mlflow_client.py` | external: runs, tags, artifacts | create and finish a run, tag | worker, evaluations, lineage |
| Dataset and document API | `src/amortized/api/datasets.py`, `documents.py` | none of their own | upload, split, merge as jobs | table, MLflow |
| Agent | `src/amortized/api/agent.py`, `phases.py` | sessions, turns, phase pointer, stashed delegations | create session, send message, run turn, delegate and return, nudge, idle clean-up | OpenCode server, job API through MCP |
| CLI, MCP server | `src/amortized/cli`, `mcp` | none | REST calls | job API |
| Studio gateway | `studio-gateway/src` | `stacks`, `providerLocks`, `reconcilers` in memory; Secrets, helm releases and sandboxes in the cluster | provision a user's stack, save and remove credentials, reconcile, serve the splash page | Kubernetes API, studio |
| Studio: chat | `studio/src/features/chat`, `stores/chat-store.ts`, `lib/api-client.ts` | persisted conversations; request locks, queued notifications and references in memory | send, poll, confirm, reject, notify of a job's end, warm up and rebuild the agent session, pick a model | agent API, job API |
| Studio: progress bar | `studio/src/features/chat/utils/derive-plan-steps.ts` | derived from the messages | collect a turn's calls, derive the steps, drop repeated questions | chat, agent API |
| Studio: recipes | `studio/src/features/recipes` | the config under edit | list, edit, validate, submit | job API, schemas, prompts |
| Studio: jobs page | `studio/src/features/jobs` | two queries of the shared cache, the panel, its dialogs | poll, cancel, retry, delete | job API |
| Studio: datasets, documents, models, evaluations | `studio/src/features/{datasets,documents,models,evaluation}` | queries of the shared cache, panels, uploads under way | follow a link, rename, delete, upload and follow its job | dataset, document and model API |

The hard behaviours, and where they come from:

* **Interleaving.**  In the server, the worker's tasks and the API's handlers
  are coroutines of one process; in the gateway and in the browser, a step
  runs from one `await` to the next.  State that was read before an `await` is
  used after it.
* **Crash and restart.**  The Kubernetes Job outlives the server; the user's
  stack outlives the gateway; the conversation in local storage outlives the
  page, and the agent's session does not outlive its sandbox.
* **Unreliable calls.**  A claim may commit, a Job may be created and a turn
  may run though the call that asked for it failed.
* **Detached work.**  A React view that is unmounted leaves its requests,
  timers and queues running beside those of the view that replaces it.
* **Caches.**  A list is fetched by whoever needs it; an answer may be older
  than the change the user has just made.
* **Budgets and queues.**  GPUs and slots are counted from what the worker
  polls; jobs that do not fit are passed over page by page.

What makes each component correct is the list of properties in section 3.
`PROJECT.json` lists every component, the hazards at their lines, and the
properties that cover them.

## 2. Modules

```
JobStatus             what may follow what in jobs.status (abstract)
   ^ implemented by (INSTANCE, property StatusTable, theorem KeepsStatusTable)
JobLifecycle          rows, worker, API handlers, cluster, crash and restart
Admission             the paged scan behind JobLifecycle's Claim
   both EXTEND
Worker                the ids of the rows, the worker's limits
AgentDelegation       one chat session: orchestrator, subagents, hand-over and back

CredentialSync        what the reconciler promises about saved credentials (abstract)
   ^ implemented by (INSTANCE ... WITH, property SyncKept)
Gateway               stacks, credentials, reconcile driver, splash page

ChatTurns             who may send in a conversation, and what becomes of a job's end
ChatSession           the agent session behind a conversation, and the model of a turn
PlanBar               from the agent's calls to the progress bar and the question cards
RecipeForm            the recipes page
QueryCache            one query of the shared cache (operators)
   ^ INSTANCE in
ListPage              a list, a panel and what the user changes (variables)
   ^ EXTENDed by
JobsPage, LibraryPages   the jobs page; the datasets, documents, models, evaluations pages
```

Each has an `MC...` module with the values of its constants and, for the
studio and the gateway, its properties; `..._proofs` modules hold the theorems:
`Worker_proofs` those of JobLifecycle and Admission, `Pages_proofs` those of
JobsPage and LibraryPages, the others those of the module they are named after.
Two modules whose theorems stand together have different names for what differs
(`AdmissionInit`, `LibraryNext`, ...).

### JobLifecycle

A step is what one coroutine does up to the next `await` at which the outcome
of another coroutine can matter.  `status`, `handle` and `spec` are the row,
`run` the MLflow run it names, `pod` the Kubernetes Job.  `pc[j]` says where
the worker's task for job `j` is, and during recovery where the recovery loop
is with it; `told[j]` is the local `transitioned_to_running` (in recovery: the
listed row said running), `mine[j]` that the task has an MLflow run id;
`api[j]` holds the handlers parked on the job between their read and their
write; `worker` is the process.

| actions | code |
|---|---|
| `Create` | `create_job`: a demand beyond the whole budget is refused |
| `CancelRead`, `CancelKill`, `CancelWrite` | `cancel_job`: read, kill on the backend only when the row said running, unguarded write |
| `DeleteRead`, `DeleteWrite` | `delete_job`: read, terminal only, `DELETE` by id |
| `Claim`, `ClaimLost`, `Sleep` | `worker_loop` admission; the claim's answer lost |
| `CreateRun(Fails)`, `Build(Fails)`, `Submit(Fails)`, `Record`, `TaskError` | `_run_job` |
| `Poll`, `PollError`, `MarkRunning`, `FinishOk`, `FinishOkError`, `FinishFailed`, `WriteSucceeded`, `WriteFailed` | `_poll_and_finalize` |
| `ListInFlight`, `Probe`, `ProbeError`, `Adopt`, `MarkGone`, `Resume`, `RecoveryError` | `_resume_inflight_jobs`, `_resume_job` |
| `Crash`, `Boot` | the process dies or is stopped; the pod is restarted |
| `PodEnds`, `PodExpires` | the cluster: a Job ends or gets stuck; its TTL (1 h) runs out |

Decisions a reader should know:

* The backend is Kubernetes, the deployed default.  A `cancel` removes the Job
  at once; foreground deletion, which keeps a terminating Job visible for some
  seconds, is not modelled.
* A "stuck" Job (image pull, bad config) stays stuck, as the comment in
  `KubernetesBackend.status` says.
* The TTL runs out only while no task polls the Job: a task polls every two
  seconds and a finished Job lives an hour.
* One handler of a kind is in flight per job at a time.  A second cancel reads
  the same row and writes the same value.
* A Kubernetes Job that succeeded and expired (`"expired"`) is told from one
  that never was (`"none"`) only so that properties can speak about it; no
  action of the code looks at the difference.
* `Faults` names six kinds of failure; a run, and a fairness assumption, says
  which of them may happen.  The proofs hold for every set of them.
* JobStatus has the edges of the state diagram of `docs/architecture.md` 3.3,
  each with who may take it: `held`, the jobs a task of the process has in hand
  (`InHand` of JobLifecycle).  The diagram ends at `cancelled`.  The code does
  not: the writes of a task are not guarded.  That edge stands apart as
  `Overwritten`, which section 3.8 calls a bug; `CancelledIsFinal` is the
  diagram's claim, and the run `claim_cancel` refutes it.  What `StatusTable`
  shows is therefore that a cancelled row moves only under a task that still has
  its job in hand, and never once no task has.

### Admission

JobLifecycle lets `Claim` take any job that fits.  Admission is the code that
picks it: `_claim_runnable_job` pages through the queue (`PageSize` stands for
`_CANDIDATE_BATCH`) with a cursor, against the GPUs free when the scan began
(`held`), and claims (`ClaimRow`) with a guarded `UPDATE` that may lose to a
cancel or to another replica.  Tasks only end during a scan, so the older `gpu_free` is
never too generous (`TasksFit`), which is what entitles JobLifecycle to test the
budget at the moment of the claim.  The budget is each worker's own; the
manifests deploy one replica.

### AgentDelegation

One session of `api/agent.py`.  Turns hold `state.lock`, so they do not
interleave; what makes the protocol hard is that it stretches over many turns,
that a turn makes up to five calls to opencode of which each may fail, and that
what the agents say is a model's output.  A step is the code between two of
those calls.  `at` names the call the turn awaits.

| variable | code |
|---|---|
| `subagent` | `subagent_id`; its target is that of the conversation |
| `stash`, `stashStep` | `completed_subagents`, `completed_last_step` |
| `lastStep`, `suppressed` | `last_signal_step`, `suppressed_completion` |
| `pending` | `(pending_help_target, pending_help_producer)`, set and cleared together |
| `asker`, `handoff`, `genuine` | locals of the handlers: who asked for help, the delegation to carry out, `genuine_completion` |
| `convs` | external: what each opencode conversation last said, and its step |

| actions | code |
|---|---|
| `BeginTurn` | `_run_turn` under the lock, up to the first send |
| `ReportsCompletion`, `RequestsHelp`, `KeepsControl` | the three ways out of `_handle_subagent_message` |
| `SubagentGone`, `SubagentFails` | a 404 tears down, any other failure only ends the turn |
| `OrchestratorDelegates`, `OrchestratorAnswers`, `OrchestratorFails` | `_orchestrator_turn` and `_detect_delegation` |
| `Resumes`, `Starts`, `ResumeFails`, `StartFails` | `_maybe_delegate`, with what its callers do after it |

A failed GET of a reply yields no parts in the code, so a reply `r` and what
the proxy sees of it, `p` (and `q` for the second GET of a turn), are separate.
A nudge re-prompts once and replaces the reply, so it is part of `r`.  A
producer cannot ask for help: the persona of `sdg` disables the tool, which is
what `Askers` stands for.

### Gateway and CredentialSync

One user of the gateway.  The gateway is a Node process: a step runs from one
`await` to the next, and the requests, the attempts to provision and the
reconcile driver interleave there.

| variable | code |
|---|---|
| `secret` | the user's credential Secret (`writeUserProviders`), with its revision |
| `keys`, `server`, `box` | external: the teacher-key Secret, the server's Deployment and the env its pod read, the chat sandbox and the credentials it was created with |
| `entry` | `stacks.get(ns)`: whose state requests are answered with |
| `boot` | the attempts of `ensureUserStack`, one at work and those it replaced |
| `driver` | `reconcilers.get(ns)`: the round under way and the one asked for |
| `call`, `queue` | the requests to change a provider, and the promise chain of `withProviderLock` |
| `page` | what the browser shows |

| actions | code |
|---|---|
| `Poll`, `Retry`, `Reload` | `/gateway/ready`, `/gateway/retry`, the splash gate, with `splash.applyState` |
| `BootRead`, `BootCheck`, `BootStamp`, `BootHelm`, `BootBox`, `BootAwait` | `ensureUserStack` and `provision` |
| `AddProvider`, `SaveProvider`, `RemoveProvider` | the form of the splash page; the settings page |
| `CallRead`, `CallWrite`, `CallDecide` | `setUserProvider`, `removeUserProvider` under the lock |
| `DriverRead`, `DriverStamp`, `DriverRestart`, `DriverDelete`, `DriverCreate`, `DriverFailed` | a round of `startReconcile` and `reconcileStack` |
| `ServerStart`, `ServerCrash` | external: the pod starts and reads the Secret into its env; it dies |
| `GatewayRestart` | the maps of the process are gone |

A credential is known by the change that saved it.  Credentials of the
`AdcProviders` (vertex) go to the sandbox only, the others to the server's env
as well, and a change of those asks for a restart.  `CredentialSync` says what
the driver promises: it rests only after it has looked at what was accepted
last, or leaves an error.  `MCGateway` maps `saved` to the revision, `seen` to
the revision of the driver's last reading, `busy` to a driver at work, and
`failed` to one that stopped with an error.

The property `QuietStackIsCurrent` excepts five cases (`Untroubled`).  Two are
failures: a cluster call that fails, a gateway that is replaced.  The third is a
server that is down, which has no environment to compare.
The fourth is `overlap`: an attempt of `ensureUserStack` that read the
credentials before a change may stamp the old keys and create the sandbox with
the old credentials after the driver has applied the new ones, and nothing
compares them afterwards.  The code reaches it when the user presses Retry, or
the entry is gone with the gateway, while a change is on its way.  The gateway
runs as a single replica, as `provision.js` 176 to 178 requires.
The fifth was found by the proof of the property.  A user without any
credential has a server that an earlier gateway left.  Its pod is down when the
first attempt looks, so the page shows the form, and down when a key is saved,
so the key is written only, for the attempt that Continue starts.  If the pod
comes up before that attempt looks, its environment is without the key, and the
attempt takes the fast path, which stamps the keys and does not restart the
server (829 to 831).  Hence `Preset = {}` with a crash.

### ChatTurns

One conversation of the studio and everybody who may send in it: the user, the
upload tracker, the queue of ended jobs, the confirmation of a proposed job.
`lock` is the store's `activeRequests`, `jobLock` its `jobInFlight`, `notices`
the notices of rejections under way, `carded` the jobs with a monitor card in a
message, `skipped` those whose card is closed.  Each time
the conversation is shown a new view is mounted (`view`), with its own queue
(`jobNotifyQueueRef`), failure count and reference drain; the work of a view
that is gone goes on detached, which is why `queue`, `failures` and `shifting`
are functions of the view.  The sidebar's chat is on every page but the
chat page, so one view is mounted at a time.

| actions | code |
|---|---|
| `Send`, `Heard`, `Answered`, `SendFails` | `sendMessage` |
| `Enqueue`, `Drain`, `Shift` | `useAttachUpload`, the drain of `pendingReferences` |
| `Confirm`, `Created`, `Submitted`, `ConfirmFails`, `Reject`, `NoticeEnds` | `confirmAction`, `rejectAction` |
| `Fire`, `SkipMonitoring`, `QueueSkips`, `QueueTrips`, `Notify`, `Continued`, `NotifyFails` | the job's monitor card, `notifyJobComplete`, `processJobNotifyQueue` |
| `PollStart`, `PollEnds` | `pollPending` |
| `Unlock` | the focus listener and the five-minute timer |
| `Leave`, `Enter`, `Reload` | unmount, mount with the reconciliation of an interrupted answer, page reload |
| `Delete` | `confirmDelete` of the chat page, which is that of the sidebar too: `deleteConversation` (`DropAll`), or `replaceAllConversations` (`KeepAll`) for the last conversation |

A deleted conversation (`gone`) loses its lock while a request goes on detached;
what the request writes then is dropped, and a queue that wakes finds that the
conversation is gone (`use-chat.ts` 842).  `OneTurn` and `ToldOnce` both fall
without that look.

Three things are as loose as in the code.  A rejection sends its notice to the
agent's session without the lock (`use-chat.ts` 802 to 814), so a turn may run
beside it: `OneTurn` is about turns, which take the lock.  A confirmation may
fail after the server has made the job (764, 785 to 790): its card stays and can
be confirmed again, and `CardSubmitsOnce` counts such replies (`cut`).  Only a
mounted monitor card reports a job's end (`Watched`): a job whose submission was
cut off has none, and "Skip monitoring" closes one until the conversation is
shown again; `EndIsReported` is about the others.

Of the messages only the empty answers, the proposals and the last one matter;
plain messages before the last are left out (`Compact`).

### ChatSession

The agent session behind a conversation: `session` is the store's `sessionMap`,
`warm` the warm-up each view starts when it is mounted, `turn` the request of
`sendOpenCodeMessage` with its retries, `choice` the model picker.  The server
side is `alive` (a session may be lost with its sandbox), `knows` (the turns a
session has heard or was replayed).

| actions | code |
|---|---|
| `Enter`, `Leave`, `Verify`, `WarmCreate`, `WarmReplay`, `WarmFails` | the mount effect of `useChat` |
| `Begin`, `AwaitWarmup`; `BeginForJob` | `sendMessage`, which waits for the warm-up of its view; the continuation of `processJobNotifyQueue`, which waits for none |
| `GetSession`, `CreateSession`, `CreateFails` | `getOrCreateSession` |
| `ReplayContext`, `PostOk`, `PostFails`, `Finish` | `sendOpenCodeMessage`, `pollTurn`, `shouldKeepSessionOnError` |
| `PickModel`, `ToggleProvider`, `FetchProviders` | `handleModelChange`, the settings store, `useProviderStatus` |

Two history variables name the cases the properties except.  `lost`: a session
was replaced and nothing told the new one what the old one knew.  The code does
so after a network error or a 502 (`api-client.ts` 507 to 513 and 559 to 566
retry in a new session without a replay; 568 to 573 drop it when the retries are
used up), and when the replay itself, or the creation of a session, fails: a
warm-up whose replay is refused keeps the new session and says "restored" all
the same (`use-chat.ts` 506 to 513).  `crossed`: a warm-up rebuilt the session
beside a part of the code that did not wait for it, a view mounted after the one
that warms up, or the turn for an ended job.  The two may
then make a session each.  `NotRebuiltMidTurn` is the claim of the comment at
`use-chat.ts` 462 to 464 that this breaks (section 5).

### PlanBar

From what the agent calls to what the user sees: the conversations of the
orchestrator and of the subagents (`history`), the part of a turn that the
studio fetches (`extractSessionData`), the messages it keeps, and the bar and
the cards derived from them (`derivePlan`, `dedupeConsecutiveOptions`).  `Turn`
is a turn of the user, or the continuation of an ended job,
`TurnFails` one that ends in
an error, `SessionDies` a session that is rebuilt and whose history is gone.  The bar is
an operator, `Bar`, of the messages.  The loops of the code are walks over a
sequence (`AfterCalls`, `AfterMessages`, `Sifted`): functions of the prefix
walked so far, and `Where` and `Latest` stand for the searches for a call.  What
the agent may say in a turn is the constant `Replies`, any set of sequences of
calls (`PlanBarAssumption`).

### RecipeForm

The recipes page: the list of configs of succeeded jobs (`jobs`, `listed`), the
panel that edits one (`config`, `schema`, `prompts`), and the dialog that
submits it (`dialog`, `request`, `submitted`).  `orphans` are creations whose
panel is gone.  A config is a function from fields to values, with one field of
each kind the form tells apart.  Jobs are records with ids that grow, so that
`jobs` and `listed` are sets and what the list derives from order (`First`,
`Namesakes`, `Version`, `Entries`) is read off the ids.  The server stores a
prompt's text as a reference (`Refified`, `api/jobs.py` 1006 to 1063), which the
panel resolves again when the prompts have arrived.  `RecipeAssumption` says
what the code takes for granted of the templates and the jobs there are to begin
with: only a prompt is a reference ("the token is the WHOLE value of a prompt
field", `placeholders.py`), and a template requires fields at the top level of
its config only ("per-recipe required top-level fields",
`recipe-detail-panel.tsx` 38).  `MissingHasEditor` is false without either.  `MissingHasEditor` speaks of emptied lists
only: a number the user clears becomes `null`, for which no editor is rendered
(`recipe-config-form.tsx` 864 to 866), so that Submit stays blocked on a field
the form no longer shows until the panel is opened anew.

### QueryCache, ListPage, JobsPage and LibraryPages

`QueryCache` is what React Query does with one query, as the pages use it: an
answer carries what the server knew when it was read, an invalidation cancels
the fetch under way and asks again, a failed fetch keeps the data.  It holds
operators, and `ListPage`, what the pages have in common, has an instance of it.

`JobsPage` is the list, the query of the selected job, the panel and its three
dialogs: `PollList`, `ListIsRead`, `ListArrives`, `PollDetail` and so on are
the queries, `Confirm`, `Applies`, `Settled`, `Succeeds`, `Refused`, `Breaks` a
cancel, retry or delete, `Leave` and `Enter` the route.  Its server goes the
ways of JobStatus (`Proceeds`), the write over a cancelled row included, so the
row may change after the page has seen its job end and stopped polling:
`ChangesAreListed` says that a list at rest was read after the user's changes,
not that it is the table of the moment.  `JobsAssumption` is
about the model's values only: the jobs there are to begin with have a status,
and `NoData` is not an answer.

`LibraryPages` is one of the four pages of the library at a time (`page`): its
list, its link (`Follow...`; those to datasets name a run or a job), its panel,
and the uploads with the dialog (`box`)
that follows a job and the timer (`tracked`) that takes over when it closes.
`ItemsAreRead`, `ItemsArrive`, `ItemsFail` are its list, `SelectItem`, `Delete`,
`Deleted` and the renames its panel, `OpenBox`, `Submit`, `Accepted`, `PollBox`,
`BoxSees`, `CloseBox`, `TimerSees` its uploads, `LeaveLibrary` and `EnterLibrary`
the route.  A dialog never resets `handled` (`upload-document-dialog.tsx` 97,
112 to 120), so what it does for the first upload that ends in it, renew the
list, close by itself, hand on to the timer, it does not do for the next: such
an end is owed as `"again"`, and `ListKeepsUp` and `EndIsTold` are about the
first.  `LibraryAssumption`: `NoData` is not an answer.

## 3. Runs

| run | instance | shows |
|---|---|---|
| `faults` | 1 job (training or SDG), 2 crashes, all six faults, cancels and deletes; 22 000 states | never submitted while its Job is alive; a running row is killable; succeeded is true; JobLifecycle implements JobStatus: who moves a row, and along which edges |
| `two` | 2 training jobs, 1 GPU, 2 slots, 1 crash, cancels | the budget with adopted jobs; before a crash nothing is orphaned; claimed jobs settle; the queue drains |
| `admit` | 2 replicas, 4 jobs of 0 or 1 GPU, 1 GPU, 2 slots, pages of 2, 1 failing query; 965 000 states | no job runs twice; each worker keeps its budget; the oldest job that fits is claimed; CPU jobs run |
| `delegate` | producer and consumer, 3 conversations, 1 failed call; 300 000 states | an armed resume wakes a consumer that waits; one owner per conversation; the pointer is the consumer's own; signals of steady turns are answered |
| `gateway` | 2 changes by 2 concurrent requests, 2 attempts, 1 trouble, one provider of each kind; 616 000 states | no save is lost; a quiet stack runs on what was saved; the driver keeps CredentialSync; the splash page settles |
| `chat` | 2 jobs, 1 upload, 2 mounts, 1 reload or fault, 1 proposal, 1 deletion; 1.5 million states | one turn at a time; no empty answer at the end; an end is told once, and reported if its card is on display; a proposal is submitted once but for a lost reply |
| `session` | 2 turns of the user or of a job, 5 sessions, 2 views, 1 lost session, 1 fault, 2 retries, 2 models, 1 pick; 867 000 states | a turn is fetched where it ran and the context survives, unless the session is rebuilt beside it; the model of a turn is the one shown; turns end |
| `recipes` | 3 templates, 2 earlier jobs, 3 edits or submissions, 1 fault; 371 000 states | what blocks Submit can be filled in; edits are kept; no second job before the first is known |
| `jobs` | 2 ids, 2 moves of the worker, 2 actions, 1 fault, 2 visits; 661 000 states | a list at rest was read after every change of the user's; an ended job is not shown as running |
| `library` | 2 items, the 4 pages, 2 actions, 1 fault, 2 visits; 788 000 states | links open; the list shows what was deleted and what a dialog announced first; the first end in a dialog is told |
| `plan` | 3 turns, 1 ended job, 1 failed fetch or lost session, 8 replies; 2.0 million states | the bar is of this phase and of what the agent last said; questions have one card |
| `claim_cancel` | 1 job, no fault, no crash, cancels | the claim of `docs/architecture.md` that the code breaks: `cancelled` is final (section 5) |

Why the bounds suffice.  Each property relates at most two actors or two
moments, and the bound on each counter lets both happen with a failure between
them.

* Jobs: the properties of `faults` speak of one job, whose actions read no
  other's state except through the budget; two crashes let a restart meet what
  a restart left.  Two jobs are the fewest that compete for a GPU.  Four jobs
  and pages of two give a full page of jobs that do not fit, a second page and
  one behind it, and the second replica the occasion to take each of them.
* Agent: a producer and a consumer make a detour, a third conversation lets one
  of them be started afresh while its predecessor is stashed; the turns are
  not bounded.
* Gateway: two changes may collide at the lock, land on a driver at work or one
  about to stop, or undo one another; two attempts may overlap; one trouble
  hits any call.  Two providers show whether a removal drops the other's.
* Chat: two views are a detached one and a mounted one, two jobs are a queue
  with a head and a rest, or the one job a proposal made and the one a second
  click makes after a lost reply.  Five sessions are enough for every rebuild
  that one fault and one lost session can set off; the retries of the code are
  two (`MAX_RETRIES`), the failures that trip its queue are three and in the
  model one.  `EndIsReported` is checked for one job (`SomeJob`): no step tells
  one from another.
* Pages: two items tell "this one" from "another", a fault after any request,
  and a second visit meets what the first one cached.  Two moves of the worker
  are one before a cancel and one that writes over it; two actions of the
  library are two uploads in one dialog.

Deadlock is checked in every run but `chat`, where nothing is left to do once
the conversation is deleted: no other state is without a step.  Each
property has a mutant, a changed form of one mapped definition that breaks it
in its run; the mutants stand next to the definitions and carry the word.

**Fairness.**  No user, fault, crash, expiry or model's output is ever forced.

* JobLifecycle: weak fairness for the admission loop, for recovery, for the
  restart of the pod and for each job's task: asyncio runs every coroutine that
  is ready, and Kubernetes restarts the server.  Weak fairness for the end of a
  container: otherwise nothing can settle.  Crashes are finite.
* Admission: the scan, and the end of some CPU task; training jobs may run for
  ever.  `CpuJobsRun` needs more slots than GPUs, as in the defaults (4 and 1):
  with as many GPU jobs as slots the CPU job does wait.
* Gateway: the page's poll (a timer), the steps of attempts, driver and calls
  (each call of the cluster has a timeout), and the start of an installed pod.
* ChatTurns: the requests (they have timeouts), the monitor cards (they poll),
  the drain's shift.  Strong fairness for the queue of ended jobs: it is
  subscribed to the store and is woken by each change, so a lock that is taken
  and freed again and again wakes it each time it is freed.
* ChatSession: the steps of the turn and of the warm-ups.
* JobsPage, LibraryPages: polls, answers and timers.

## 4. Proofs

A theorem holds for every value of the constants that their assumptions admit:
any number of jobs, replicas, requests, views, sessions, any bound, any sequence
of replies and failures.  Each rests on an inductive invariant, and the proof
that a step keeps it has one step per action.

### JobLifecycle

| theorem | says |
|---|---|
| `TypeCorrect`, `Invariant` | `Spec => []TypeOK`, `Spec => []IInv` |
| `NeverSubmitsTwice` | a job being set up has no Job on the cluster |
| `RunningHasHandle` | a running row carries its handle |
| `SucceededLeavesNothing` | a succeeded row's Job neither runs nor failed |
| `KeepsStatusTable` | JobLifecycle implements JobStatus: a row moves along its edges, and a cancelled one only under a task that has its job in hand |
| `FinishedStaysFinished` | no step of the worker touches a finished row |
| `NothingIsLeftBehind` | without faults and crashes no Job holds GPUs that no task polls |
| `BudgetIsKept` | the jobs in flight fit the GPUs and the slots |

None of these is inductive.  `IInv` adds what the first five rest on: a queued
row has neither task nor Job (`QueuedIsFree`), a job being set up has no Job
(`SetupIsFree`), a task never works on a queued or finished row
(`TaskOwnsRow`) and not on a running one during set-up (`SetupNotRunning`),
polling tasks and running rows have the handle (`HandleKept`), recovery and
tasks never overlap (`PhasesApart`), a parked delete has seen a row that ended
(`DeleteAfterEnd`), and exit code 0 came from a Job that succeeded (`OkIsTrue`).
`InvariantStep` has one step per action; `StatusStep` maps every action to a
step of JobStatus or a stutter.

`Attended` says where a task stands while its Job holds GPUs: at one of four
steps that all lead to another look at the Job or to its reclaim.  A cancel or a
delete touches the row and the Job but never the task, which is why users cannot
leave a Job behind.

`BudgetIsKept` assumes `Faults \subseteq Harmless`: a lost claim, a lost submit
and a failed cancel may happen, and any number of crashes.  The other three kinds
leave a row whose Job is still on the cluster to no task: an exception in the
task, a probe that fails at a restart (`ProbeError`, section 5), a recovery that
breaks off.  With any one of them TLC finds the budget exceeded after a crash or
two: the worker counts its tasks, not the rows, admits more, and
the next restart adopts all of it.  The invariant counts tasks and rows a restart
may adopt (`Held`); `RowHasTask` says that the worker sees every one of them when
it admits a job, so that a restart adopts no more than was there.  The sum is
`MapThenSumSet` of the community modules, a fold; that it adds up, and that it
depends on the summands alone, is proved in `SumPicks` and its neighbours by a set
that is minimal among those for which it would not (`MinimalSet`): an induction
without an operator as parameter.

### Admission

`AdmissionTypes`; `RunsOnce` (`NoDoubleRun`), which uses nothing but the guard
of the `UPDATE`, though the pages are read without a lock and may hold the same
candidate at every replica; and `OldestIsClaimed` (`ClaimsOldestFit`).  The latter is about a scan
that spreads over many steps in which other replicas claim, users cancel and
insert, and tasks end.  `ScansAreSound` says of each scan under way that every
queued job is still ahead of its cursor, or on its page, or does not fit what it
counted when it began (`Covers`).  Rows are inserted in the order of their names
(`InOrder`) and a demand is never changed (`RowsStay`), so that a page that was
full and is used up leaves only later jobs, one that was not full leaves none
(`PageIsOldest`), and the GPUs counted at the start are too few only for jobs
that do not fit (`FitsIsKept`, `DemandSumIsSame`).  `TasksFitTheBudget`
(`TasksFit`) is the other half of what a scan is for: `Counted` says that the
tasks of a worker in a scan are among those it counted and that the slot it began
for is still free, since a cancel touches the row and not the task, and only the
worker's own claim adds one, which ends the scan.  The sums are those of
JobLifecycle (`DemandIsSum`).

### AgentDelegation

| theorem | says |
|---|---|
| `TypeCorrect` | `Spec => []TypeOK` |
| `ConversationsHaveOneOwner` | the active conversation is not stashed, a stashed one lies under its target |
| `ArmedConsumerWaits` | while a resume is armed on a producer outside `Askers`, that producer is active and the consumer is stashed with its request unanswered |
| `PointersAreTheirOwn` | a stashed conversation resumes at its own step or at the entry, not at the step of the detour |
| `NoSignalIsDropped` | between turns the active subagent has no signal that nobody acted on |

A producer outside `Askers` leaves control only by completing or by a 404, and
both disarm the resume; so nothing else can run, and nothing can take the
consumer from the stash.  The invariant adds `Control` (who is in control at
each point of a turn) and `AskerWaits` (whoever asked is stashed while the
orchestrator answers), and the proof needs `OneOwner`, as a reply to one
conversation must not touch another.  With a producer that may itself ask for
help the theorem is false: the consumer can be resumed by hand, complete, and be
woken again by the stale resume.

`Pointers` adds to the fourth what the cursor of the active conversation is;
the fifth is an invariant on top of `IInv`.  Both except failed calls
(`failures = 0`), as the properties do.

### Gateway

| theorem | says |
|---|---|
| `TypeCorrect` | `Spec => []TypeOK` |
| `NoSaveIsLost` | the Secret holds what the answered changes add up to |
| `KeepsCredentialSync` | the gateway implements CredentialSync |
| `WhatIsSavedRuns` | a quiet stack runs on what was saved |

`LockInv` is the argument for the lock: whoever waits or works is in the queue
(`QueueIsBusy`), once (`NoneTwice`), only the first is past its reading
(`FirstAtWork`), and the set it read is still the saved one (`ReadIsCurrent`).
`SyncInv` adds that no change is accepted that was not saved
(`AcceptedIsSaved`), and that a driver at work has either seen the last
accepted change, is about to read, or has a round ahead of it
(`RoundCovers`): what makes coalescing the requests for a round sound.

`WhatIsSavedRuns` follows the credentials to the server's environment and to the
sandbox.  Under `Untroubled` one attempt works at a time, before any driver and
beside no change (`OneAttempt`, `DriverIsEntry`, `PageIsOfEntry`), and what it
read and what it found are current (`AttemptIsCurrent`, `FoundIsCurrent`).  From
then on each change is a round that is due, under way or done
(`RoundIsCurrent`), and for the keys a restart that is due, under way or done
(`ServerIsCurrent`): a round that a later change made necessary must not lose
the restart that an earlier one asked for.

### ChatTurns and ChatSession

| theorem | says |
|---|---|
| `OneTurnAtATime` | one turn of a conversation at a time, beside any notices |
| `EndsAreToldOnce` | the agent hears of an ended job at most once |
| `OrphansAreReconciled` | no conversation ends with an empty answer nobody will fill |
| `ProposalsAreSubmittedOnce` | no more jobs are submitted than were proposed, but for one for each lost reply |
| `TurnsAreFetchedWhereTheyRan` | the stored session is the one that ran the turn, unless a warm-up rebuilt it beside the turn |
| `ContextIsKept` | at rest the stored session knows every answered turn, unless the code replaced it without a replay or twice at once |
| `ModelIsKept` | the model of a turn is that shown when it was sent |

Every request takes the lock where it is free, ends by freeing it, and what a
detached view does in between keeps it; a reload drops both.  A deletion may free
the lock alone, but a deleted conversation is on display nowhere
(`gone => ~shown`) and its queues start nothing.  That gives the first theorem,
and the others of ChatTurns use it.  `ToldOf` follows one job: once told, it is
marked, or the turn that told it is the one that will mark it, or the
conversation is gone.  `Sound` is about the messages: plain ones but the last
left out, each placeholder that of the turn under way or an orphan, the last
message no orphan.  `Compact` being a fold over a sequence, its effect is stated
by an embedding (`Embedded`) and proved with a least counterexample (`Least`).
`Balance` compares submissions and proposals left with proposals made: a
submission that the server has heard while its card is still there
(`Replying`) counts once, and the replies that a failure or a reload cuts off in
between (`cut`) are what `CardSubmitsOnce` allows for.

The fifth theorem rests on who may replace the stored session: unless the code
crossed itself, only the warm-up of the latest view rebuilds it
(`RebuildsLatest`), and beside a turn only while the turn waits for it
(`RebuildsForTurn`), so that the session the turn found or made stays
(`SentToStored`).  The sixth
follows the context through a change of session: with none stored, or one that
has not been told, a turn or a warm-up carries the duty to replay
(`NoneStored`, `StoredKnows`).  The seventh says that the warm-up, the header
and the retries leave the model alone (`ModelFixed`).

### RecipeForm

| theorem | says |
|---|---|
| `MissingCanBeFilled` | an emptied list that blocks Submit has an editor |
| `EditsAreKept` | what the user edited is in the config, whatever arrives later |
| `UserIsToldFirst` | no second job is sent before the first one's outcome was shown |

`Clean` says of every config there is (edited, selected, listed, sent, stored)
that only its prompt may be a reference: what `Refified` and the late
resolution of references (`PromptsArrive`) preserve.  `TypedStays` adds that an
edited field is not a reference, so that the late answer leaves it alone.
`Told` follows a creation whose outcome the user has not seen: it is under way,
or the next dialog opens on it.

### PlanBar

| theorem | says |
|---|---|
| `PlanInvariant` | `Spec => []PlanInv` |
| `ListsThisPhase` | the bar lists all that was reached in the run the agent is in, and nothing from before it entered the phase |
| `FollowsAgent` | the bar is in the phase the agent last said it is in |
| `HasItsCard` | a question that was heard has its card, and no card follows the same card |

The bar is computed anew from all messages each time; the properties speak of
`Heard`, all the calls the studio kept, as one sequence.  The first half of the
proof is about the walk alone: `PlanAfterCall` says what one more call does to a
plan that is that of the calls before it (`PlanOf`), `PlanAfterCalls` and
`PlanAfterMessage` carry that over a message, `WalkOfFlatten` says that walking
message by message is walking the flattened calls, so that `PlanOfHeard` gives
the plan of any messages at all.  The view drops the mark `terminal`, so no
message ends a phase, and the code's bar lists an earlier run of the same phase
with the present one.  That is what the comment of `derive-plan-steps.ts` 94 to
96 means to prevent, so the theorem requires the steps of the present run and
leaves those of the earlier run open; `NewRunStartsOver` is the claim
(section 5).  The second half is
about what a turn hands over.  What the studio takes from the conversation is the
current turn's calls and none of the turns before (`CallsOfTurn`), signals first
and otherwise in their order (`CollectedSays`), so that the signal heard last is
the one the agent made last (`SaidAfterSifted`), or the one the server made up
for it, which names the phase of the subagent (`BackfillSays`).  `PlanInv` is
thus: the types, `said` is the phase of the last signal heard (`LastSaid`), and
each message has the card it asked for unless it is the turn of an ended job
below that same card (`CardsOf`).

These are inductions over data.  The library's induction theorems have an
operator as parameter, which no prover here can instantiate; `Upto` has a set
instead (0 is in it, and with i - 1 so is i), which is proved from the
well-foundedness of `<`, and `Recursion` shows that a function defined by its
value at the prefix before exists and is what its definition says.  `Texts`
names the strings the model uses: the provers do not know that a literal is in
`STRING`.

### JobsPage and LibraryPages

`ChangesReachTheList` (`ChangesAreListed`), from lemmas about each operator of
QueryCache.  `Coherent` says of every change the user made that an
answer already read was read after it, since the invalidation cancels one that
was not, and that the list was too or a newer answer is to come
(`Awaited`): asked for, marked for the next visit, or due when the mutation
settles.

`AnnouncementsReachTheList` (`ListKeepsUp`) is the same argument for the
library, where the end of an upload may be announced by the dialog or by a
timer that outlives it, and what is announced is an item that appears or
disappears. The query lemmas hold for any set of answers and serve both.
`LibraryInvariant` gives the types, that panel, deletion and dialog name an
item (`Named`), and that an item is there from the moment its job succeeded and
not before (`Born`); `Forth` says that the server takes nothing back. `AllTold`
then says of each announcement that the server has it (`Announced`), that an
answer already read tells it, and that the list does so too unless an answer is
expected or the list is marked and the user elsewhere (`Expected`).  The later
uploads of a dialog are announced without any of this, and excepted.

### Only model-checked

Every safety invariant and every action property that a run checks is a theorem.
What stays with TLC is liveness: `Settles`, `QueueDrains`, `CpuJobsRun`,
`PageSettles`, `EndIsReported`, `TurnEnds`, `EndIsShown`, `LinkOpens`, `EndIsTold`.  It rests on
fairness, hence on ENABLED, which this prover does not handle.

## 5. Where documents and code part

`claim_cancel` is a `violation` run with a trace, and the finding in
`PROJECT.json`.  `docs/architecture.md` ends the life of a job at `cancelled`
(line 156), and 3.8 calls the code that writes over it a bug.  A task that has
the job in hand does so at four places: after the submit (`worker.py` 526, back
to provisioning), and when it finds the job running (575), succeeded (602) or
failed (637).

Four more claims of the repository are stated next to the properties, and TLC
refutes each in the instance of the run named here, put in the place of its
properties:

| claim | where | run | what happens |
|---|---|---|---|
| `BarSettles` | `chat/types.ts` 53 to 56 | `plan` | the mark `terminal` of a job's continuation is set in the store, and `toChatMessage` (`use-chat.ts` 23), which maps stored messages for the view, drops it: the bar strands on its last step |
| `NewRunStartsOver` | `derive-plan-steps.ts` 94 to 96 and its test, 74 to 86 | `plan` | for the same reason a second run of a phase inherits the completed steps of the first; the test sets the mark by hand. With a `toChatMessage` that carries it both claims hold in this instance |
| `NotRebuiltMidTurn` | `use-chat.ts` 462 to 464 | `session` | the turn for an ended job (865) starts beside a warm-up without waiting for it, and the warm-up drops or replaces the session in the middle of the turn |
| `DatasetLinkOpens` | `datasets/page.tsx` 36 to 38 | `library` | a link by job (`?job=`, "View Dataset" of the chat) is looked up in the list only; with a fresh cached list from before the job's end it never opens |

Divergences that are in the models, as the code has them, and have no run of
their own:

* A job cancelled while it is set up is submitted all the same (`worker.py` 498).
* A submit that raises after the cluster made the Job fails the row, and the Job
  runs on beside it (`worker.py` 498).
* An exception of the set-up that is not a `JobBuildError` leaves the row in
  provisioning until the next restart (`worker.py` 448).
* A status call that fails on a live Job fails the row and frees its GPUs in
  the worker's count while the Job runs on (`worker.py` 571).
* A job whose status is indeterminate at a restart is left "for a later retry"
  that only the next restart makes (`worker.py` 801); a requeued job makes a
  second MLflow run and the first stays active (`worker.py` 414).
* A subagent that asks for help in the turn that delegated to it, with or
  without a nudge, keeps control, and nobody acts on the request
  (`agent.py` 1464).
* A consumer released in the very turn that resumed it is stashed without its
  step (`agent.py` 1315 against the comment at line 118); a completion
  suppressed in a turn that also asks for help leaves `suppressed_completion`
  to the next subagent (1269), and the help request is honoured though the
  comment at line 1239 says that completion wins; a failed send loses a popped
  conversation, a disarmed resume (1288), or a correction already cleared.
* A session replaced after a network error knows nothing of the conversation,
  though the banner says "connected"; after a failed replay it says "restored"
  (`api-client.ts` 551).

* The fast path of the gateway restarts no server since "the stored keys already
  match the running server env (genuine changes go through setUserProvider)"
  (`provision.js` 829 to 831): a first key saved while the pod was down is
  stamped after the pod has read its environment (section 2, Gateway).

Seen while reading: `docs/architecture.md` section 3.4 still calls the worker
serial; section 3.3 says that `cancel_job` writes first and kills then, section
3.8 and the code the reverse; the summary of the delete endpoint
(`api/jobs.py` 1906) says cancelled or failed jobs only, the code also deletes
succeeded ones; a Job that ended while the server was down for more than an
hour is failed as orphaned; `LocalBackend.cancel` pops the process that a poll
is about to read (`local.py` 143); finished turns are evicted while a client
may still poll them (`agent.py` 740).

In the studio:

* Chat: an option counts as chosen though its send was refused
  (`chat/page.tsx` 63); three failures empty the queue of ended jobs, other
  jobs' entries included; `pollPending` appends after a lock it looked at
  before; a failed confirmation frees the input that waits for another job; a
  lost reply to a confirmation leaves the card, and a second click makes a
  second job; the first has no monitor card and its end is told to nobody, no
  more than that of a job whose monitoring was skipped; references are dropped by a reload and may be shifted twice when
  a view is mounted during a drain; a job's turn that asks twice shows two cards;
  the notice of a rejection takes no lock, so a send may run beside it in the
  same session (`use-chat.ts` 806); a request that outlives its deleted conversation leaves
  its session, its job lock and its told jobs in the store for good.
* Models: a conversation made by the deletion of the last one has no model of
  its own and follows the default; the sidebar sends on a model that is no
  longer on offer; saving a provider renews the list of providers before the
  driver has applied it (`use-model-provider.ts` 44).
* Progress bar: going back leaves the later step active.
* Recipes: a background refetch that fails unmounts the panel with the edits in
  it (`recipes/page.tsx` 85); a creation in flight when the panel goes tells
  nobody.
* Jobs: a cancel dialog left open pops up for the next job; the optimistic
  update writes a key no list reads; a row that the worker writes over after its
  cancel stays `cancelled` in a list with no active job to poll for; an idle page does not notice new jobs; the
  log view stops at a job's end and may miss its last lines; a link to a
  deleted job spins.
* Library: the late answer to a dataset's link navigates back a user who has
  left (`datasets/page.tsx` 60); links to models and documents are dropped when
  a stale list is cached; an upload dialog closed while the file is being sent
  loses its job; a timer gives up at its first failed look; the second upload of
  a dialog is announced without renewing the list, and is not handed on when the
  dialog closes (`upload-document-dialog.tsx` 97, 112 to 120, 139 to 165); a
  cancelled upload of a document is shown as processing for ever.

## 6. Not modelled

Kubernetes submit in detail (the Secret, ConfigMap and Job are one step), the
local and SSH backends, the builders and the job API's gates, retry and
lineage; dataset jobs of the API layer; the phase gates of `phases.py`; MLflow
beyond the run a row names; the tracking of turns around AgentDelegation
(polling, eviction, idle sessions).  Of the studio: the overview, settings
beyond the credentials' round trip, the tabs that only display (logs, metrics,
data previews), layout, and `mock-backend.js`, a server for demonstrations.
Read-only views (evaluations, costs, catalogue), the CLI and the MCP server
(thin clients), the containers' entry scripts (sequential) and the manifests
have no state of their own to get wrong.

## 7. Plan

1. An abstract specification of a page's list (what it may show after what) that
   JobsPage and LibraryPages both implement; the common part of `Coherent` and
   `AllTold` would be its invariant.
2. Kubernetes submit: Secret, ConfigMap and Job, created or replaced in order,
   with a crash between any two and a re-dispatch; owner references.
3. The poll of a local process against the cancel that kills it, composed with
   the finalizing half of JobLifecycle.
4. Dependency gates, retry and deletion of a parent.
