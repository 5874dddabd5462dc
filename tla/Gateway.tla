------------------------------ MODULE Gateway ------------------------------
(***************************************************************************)
(* The studio gateway (studio-gateway/src/provision.js, server.js and the  *)
(* page of splash.js) for one user: the in-memory entry of the user's      *)
(* stack, the first provisioning of it, the reconciliation of a running    *)
(* stack to a changed set of model credentials, and the cluster objects    *)
(* they write.  The gateway is one Node process, so a step runs from one   *)
(* await to the next, and the concurrent calls interleave at the awaits.   *)
(***************************************************************************)
EXTENDS Integers, Sequences, FiniteSets

CONSTANTS
  KeyProviders,  \* providers whose credential the server reads from its env
  AdcProviders,  \* providers only the chat sandbox uses (vertex)
  Preset,        \* providers of the stack an earlier gateway may have left
  Calls,         \* concurrent requests to change the credentials
  Boots,         \* concurrent ensureUserStack attempts the model allows
  MaxChanges,    \* bound on the changes asked for
  MaxTroubles    \* bound on failing cluster calls, deaths of the server pod
                 \* and restarts of the gateway, together

Providers == KeyProviders \union AdcProviders

ASSUME GatewayBounds ==
  /\ MaxChanges \in Nat /\ MaxTroubles \in Nat
  /\ KeyProviders \intersect AdcProviders = {}
  /\ Providers # {}
  /\ Preset \subseteq Providers

ASSUME BootNames == "none" \notin Boots /\ "driver" \notin Boots

VARIABLES
  secret,   \* the credential Secret of the user: data and resourceVersion
  keys,     \* the teacher-key Secret in the user's namespace
  server,   \* the user's server: whether helm installed it, up, and its env
  box,      \* the chat sandbox: the credential set it was created with
  entry,    \* stacks.get(ns): the attempt whose state requests see
  boot,     \* the attempts of ensureUserStack
  driver,   \* the reconcile driver of the namespace
  call,     \* the requests to set or remove a provider
  queue,    \* withProviderLock: the calls that hold or wait for the lock
  page,     \* what the splash page in the browser shows
  spent,    \* how much of each bound is used
  accepted, \* history: the revision when a change was last handed to the driver
  asked,    \* history: the set the answered changes add up to, in their order
  overlap   \* history: an attempt of ensureUserStack ran beside a change

cluster == <<secret, keys, server, box>>
history == <<accepted, asked, overlap>>
vars == <<secret, keys, server, box, entry, boot, driver, call, queue, page,
          spent, accepted, asked, overlap>>

-----------------------------------------------------------------------------
(* Credentials are numbered by the change that saved them; 0 is "not set". *)
(* The credentials a former gateway left behind have the number Old.       *)
Old    == MaxChanges + 1
Creds  == 0 .. Old
Sets   == [Providers -> Creds]
NoCred == [p \in Providers |-> 0]
NoBox  == [p \in Providers |-> -1]

BootPc   == {"idle", "read", "check", "stampFast", "boxFast", "stampNew",
             "helm", "boxNew", "await"}
DriverPc == {"idle", "read", "stamp", "restart", "delete", "create", "failed"}
CallPc   == {"idle", "queued", "write", "decide"}
States   == {"provisioning", "ready", "needs_key", "error"}
Pages    == {"polling", "form", "error", "studio"}

Idle       == [pc |-> "idle", state |-> "error", set |-> NoCred]
IdleDriver == [pc |-> "idle", state |-> "error", set |-> NoCred, rev |-> 0,
               restart |-> FALSE, requested |-> FALSE, nextRestart |-> FALSE,
               erred |-> FALSE]
IdleCall   == [pc |-> "idle", provider |-> CHOOSE p \in Providers : TRUE,
               cred |-> 0, set |-> NoCred]

(* The env a credential set gives the server: the vertex credential is for  *)
(* the sandbox alone.                                                      *)
ServerEnv(set) == [p \in Providers |-> IF p \in KeyProviders THEN set[p] ELSE 0]

(* The state a request is answered with.                                   *)
EntryState ==
  IF entry = "none" THEN "unprovisioned"
  ELSE IF entry = "driver" THEN driver.state ELSE boot[entry].state

Rotating == driver.pc # "idle" \/ EntryState = "ready" \/ server.up

FreeBoots == {b \in Boots : boot[b].pc = "idle" /\ entry # b}

Spends(kind) == spent' = [spent EXCEPT ![kind] = @ + 1]
Trouble(kind) ==
  spent.faults + spent.crashes + spent.restarts < MaxTroubles /\ Spends(kind)
Fault   == Trouble("faults")
NoFault == UNCHANGED spent

BootTo(b, pc)       == boot' = [boot EXCEPT ![b].pc = pc]
BootEnds(b, state)  == boot' = [boot EXCEPT ![b].pc = "idle", ![b].state = state]
DriverTo(pc)        == driver' = [driver EXCEPT !.pc = pc]
CallTo(c, pc)       == call' = [call EXCEPT ![c].pc = pc]

(* A gateway starts with an empty map, on a cluster without the user's      *)
(* stack or with one that runs.                                            *)
Left == [p \in Providers |-> IF p \in Preset THEN Old ELSE 0]

Fresh ==
  /\ secret = [data |-> NoCred, rev |-> 0] /\ keys = NoCred
  /\ server = [installed |-> FALSE, up |-> FALSE, env |-> NoCred]
  /\ box = NoBox

Running ==
  /\ secret = [data |-> Left, rev |-> 0] /\ keys = ServerEnv(Left)
  /\ server = [installed |-> TRUE, up |-> TRUE, env |-> ServerEnv(Left)]
  /\ box = IF Left = NoCred THEN NoBox ELSE Left

Init ==
  /\ Fresh \/ Running
  /\ entry = "none"
  /\ boot = [b \in Boots |-> Idle]
  /\ driver = IdleDriver
  /\ call = [c \in Calls |-> IdleCall]
  /\ queue = <<>>
  /\ page = "polling"
  /\ spent = [changes |-> 0, faults |-> 0, crashes |-> 0, restarts |-> 0]
  /\ accepted = 0
  /\ asked = secret.data
  /\ overlap = FALSE

(* The type invariant.                                                      *)
Bounds == [changes : 0 .. MaxChanges, faults : Nat, crashes : Nat, restarts : Nat]

TypeOK ==
  /\ secret \in [data : Sets, rev : Nat] /\ keys \in Sets
  /\ server \in [installed : BOOLEAN, up : BOOLEAN, env : Sets]
  /\ box \in Sets \union {NoBox}
  /\ entry \in Boots \union {"none", "driver"}
  /\ boot \in [Boots -> [pc : BootPc, state : States, set : Sets]]
  /\ driver \in [pc : DriverPc, state : States, set : Sets, rev : Nat, restart : BOOLEAN,
                 requested : BOOLEAN, nextRestart : BOOLEAN, erred : BOOLEAN]
  /\ call \in [Calls -> [pc : CallPc, provider : Providers, cred : Creds, set : Sets]]
  /\ queue \in Seq(Calls)
  /\ page \in Pages /\ spent \in Bounds
  /\ accepted \in Nat /\ asked \in Sets /\ overlap \in BOOLEAN

-----------------------------------------------------------------------------
(* ensureUserStack: a request that finds no entry starts an attempt, and    *)
(* every request gets the entry's state.                                   *)
StartBoot(b) ==
  /\ b \in FreeBoots
  /\ boot' = [boot EXCEPT ![b] = [Idle EXCEPT !.pc = "read", !.state = "provisioning"]]
  /\ entry' = b
  /\ overlap' = (overlap \/ driver.pc # "idle" \/ queue # <<>>)

(* splash.applyState: what the page does with the state it is sent.         *)
PageFor(state) ==
  IF state = "ready" THEN "studio"
  ELSE IF state = "needs_key" THEN "form"
  ELSE IF state = "error" THEN "error" ELSE "polling"

(* GET /gateway/ready, the splash page's poll; the reload of a page that    *)
(* was told "ready" goes through the splash gate, which asks again.         *)
Poll ==
  /\ page = "polling"
  /\ IF entry = "none"
       THEN (\E b \in Boots : StartBoot(b)) /\ UNCHANGED page
       ELSE page' = PageFor(EntryState) /\ UNCHANGED <<entry, boot, overlap>>
  /\ UNCHANGED <<cluster, driver, call, queue, spent, accepted, asked>>

(* POST /gateway/retry, behind both Retry and Continue; Continue is shown   *)
(* once a provider is stored.  markForRetry leaves an attempt in flight     *)
(* alone, then ensureUserStack runs as for any request.                     *)
Retry ==
  /\ \/ page = "error"
     \/ page = "form" /\ secret.data # NoCred
  /\ page' = "polling"
  /\ IF EntryState = "provisioning"
       THEN UNCHANGED <<entry, boot, overlap>>
       ELSE \E b \in Boots : StartBoot(b)
  /\ UNCHANGED <<cluster, driver, call, queue, spent, accepted, asked>>

(* The user reloads: the splash gate asks for the entry, as a poll does, and *)
(* shows the splash unless it is ready.                                     *)
Reload ==
  /\ page # "polling"
  /\ page' = "polling"
  /\ UNCHANGED <<cluster, entry, boot, driver, call, queue, spent, history>>

BootRead(b) ==
  /\ boot[b].pc = "read"
  /\ \/ boot' = [boot EXCEPT ![b].pc = "check", ![b].set = secret.data] /\ NoFault
     \/ BootEnds(b, "error") /\ Fault
  /\ UNCHANGED <<cluster, entry, driver, call, queue, page, history>>

(* The server answers health: only the sandbox and the keys are re-asserted.*)
(* Otherwise a first run needs at least one provider.                       *)
BootCheck(b) ==
  /\ boot[b].pc = "check"
  /\ \/ server.up  /\ boot[b].set = NoCred /\ BootEnds(b, "ready")
     \/ server.up  /\ boot[b].set # NoCred /\ BootTo(b, "stampFast")
     \/ ~server.up /\ boot[b].set = NoCred /\ BootEnds(b, "needs_key")
     \/ ~server.up /\ boot[b].set # NoCred /\ BootTo(b, "stampNew")
  /\ UNCHANGED <<cluster, entry, driver, call, queue, page, spent, history>>

BootStamp(b) ==
  /\ boot[b].pc \in {"stampFast", "stampNew"}
  /\ \/ /\ keys' = ServerEnv(boot[b].set)
        /\ BootTo(b, IF boot[b].pc = "stampFast" THEN "boxFast" ELSE "helm")
        /\ NoFault
     \/ BootEnds(b, "error") /\ Fault /\ UNCHANGED keys
  /\ UNCHANGED <<secret, server, box, entry, driver, call, queue, page, history>>

(* helm upgrade --install of the core chart: an upgrade with the same       *)
(* values leaves the running pod alone.                                     *)
BootHelm(b) ==
  /\ boot[b].pc = "helm"
  /\ \/ server' = [server EXCEPT !.installed = TRUE] /\ BootTo(b, "boxNew") /\ NoFault
     \/ BootEnds(b, "error") /\ Fault /\ UNCHANGED server
  /\ UNCHANGED <<secret, keys, box, entry, driver, call, queue, page, history>>

(* openshell sandbox create: "already exists" is no error, and the sandbox  *)
(* keeps the credentials it was created with.                              *)
CreatedBox(set) == IF box = NoBox THEN set ELSE box

(* ensureSandbox, best effort: an attempt goes on without the sandbox.      *)
BootBox(b) ==
  /\ boot[b].pc \in {"boxFast", "boxNew"}
  /\ \/ box' = CreatedBox(boot[b].set) /\ NoFault
     \/ UNCHANGED box /\ Fault
  /\ IF boot[b].pc = "boxFast" THEN BootEnds(b, "ready") ELSE BootTo(b, "await")
  /\ UNCHANGED <<secret, keys, server, entry, driver, call, queue, page, history>>

(* provision() asks for the server's health for at most five minutes.       *)
BootAwait(b) ==
  /\ boot[b].pc = "await"
  /\ \/ server.up /\ BootEnds(b, "ready") /\ NoFault
     \/ ~server.up /\ BootEnds(b, "error") /\ Fault
  /\ UNCHANGED <<cluster, entry, driver, call, queue, page, history>>

BootStep(b) == \/ BootRead(b) \/ BootCheck(b) \/ BootStamp(b)
               \/ BootHelm(b) \/ BootBox(b) \/ BootAwait(b)

-----------------------------------------------------------------------------
(* The Deployment: a pod reads the teacher-key Secret into its env when its *)
(* container starts.                                                       *)
ServerStart ==
  /\ server.installed /\ ~server.up
  /\ server' = [server EXCEPT !.up = TRUE, !.env = keys]
  /\ UNCHANGED <<secret, keys, box, entry, boot, driver, call, queue, page, spent, history>>

ServerCrash ==
  /\ server.up
  /\ Trouble("crashes")
  /\ server' = [server EXCEPT !.up = FALSE]
  /\ UNCHANGED <<secret, keys, box, entry, boot, driver, call, queue, page, history>>

-----------------------------------------------------------------------------
(* POST and DELETE /gateway/provider.  A save carries a fresh credential:    *)
(* one the form or the server turns down changes nothing.                   *)
Asks(c, provider, cred) ==
  /\ call[c].pc = "idle"
  /\ spent.changes < MaxChanges /\ Spends("changes")
  /\ call' = [call EXCEPT ![c] = [pc |-> "queued", provider |-> provider,
                                  cred |-> cred, set |-> NoCred]]
  /\ queue' = Append(queue, c)
  /\ UNCHANGED <<cluster, entry, boot, driver, page, history>>

(* A credential that validateCredential accepts.                            *)
FreshCred == spent.changes + 1

(* The splash form adds a provider.                                         *)
AddProvider(c) == page = "form" /\ \E p \in Providers : Asks(c, p, FreshCred)

(* The row of a provider on the settings page saves or removes its          *)
(* credential; the list it is in may be a cached one, so that the provider  *)
(* may be gone already.                                                     *)
SaveProvider(c)   == page = "studio" /\ \E p \in Providers : Asks(c, p, FreshCred)
RemoveProvider(c) == page = "studio" /\ \E p \in Providers : Asks(c, p, 0)

Ask(c) == AddProvider(c) \/ SaveProvider(c) \/ RemoveProvider(c)

(* withProviderLock: one change of the namespace at a time, in order.       *)
(* Mutant: changes are not serialised. *)
NoLock(c)    == TRUE
HoldsLock(c) == queue # <<>> /\ Head(queue) = c

(* The holder is answered, and the next call in the queue has the lock.     *)
Answered(c) == CallTo(c, "idle") /\ queue' = Tail(queue)

CallRead(c) ==
  /\ call[c].pc = "queued" /\ HoldsLock(c)
  /\ \/ Answered(c) /\ Fault
     \/ /\ call[c].cred = 0 /\ secret.data[call[c].provider] = 0
        /\ Answered(c) /\ NoFault
     \/ /\ call[c].cred # 0 \/ secret.data[call[c].provider] # 0
        /\ call' = [call EXCEPT ![c].pc = "write", ![c].set = secret.data]
        /\ NoFault /\ UNCHANGED queue
  /\ UNCHANGED <<cluster, entry, boot, driver, page, history>>

Merged(c) == [call[c].set EXCEPT ![call[c].provider] = call[c].cred]

(* writeUserProviders replaces the Secret by the merged set.                *)
CallWrite(c) ==
  /\ call[c].pc = "write"
  /\ \/ /\ secret' = [data |-> Merged(c), rev |-> secret.rev + 1]
        /\ asked' = [asked EXCEPT ![call[c].provider] = call[c].cred]
        /\ overlap' = (overlap \/ \E b \in Boots : boot[b].pc # "idle")
        /\ CallTo(c, "decide") /\ NoFault /\ UNCHANGED queue
     \/ Answered(c) /\ Fault /\ UNCHANGED <<secret, asked, overlap>>
  /\ UNCHANGED <<keys, server, box, entry, boot, driver, page, accepted>>

(* startReconcile: a driver at work is asked for one more round, and the    *)
(* rounds asked for add up; otherwise a driver starts and is the entry.     *)
(* Mutant: a change that lands on a driver at work is forgotten. *)
FlagNoRound(restart) ==
  /\ driver.pc # "idle"
  /\ UNCHANGED <<driver, entry>>
(* Mutant: the round asked for does not restart the server. *)
FlagWithoutRestart(restart) ==
  /\ driver.pc # "idle"
  /\ driver' = [driver EXCEPT !.requested = TRUE]
  /\ UNCHANGED entry
FlagRound(restart) ==
  /\ driver.pc # "idle"
  /\ driver' = [driver EXCEPT !.requested = TRUE, !.nextRestart = @ \/ restart]
  /\ UNCHANGED entry
StartDriver(restart) ==
  /\ driver.pc = "idle"
  /\ driver' = [IdleDriver EXCEPT !.pc = "read", !.state = "provisioning",
                                  !.restart = restart, !.rev = driver.rev]
  /\ entry' = "driver"
StartReconcile(restart) == FlagRound(restart) \/ StartDriver(restart)

(* With the stack up the change is applied now; on a first run it is only   *)
(* stored, for the attempt that Continue starts.                            *)
CallDecide(c) ==
  /\ call[c].pc = "decide"
  /\ IF Rotating
       THEN /\ StartReconcile(call[c].provider \in KeyProviders)
            /\ accepted' = secret.rev
       ELSE UNCHANGED <<driver, entry, accepted>>
  /\ Answered(c)
  /\ UNCHANGED <<cluster, boot, page, spent, asked, overlap>>

CallStep(c) == CallRead(c) \/ CallWrite(c) \/ CallDecide(c)

-----------------------------------------------------------------------------
(* The driver of startReconcile, one round: read the saved set, stamp the   *)
(* keys, restart the server, delete and create the sandbox.  A failing      *)
(* round is not retried, but a round asked for meanwhile is still made.     *)
RoundEnds(state, erred) ==
  driver' = IF driver.requested
              THEN [driver EXCEPT !.pc = "read", !.state = state, !.erred = erred,
                                  !.restart = driver.nextRestart,
                                  !.requested = FALSE, !.nextRestart = FALSE]
              ELSE [driver EXCEPT !.pc = "idle", !.state = state, !.erred = erred,
                                  !.restart = FALSE]

(* Mutant: the Secret is read outside the try. *)
UnguardedRead ==
  /\ driver.pc = "read"
  /\ \/ /\ driver' = [driver EXCEPT !.pc = "stamp", !.set = secret.data,
                                    !.rev = secret.rev]
        /\ NoFault
     \/ DriverTo("idle") /\ Fault
  /\ UNCHANGED <<cluster, entry, boot, call, queue, page, history>>

DriverRead ==
  /\ driver.pc = "read"
  /\ \/ /\ driver' = [driver EXCEPT !.pc = "stamp", !.set = secret.data,
                                    !.rev = secret.rev]
        /\ NoFault
     \/ DriverTo("failed") /\ Fault
  /\ UNCHANGED <<cluster, entry, boot, call, queue, page, history>>

DriverStamp ==
  /\ driver.pc = "stamp"
  /\ \/ /\ keys' = ServerEnv(driver.set)
        /\ DriverTo(IF driver.restart THEN "restart" ELSE "delete")
        /\ NoFault
     \/ DriverTo("failed") /\ Fault /\ UNCHANGED keys
  /\ UNCHANGED <<secret, server, box, entry, boot, call, queue, page, history>>

DriverRestart ==
  /\ driver.pc = "restart"
  /\ \/ /\ server' = [server EXCEPT !.up = FALSE]
        /\ DriverTo("delete") /\ NoFault
     \/ DriverTo("failed") /\ Fault /\ UNCHANGED server
  /\ UNCHANGED <<secret, keys, box, entry, boot, call, queue, page, history>>

(* A failing delete is ignored; an empty set leaves no sandbox.             *)
DriverDelete ==
  /\ driver.pc = "delete"
  /\ \/ box' = NoBox /\ NoFault
     \/ UNCHANGED box /\ Fault
  /\ IF driver.set = NoCred THEN RoundEnds("ready", FALSE) ELSE DriverTo("create")
  /\ UNCHANGED <<secret, keys, server, entry, boot, call, queue, page, history>>

DriverCreate ==
  /\ driver.pc = "create"
  /\ \/ box' = CreatedBox(driver.set) /\ RoundEnds("ready", FALSE) /\ NoFault
     \/ DriverTo("failed") /\ Fault /\ UNCHANGED box
  /\ UNCHANGED <<secret, keys, server, entry, boot, call, queue, page, history>>

(* A failed round leaves the stack ready when the server still answers.     *)
DriverFailed ==
  /\ driver.pc = "failed"
  /\ RoundEnds(IF server.up THEN "ready" ELSE "error", TRUE)
  /\ UNCHANGED <<cluster, entry, boot, call, queue, page, spent, history>>

DriverStep == \/ DriverRead \/ DriverStamp \/ DriverRestart
              \/ DriverDelete \/ DriverCreate \/ DriverFailed

-----------------------------------------------------------------------------
(* The gateway's process is replaced: its maps and its calls are gone.      *)
GatewayRestart ==
  /\ Trouble("restarts")
  /\ entry' = "none"
  /\ boot' = [b \in Boots |-> Idle]
  /\ driver' = [IdleDriver EXCEPT !.rev = driver.rev]
  /\ call' = [c \in Calls |-> IdleCall]
  /\ queue' = <<>>
  /\ accepted' = 0
  /\ UNCHANGED <<cluster, page, asked, overlap>>

Next == \/ Poll \/ Retry \/ Reload \/ ServerStart \/ ServerCrash
        \/ DriverStep \/ GatewayRestart
        \/ \E b \in Boots : BootStep(b)
        \/ \E c \in Calls : Ask(c) \/ CallStep(c)

Spec == Init /\ [][Next]_vars

(* The gateway's own calls are bounded by timeouts, the page polls on a     *)
(* timer, and Kubernetes restarts a dead pod.  The user owes nothing.       *)
Fairness ==
  /\ WF_vars(Poll) /\ WF_vars(ServerStart) /\ WF_vars(DriverStep)
  /\ \A b \in Boots : WF_vars(BootStep(b))
  /\ \A c \in Calls : WF_vars(CallStep(c))

FairSpec == Spec /\ Fairness
=============================================================================
