--------------------------- MODULE Gateway_proofs ---------------------------
(***************************************************************************)
(* Theorems about the gateway, for any number of calls, of attempts, of     *)
(* providers, changes and troubles.                                        *)
(***************************************************************************)
EXTENDS MCGateway, TLAPS

-----------------------------------------------------------------------------
(* Type correctness.                                                        *)

LEMMA SetsExist == NoCred \in Sets /\ Old \in Creds /\ Left \in Sets
  BY GatewayBounds DEF NoCred, Sets, Creds, Old, Left

LEMMA EnvIsASet == \A set \in Sets : ServerEnv(set) \in Sets
  BY GatewayBounds DEF ServerEnv, Sets, Creds, Old

LEMMA SpendingKeepsBounds ==
  ASSUME spent \in Bounds, NEW kind \in {"faults", "crashes", "restarts"}, Spends(kind)
  PROVE  spent' \in Bounds
  BY DEF Bounds, Spends

LEMMA FaultKeepsBounds ==
  ASSUME spent \in Bounds, Fault \/ NoFault
  PROVE  spent' \in Bounds
  BY SpendingKeepsBounds DEF Fault, NoFault, Trouble

LEMMA InitTyped == Init => TypeOK
  <1> SUFFICES ASSUME Init PROVE TypeOK
    OBVIOUS
  <1>1. secret \in [data : Sets, rev : Nat] /\ keys \in Sets
    BY SetsExist, EnvIsASet DEF Init, Fresh, Running
  <1>2. server \in [installed : BOOLEAN, up : BOOLEAN, env : Sets]
    <2>1. CASE Fresh
      BY <2>1, SetsExist DEF Fresh
    <2>2. CASE Running
      BY <2>2, SetsExist, EnvIsASet DEF Running
    <2> QED
      BY <2>1, <2>2 DEF Init
  <1>3. box \in Sets \union {NoBox}
    BY SetsExist DEF Init, Fresh, Running
  <1>4. boot \in [Boots -> [pc : BootPc, state : States, set : Sets]]
    BY SetsExist DEF Init, Idle, BootPc, States
  <1>5. IdleDriver \in [pc : DriverPc, state : States, set : Sets, rev : Nat, restart : BOOLEAN,
                        requested : BOOLEAN, nextRestart : BOOLEAN, erred : BOOLEAN]
    BY SetsExist DEF IdleDriver, DriverPc, States
  <1>6. IdleCall \in [pc : CallPc, provider : Providers, cred : Creds, set : Sets]
    BY SetsExist, GatewayBounds DEF IdleCall, CallPc, Creds, Old
  <1>7. call \in [Calls -> [pc : CallPc, provider : Providers, cred : Creds, set : Sets]]
    BY <1>6 DEF Init
  <1>8. spent \in Bounds
    BY GatewayBounds DEF Init, Bounds
  <1>9. queue \in Seq(Calls) /\ page \in Pages /\ accepted \in Nat
    BY DEF Init, Pages
  <1>10. overlap \in BOOLEAN /\ entry \in Boots \union {"none", "driver"}
    BY DEF Init
  <1>11. asked \in Sets
    BY <1>1 DEF Init
  <1> QED
    BY <1>1, <1>2, <1>3, <1>4, <1>5, <1>7, <1>8, <1>9, <1>10, <1>11 DEF TypeOK, Init

(* What the steps of an attempt and of a driver write.                      *)
LEMMA BootTyped ==
    ASSUME TypeOK, NEW b \in Boots, NEW pc \in BootPc, NEW state \in States,
           \/ BootTo(b, pc)
           \/ BootEnds(b, state)
    PROVE  boot' \in [Boots -> [pc : BootPc, state : States, set : Sets]]
  BY DEF TypeOK, BootTo, BootEnds, BootPc

LEMMA StartBootTyped ==
    ASSUME TypeOK, NEW b \in Boots, StartBoot(b)
    PROVE  /\ boot' \in [Boots -> [pc : BootPc, state : States, set : Sets]]
           /\ entry' \in Boots \union {"none", "driver"}
           /\ overlap' \in BOOLEAN
  <1>1. [Idle EXCEPT !.pc = "read", !.state = "provisioning"]
          \in [pc : BootPc, state : States, set : Sets]
    BY SetsExist DEF Idle, BootPc, States
  <1>2. (driver.pc # "idle" \/ queue # <<>>) \in BOOLEAN
    OBVIOUS
  <1> QED
    BY <1>1, <1>2 DEF TypeOK, StartBoot

DriverType == [pc : DriverPc, state : States, set : Sets, rev : Nat, restart : BOOLEAN,
               requested : BOOLEAN, nextRestart : BOOLEAN, erred : BOOLEAN]

LEMMA DriverTyped ==
    ASSUME driver \in DriverType, NEW pc \in DriverPc, DriverTo(pc)
    PROVE  driver' \in DriverType
  BY DEF DriverType, DriverTo

LEMMA RoundTyped ==
    ASSUME driver \in DriverType, NEW state \in States, NEW erred \in BOOLEAN,
           RoundEnds(state, erred)
    PROVE  driver' \in DriverType
  BY DEF DriverType, RoundEnds, DriverPc

LEMMA ReconcileTyped ==
    ASSUME driver \in DriverType, NEW restart \in BOOLEAN, StartReconcile(restart)
    PROVE  driver' \in DriverType
  <1>1. CASE FlagRound(restart)
    <2>1. (driver.nextRestart \/ restart) \in BOOLEAN
      BY DEF DriverType
    <2> QED
      BY <1>1, <2>1 DEF DriverType, FlagRound
  <1>2. CASE StartDriver(restart)
    BY <1>2, SetsExist DEF DriverType, StartDriver, IdleDriver, DriverPc, States
  <1> QED
    BY <1>1, <1>2 DEF StartReconcile

(* One step of each kind.                                                   *)
LEMMA PageTyped ==
    ASSUME TypeOK, Poll \/ Retry \/ Reload PROVE TypeOK'
  <1>1. CASE Poll
    <2>1. CASE entry = "none"
      <3>1. PICK b \in Boots : StartBoot(b)
        BY <1>1, <2>1 DEF Poll
      <3> QED
        BY <1>1, <2>1, <3>1, StartBootTyped DEF Poll, TypeOK, cluster
    <2>2. CASE entry # "none"
      <3>1. PageFor(EntryState) \in Pages
        BY DEF PageFor, Pages
      <3> QED
        BY <1>1, <2>2, <3>1 DEF Poll, TypeOK, cluster
    <2> QED
      BY <2>1, <2>2
  <1>2. CASE Retry
    <2>1. CASE EntryState = "provisioning"
      BY <1>2, <2>1 DEF Retry, TypeOK, cluster, Pages
    <2>2. CASE EntryState # "provisioning"
      <3>1. PICK b \in Boots : StartBoot(b)
        BY <1>2, <2>2 DEF Retry
      <3> QED
        BY <1>2, <2>2, <3>1, StartBootTyped DEF Retry, TypeOK, cluster, Pages
    <2> QED
      BY <2>1, <2>2
  <1>3. CASE Reload
    BY <1>3 DEF Reload, TypeOK, cluster, history, Pages
  <1> QED
    BY <1>1, <1>2, <1>3

LEMMA BootStepTyped ==
    ASSUME TypeOK, NEW b \in Boots, BootStep(b) PROVE TypeOK'
  <1> USE DEF cluster, history
  <1>1. CASE BootRead(b)
    <2>1. boot' \in [Boots -> [pc : BootPc, state : States, set : Sets]]
      <3>1. CASE BootEnds(b, "error")
        BY <3>1, BootTyped DEF States, BootPc
      <3>2. CASE boot' = [boot EXCEPT ![b].pc = "check", ![b].set = secret.data]
        BY <3>2 DEF TypeOK, BootPc
      <3> QED
        BY <1>1, <3>1, <3>2 DEF BootRead
    <2> QED
      BY <1>1, <2>1, FaultKeepsBounds DEF TypeOK, BootRead
  <1>2. CASE BootCheck(b)
    <2>1. boot' \in [Boots -> [pc : BootPc, state : States, set : Sets]]
      BY <1>2, BootTyped DEF BootCheck, States, BootPc
    <2> QED
      BY <1>2, <2>1 DEF TypeOK, BootCheck
  <1>3. CASE BootStamp(b)
    <2>1. boot' \in [Boots -> [pc : BootPc, state : States, set : Sets]]
      BY <1>3, BootTyped DEF BootStamp, States, BootPc
    <2>2. keys' \in Sets
      BY <1>3, EnvIsASet DEF TypeOK, BootStamp
    <2> QED
      BY <1>3, <2>1, <2>2, FaultKeepsBounds DEF TypeOK, BootStamp
  <1>4. CASE BootHelm(b)
    <2>1. boot' \in [Boots -> [pc : BootPc, state : States, set : Sets]]
      BY <1>4, BootTyped DEF BootHelm, States, BootPc
    <2>2. server' \in [installed : BOOLEAN, up : BOOLEAN, env : Sets]
      BY <1>4 DEF TypeOK, BootHelm
    <2> QED
      BY <1>4, <2>1, <2>2, FaultKeepsBounds DEF TypeOK, BootHelm
  <1>5. CASE BootBox(b)
    <2>1. boot' \in [Boots -> [pc : BootPc, state : States, set : Sets]]
      BY <1>5, BootTyped DEF BootBox, States, BootPc
    <2>2. box' \in Sets \union {NoBox}
      BY <1>5 DEF TypeOK, BootBox, CreatedBox
    <2> QED
      BY <1>5, <2>1, <2>2, FaultKeepsBounds DEF TypeOK, BootBox
  <1>6. CASE BootAwait(b)
    <2>1. boot' \in [Boots -> [pc : BootPc, state : States, set : Sets]]
      BY <1>6, BootTyped DEF BootAwait, States, BootPc
    <2> QED
      BY <1>6, <2>1, FaultKeepsBounds DEF TypeOK, BootAwait
  <1> QED
    BY <1>1, <1>2, <1>3, <1>4, <1>5, <1>6 DEF BootStep

LEMMA DriverStepTyped ==
    ASSUME TypeOK, DriverStep PROVE TypeOK'
  <1> USE DEF cluster, history
  <1>0. driver \in DriverType
    BY DEF TypeOK, DriverType
  <1>1. CASE DriverRead
    <2>1. driver' \in DriverType
      <3>1. CASE DriverTo("failed")
        BY <1>0, <3>1, DriverTyped DEF DriverPc
      <3>2. CASE driver' = [driver EXCEPT !.pc = "stamp", !.set = secret.data,
                                          !.rev = secret.rev]
        BY <1>0, <3>2 DEF TypeOK, DriverType, DriverPc
      <3> QED
        BY <1>1, <3>1, <3>2 DEF DriverRead
    <2> QED
      BY <1>1, <2>1, FaultKeepsBounds DEF TypeOK, DriverType, DriverRead
  <1>2. CASE DriverStamp
    <2>1. driver' \in DriverType
      BY <1>0, <1>2, DriverTyped DEF DriverStamp, DriverPc
    <2>2. keys' \in Sets
      BY <1>2, EnvIsASet DEF TypeOK, DriverStamp
    <2> QED
      BY <1>2, <2>1, <2>2, FaultKeepsBounds DEF TypeOK, DriverType, DriverStamp
  <1>3. CASE DriverRestart
    <2>1. driver' \in DriverType
      BY <1>0, <1>3, DriverTyped DEF DriverRestart, DriverPc
    <2>2. server' \in [installed : BOOLEAN, up : BOOLEAN, env : Sets]
      BY <1>3 DEF TypeOK, DriverRestart
    <2> QED
      BY <1>3, <2>1, <2>2, FaultKeepsBounds DEF TypeOK, DriverType, DriverRestart
  <1>4. CASE DriverDelete
    <2>1. driver' \in DriverType
      BY <1>0, <1>4, DriverTyped, RoundTyped DEF DriverDelete, DriverPc, States
    <2>2. box' \in Sets \union {NoBox}
      BY <1>4 DEF TypeOK, DriverDelete
    <2> QED
      BY <1>4, <2>1, <2>2, FaultKeepsBounds DEF TypeOK, DriverType, DriverDelete
  <1>5. CASE DriverCreate
    <2>1. driver' \in DriverType
      BY <1>0, <1>5, DriverTyped, RoundTyped DEF DriverCreate, DriverPc, States
    <2>2. box' \in Sets \union {NoBox}
      BY <1>5 DEF TypeOK, DriverCreate, CreatedBox
    <2> QED
      BY <1>5, <2>1, <2>2, FaultKeepsBounds DEF TypeOK, DriverType, DriverCreate
  <1>6. CASE DriverFailed
    <2>1. driver' \in DriverType
      BY <1>0, <1>6, RoundTyped DEF DriverFailed, States
    <2> QED
      BY <1>6, <2>1 DEF TypeOK, DriverType, DriverFailed
  <1> QED
    BY <1>1, <1>2, <1>3, <1>4, <1>5, <1>6 DEF DriverStep

CallType == [pc : CallPc, provider : Providers, cred : Creds, set : Sets]

LEMMA CallTyped ==
    ASSUME call \in [Calls -> CallType], NEW c \in Calls, NEW pc \in CallPc, CallTo(c, pc)
    PROVE  call' \in [Calls -> CallType]
  BY DEF CallType, CallTo

(* The holder of the lock is in the queue, so the queue can be popped.      *)
LEMMA AnswerTyped ==
    ASSUME TypeOK, NEW c \in Calls, queue # <<>>, Answered(c)
    PROVE  call' \in [Calls -> CallType] /\ queue' \in Seq(Calls)
  BY CallTyped DEF TypeOK, CallType, Answered, CallPc

LEMMA AsksTyped ==
    ASSUME TypeOK, NEW c \in Calls, NEW p \in Providers, NEW cred \in {0, FreshCred},
           Asks(c, p, cred)
    PROVE  TypeOK'
  <1>1. /\ spent.changes \in 0 .. MaxChanges /\ spent.changes + 1 \in 0 .. MaxChanges
        /\ spent' \in Bounds
    <2>1. spent \in Bounds /\ spent.changes < MaxChanges /\ MaxChanges \in Nat
      BY GatewayBounds DEF TypeOK, Asks
    <2>2. spent.changes \in 0 .. MaxChanges /\ spent.changes + 1 \in 0 .. MaxChanges
      BY <2>1 DEF Bounds
    <2>3. spent' = [spent EXCEPT !.changes = spent.changes + 1]
      BY DEF Asks, Spends
    <2> QED
      BY <2>1, <2>2, <2>3 DEF Bounds
  <1>2. cred \in Creds
    BY <1>1, GatewayBounds DEF FreshCred, Creds, Old
  <1>3. call' \in [Calls -> [pc : CallPc, provider : Providers, cred : Creds, set : Sets]]
    BY <1>2, SetsExist DEF TypeOK, Asks, CallPc
  <1> QED
    BY <1>1, <1>3 DEF TypeOK, Asks, cluster, history

LEMMA AskTyped ==
    ASSUME TypeOK, NEW c \in Calls, Ask(c) PROVE TypeOK'
  <1>1. PICK p \in Providers, cred \in {0, FreshCred} : Asks(c, p, cred)
    BY DEF Ask, AddProvider, SaveProvider, RemoveProvider
  <1> QED
    BY <1>1, AsksTyped

LEMMA ClusterTyped ==
    ASSUME TypeOK, ServerStart \/ ServerCrash PROVE TypeOK'
  <1> USE DEF history
  <1>1. CASE ServerStart
    BY <1>1 DEF TypeOK, ServerStart
  <1>2. CASE ServerCrash
    <2>1. spent' \in Bounds
      BY <1>2, SpendingKeepsBounds DEF TypeOK, ServerCrash, Trouble
    <2> QED
      BY <1>2, <2>1 DEF TypeOK, ServerCrash
  <1> QED
    BY <1>1, <1>2

LEMMA RestartTyped ==
    ASSUME TypeOK, GatewayRestart PROVE TypeOK'
  <1>1. spent' \in Bounds
    BY SpendingKeepsBounds DEF TypeOK, GatewayRestart, Trouble
  <1>2. boot' \in [Boots -> [pc : BootPc, state : States, set : Sets]]
    BY SetsExist DEF GatewayRestart, Idle, BootPc, States
  <1>3. IdleDriver \in DriverType
    BY SetsExist DEF IdleDriver, DriverType, DriverPc, States
  <1>4. driver' \in DriverType
    BY <1>3 DEF GatewayRestart, TypeOK, DriverType
  <1>5. IdleCall \in CallType
    BY SetsExist, GatewayBounds DEF IdleCall, CallType, CallPc, Creds, Old
  <1>6. call' \in [Calls -> CallType]
    BY <1>5 DEF GatewayRestart
  <1> QED
    BY <1>1, <1>2, <1>4, <1>6 DEF TypeOK, DriverType, CallType, GatewayRestart, cluster

-----------------------------------------------------------------------------
(* The lock.  Every call under way is in the queue, once; only the first is *)
(* past its reading of the credentials; and what it has read is current.    *)

Waits(c) == \E i \in 1 .. Len(queue) : queue[i] = c

QueueIsBusy  == \A c \in Calls : Waits(c) <=> call[c].pc # "idle"
NoneTwice    == \A i, k \in 1 .. Len(queue) : queue[i] = queue[k] => i = k
FirstAtWork  == \A c \in Calls : call[c].pc \in {"write", "decide"} => HoldsLock(c)
ReadIsCurrent == \A c \in Calls : call[c].pc = "write" => call[c].set = secret.data

LockInv == TypeOK /\ QueueIsBusy /\ NoneTwice /\ FirstAtWork /\ ReadIsCurrent /\ SavesAreKept

LEMMA AskKeepsLock ==
    ASSUME LockInv, NEW c \in Calls, Ask(c) PROVE LockInv'
  <1>1. PICK p \in Providers, cred \in {0, FreshCred} : Asks(c, p, cred)
    BY DEF Ask, AddProvider, SaveProvider, RemoveProvider
  <1>2. TypeOK /\ TypeOK'
    BY AskTyped DEF LockInv
  <1>3. /\ queue' = Append(queue, c) /\ ~Waits(c)
        /\ Len(queue') = Len(queue) + 1 /\ queue'[Len(queue) + 1] = c
        /\ \A i \in 1 .. Len(queue) : queue'[i] = queue[i]
    BY <1>1, <1>2 DEF TypeOK, Asks, LockInv, QueueIsBusy
  <1>4. /\ call'[c].pc = "queued"
        /\ \A d \in Calls \ {c} : call'[d] = call[d]
    BY <1>1, <1>2 DEF TypeOK, Asks
  <1>5. \A d \in Calls : Waits(d)' <=> Waits(d) \/ d = c
    BY <1>2, <1>3 DEF Waits, TypeOK
  <1>6. QueueIsBusy'
    BY <1>4, <1>5 DEF LockInv, QueueIsBusy
  <1>7. NoneTwice'
    BY <1>2, <1>3 DEF LockInv, NoneTwice, Waits, TypeOK
  <1>8. FirstAtWork'
    <2>1. \A d \in Calls : HoldsLock(d) => HoldsLock(d)'
      BY <1>2, <1>3 DEF HoldsLock, TypeOK
    <2> QED
      BY <1>4, <2>1 DEF LockInv, FirstAtWork
  <1>9. ReadIsCurrent' /\ SavesAreKept'
    BY <1>1, <1>4 DEF LockInv, ReadIsCurrent, SavesAreKept, Asks, cluster, history
  <1> QED
    BY <1>2, <1>6, <1>7, <1>8, <1>9 DEF LockInv

(* The holder moves on, and stays the first.                                *)
LEMMA HolderMoves ==
    ASSUME TypeOK, QueueIsBusy, NoneTwice, FirstAtWork, NEW c \in Calls, HoldsLock(c),
           call[c].pc # "idle",
           UNCHANGED queue, call'[c].pc # "idle",
           \A d \in Calls \ {c} : call'[d] = call[d]
    PROVE  QueueIsBusy' /\ NoneTwice' /\ FirstAtWork'
  <1>1. \A d \in Calls : Waits(d)' <=> Waits(d)
    BY DEF Waits
  <1> QED
    BY <1>1 DEF QueueIsBusy, NoneTwice, FirstAtWork, HoldsLock

(* The holder is answered, and the rest of the queue moves up.              *)
LEMMA HolderLeaves ==
    ASSUME TypeOK, QueueIsBusy, NoneTwice, FirstAtWork, NEW c \in Calls, HoldsLock(c),
           Answered(c)
    PROVE  /\ QueueIsBusy' /\ NoneTwice' /\ FirstAtWork'
           /\ call'[c].pc = "idle"
           /\ \A d \in Calls \ {c} : call'[d] = call[d] /\ call[d].pc \notin {"write", "decide"}
           /\ call' \in [Calls -> CallType] /\ queue' \in Seq(Calls)
  <1>1. call' \in [Calls -> CallType] /\ queue' \in Seq(Calls)
    BY AnswerTyped DEF HoldsLock
  <1>2. /\ call'[c].pc = "idle" /\ \A d \in Calls \ {c} : call'[d] = call[d]
    BY DEF TypeOK, Answered, CallTo
  <1>3. \A d \in Calls \ {c} : call[d].pc \notin {"write", "decide"}
    BY DEF FirstAtWork, HoldsLock
  <1>4. /\ queue # <<>> /\ queue \in Seq(Calls) /\ queue[1] = c
        /\ Len(queue') = Len(queue) - 1
        /\ \A i \in 1 .. Len(queue') : queue'[i] = queue[i + 1]
    BY DEF TypeOK, HoldsLock, Answered
  <1>5. \A d \in Calls : Waits(d)' <=> Waits(d) /\ d # c
    <2> SUFFICES ASSUME NEW d \in Calls PROVE Waits(d)' <=> Waits(d) /\ d # c
      OBVIOUS
    <2>1. ASSUME Waits(d)' PROVE Waits(d) /\ d # c
      <3>1. PICK i \in 1 .. Len(queue') : queue'[i] = d
        BY <2>1 DEF Waits
      <3>2. i + 1 \in 1 .. Len(queue) /\ 1 \in 1 .. Len(queue) /\ queue[i + 1] = d /\ i + 1 # 1
        BY <1>4, <3>1
      <3> QED
        BY <1>4, <3>2 DEF Waits, NoneTwice
    <2>2. ASSUME Waits(d), d # c PROVE Waits(d)'
      <3>1. PICK i \in 1 .. Len(queue) : queue[i] = d
        BY <2>2 DEF Waits
      <3>2. i # 1 /\ i - 1 \in 1 .. Len(queue') /\ queue'[i - 1] = queue[(i - 1) + 1]
        BY <1>4, <2>2, <3>1
      <3> QED
        BY <3>1, <3>2 DEF Waits
    <2> QED
      BY <2>1, <2>2
  <1>6. QueueIsBusy'
    BY <1>2, <1>5 DEF QueueIsBusy
  <1>7. NoneTwice'
    BY <1>4 DEF NoneTwice
  <1>8. FirstAtWork'
    BY <1>2, <1>3 DEF FirstAtWork
  <1> QED
    BY <1>1, <1>2, <1>3, <1>6, <1>7, <1>8

LEMMA CallKeepsLock ==
    ASSUME LockInv, NEW c \in Calls, CallStep(c) PROVE LockInv'
  <1> USE DEF LockInv
  <1>1. CASE CallRead(c)
    <2>1. HoldsLock(c) /\ call[c].pc = "queued"
      BY <1>1 DEF CallRead
    <2>2. /\ UNCHANGED <<cluster, entry, boot, driver, page, history>>
          /\ spent' \in Bounds
      BY <1>1, FaultKeepsBounds DEF CallRead, TypeOK
    <2>3. CASE Answered(c)
      BY <2>1, <2>2, <2>3, HolderLeaves
      DEF TypeOK, CallType, ReadIsCurrent, SavesAreKept, cluster, history
    <2>4. CASE call' = [call EXCEPT ![c].pc = "write", ![c].set = secret.data] /\ UNCHANGED queue
      <3>1. /\ call'[c].pc = "write" /\ call'[c].set = secret.data
            /\ \A d \in Calls \ {c} : call'[d] = call[d]
            /\ call' \in [Calls -> CallType]
        BY <2>4 DEF TypeOK, CallType, CallPc
      <3>2. QueueIsBusy' /\ NoneTwice' /\ FirstAtWork'
        BY <2>1, <2>4, <3>1, HolderMoves
      <3> QED
        BY <2>2, <2>4, <3>1, <3>2
        DEF TypeOK, CallType, ReadIsCurrent, SavesAreKept, cluster, history
    <2> QED
      BY <1>1, <2>3, <2>4 DEF CallRead
  <1>2. CASE CallWrite(c)
    <2>1. HoldsLock(c) /\ call[c].pc = "write" /\ call[c].set = secret.data
      BY <1>2 DEF CallWrite, FirstAtWork, ReadIsCurrent
    <2>2. /\ UNCHANGED <<keys, server, box, entry, boot, driver, page, accepted>>
          /\ spent' \in Bounds /\ overlap' \in BOOLEAN
      BY <1>2, FaultKeepsBounds DEF CallWrite, TypeOK
    <2>3. CASE Answered(c) /\ UNCHANGED <<secret, asked>>
      BY <2>1, <2>2, <2>3, HolderLeaves DEF TypeOK, CallType, ReadIsCurrent, SavesAreKept
    <2>4. CASE /\ secret' = [data |-> Merged(c), rev |-> secret.rev + 1]
               /\ asked' = [asked EXCEPT ![call[c].provider] = call[c].cred]
               /\ CallTo(c, "decide") /\ UNCHANGED queue
      <3>1. /\ call'[c].pc = "decide"
            /\ \A d \in Calls \ {c} : call'[d] = call[d] /\ call[d].pc # "write"
            /\ call' \in [Calls -> CallType]
        BY <2>1, <2>4, CallTyped DEF TypeOK, CallType, CallTo, CallPc, FirstAtWork, HoldsLock
      <3>2. QueueIsBusy' /\ NoneTwice' /\ FirstAtWork'
        BY <2>1, <2>4, <3>1, HolderMoves
      <3>3. asked' = Merged(c)
        BY <2>1, <2>4 DEF Merged, SavesAreKept
      <3>4. Merged(c) \in Sets
        BY <2>1 DEF Merged, TypeOK, Sets
      <3>5. secret' \in [data : Sets, rev : Nat] /\ secret'.data = Merged(c)
        <4>1. secret.rev + 1 \in Nat
          BY DEF TypeOK
        <4> QED
          BY <2>4, <3>4, <4>1
      <3>6. SavesAreKept' /\ asked' \in Sets
        BY <3>3, <3>4, <3>5 DEF SavesAreKept
      <3>7. ReadIsCurrent'
        BY <3>1 DEF ReadIsCurrent
      <3> QED
        BY <2>2, <2>4, <3>1, <3>2, <3>5, <3>6, <3>7 DEF TypeOK, CallType
    <2> QED
      BY <1>2, <2>3, <2>4 DEF CallWrite
  <1>3. CASE CallDecide(c)
    <2>1. HoldsLock(c) /\ Answered(c)
      BY <1>3 DEF CallDecide, FirstAtWork
    <2>2. driver' \in DriverType /\ entry' \in Boots \union {"none", "driver"} /\ accepted' \in Nat
      <3>1. CASE Rotating
        <4>1. StartReconcile(call[c].provider \in KeyProviders) /\ accepted' = secret.rev
          BY <1>3, <3>1 DEF CallDecide
        <4>2. (call[c].provider \in KeyProviders) \in BOOLEAN
          OBVIOUS
        <4>3. driver' \in DriverType
          BY <4>1, <4>2, ReconcileTyped DEF TypeOK, DriverType
        <4> QED
          BY <4>1, <4>3 DEF TypeOK, StartReconcile, FlagRound, StartDriver
      <3>2. CASE ~Rotating
        BY <1>3, <3>2 DEF CallDecide, TypeOK, DriverType
      <3> QED
        BY <3>1, <3>2
    <2>3. UNCHANGED <<secret, keys, server, box, boot, page, spent, asked, overlap>>
      BY <1>3 DEF CallDecide, cluster
    <2>4. /\ QueueIsBusy' /\ NoneTwice' /\ FirstAtWork' /\ call'[c].pc = "idle"
          /\ \A d \in Calls \ {c} : call'[d] = call[d] /\ call[d].pc \notin {"write", "decide"}
          /\ call' \in [Calls -> CallType] /\ queue' \in Seq(Calls)
      BY <2>1, HolderLeaves
    <2>5. TypeOK'
      BY <2>2, <2>3, <2>4 DEF TypeOK, CallType, DriverType
    <2>6. ReadIsCurrent' /\ SavesAreKept'
      BY <2>3, <2>4 DEF ReadIsCurrent, SavesAreKept
    <2> QED
      BY <2>4, <2>5, <2>6
  <1> QED
    BY <1>1, <1>2, <1>3 DEF CallStep

LEMMA RestartKeepsLock ==
    ASSUME LockInv, GatewayRestart PROVE LockInv'
  <1>1. TypeOK'
    BY RestartTyped DEF LockInv
  <1>2. queue' = <<>> /\ \A c \in Calls : call'[c].pc = "idle"
    BY DEF GatewayRestart, IdleCall
  <1>3. QueueIsBusy' /\ NoneTwice' /\ FirstAtWork' /\ ReadIsCurrent'
    BY <1>2 DEF QueueIsBusy, NoneTwice, FirstAtWork, ReadIsCurrent, Waits
  <1>4. SavesAreKept'
    BY DEF LockInv, SavesAreKept, GatewayRestart, cluster
  <1> QED
    BY <1>1, <1>3, <1>4 DEF LockInv

(* Nothing else touches the calls, the queue or the credentials.            *)
LEMMA OthersKeepLock ==
    ASSUME LockInv, TypeOK', UNCHANGED <<call, queue, secret, asked>> PROVE LockInv'
  BY DEF LockInv, QueueIsBusy, NoneTwice, FirstAtWork, ReadIsCurrent, SavesAreKept, Waits,
         HoldsLock

LEMMA StepKeepsLock == LockInv /\ [Next]_vars => LockInv'
  <1> SUFFICES ASSUME LockInv, [Next]_vars PROVE LockInv'
    OBVIOUS
  <1> USE DEF cluster, history
  <1>0. TypeOK
    BY DEF LockInv
  <1>1. CASE Poll \/ Retry \/ Reload
    <2>1. UNCHANGED <<call, queue, secret, asked>>
      BY <1>1 DEF Poll, Retry, Reload
    <2> QED
      BY <1>0, <1>1, <2>1, PageTyped, OthersKeepLock
  <1>2. CASE ServerStart \/ ServerCrash
    <2>1. UNCHANGED <<call, queue, secret, asked>>
      BY <1>2 DEF ServerStart, ServerCrash
    <2> QED
      BY <1>0, <1>2, <2>1, ClusterTyped, OthersKeepLock
  <1>3. CASE DriverStep
    <2>1. UNCHANGED <<call, queue, secret, asked>>
      BY <1>3 DEF DriverStep, DriverRead, DriverStamp, DriverRestart, DriverDelete,
                  DriverCreate, DriverFailed
    <2> QED
      BY <1>0, <1>3, <2>1, DriverStepTyped, OthersKeepLock
  <1>4. CASE GatewayRestart
    BY <1>4, RestartKeepsLock
  <1>5. ASSUME NEW b \in Boots, BootStep(b) PROVE LockInv'
    <2>1. UNCHANGED <<call, queue, secret, asked>>
      BY <1>5 DEF BootStep, BootRead, BootCheck, BootStamp, BootHelm, BootBox, BootAwait
    <2> QED
      BY <1>0, <1>5, <2>1, BootStepTyped, OthersKeepLock
  <1>6. ASSUME NEW c \in Calls, Ask(c) PROVE LockInv'
    BY <1>6, AskKeepsLock
  <1>7. ASSUME NEW c \in Calls, CallStep(c) PROVE LockInv'
    BY <1>7, CallKeepsLock
  <1>8. CASE UNCHANGED vars
    BY <1>0, <1>8, OthersKeepLock DEF vars, TypeOK
  <1> QED
    BY <1>1, <1>2, <1>3, <1>4, <1>5, <1>6, <1>7, <1>8 DEF Next

LEMMA InitLocked == Init => LockInv
  <1> SUFFICES ASSUME Init PROVE LockInv
    OBVIOUS
  <1>1. queue = <<>> /\ (\A c \in Calls : call[c].pc = "idle") /\ asked = secret.data
    BY DEF Init, IdleCall
  <1> QED
    BY <1>1, InitTyped
    DEF LockInv, QueueIsBusy, NoneTwice, FirstAtWork, ReadIsCurrent, SavesAreKept, Waits

LEMMA LockInvariant == Spec => []LockInv
  BY InitLocked, StepKeepsLock, PTL DEF Spec

(* Every variable of the gateway keeps its type, for any bounds: a call that *)
(* is answered was the first in the queue (withProviderLock).               *)
THEOREM TypeCorrect == Spec => []TypeOK
  <1>1. LockInv => TypeOK
    BY DEF LockInv
  <1> QED
    BY <1>1, LockInvariant, PTL

(* No answered save or removal is lost, however many are asked for at once  *)
(* and whatever fails or restarts (setUserProvider, removeUserProvider).    *)
THEOREM NoSaveIsLost == Spec => []SavesAreKept
  <1>1. LockInv => SavesAreKept
    BY DEF LockInv
  <1> QED
    BY <1>1, LockInvariant, PTL

-----------------------------------------------------------------------------
(* The refinement.  A round that has read the credentials either includes   *)
(* every change handed to the driver, or another round has been asked for.  *)

AcceptedIsSaved == accepted <= secret.rev

RoundCovers ==
  driver.pc \in {"stamp", "restart", "delete", "create"} =>
    driver.requested \/ driver.rev >= accepted

SyncInv == LockInv /\ AcceptedIsSaved /\ RoundCovers

(* A round that ends is followed by another, or the driver comes to rest    *)
(* having read everything, or with an error.                                *)
LEMMA RoundEndsWell ==
    ASSUME SyncInv, NEW state \in States, NEW erred \in BOOLEAN,
           RoundEnds(state, erred),
           driver.pc \in {"delete", "create"} \/ (driver.pc = "failed" /\ erred),
           UNCHANGED <<secret, accepted>>
    PROVE  /\ [Sync!Next]_(Sync!vars)
           /\ AcceptedIsSaved' /\ RoundCovers'
  <1>1. driver \in DriverType
    BY DEF SyncInv, LockInv, TypeOK, DriverType
  <1>2. CASE driver.requested
    <2>1. driver'.pc = "read" /\ driver'.rev = driver.rev
      BY <1>1, <1>2 DEF RoundEnds, DriverType
    <2> QED
      BY <2>1 DEF Sync!vars, AcceptedIsSaved, RoundCovers, SyncInv
  <1>3. CASE ~driver.requested
    <2>1. driver'.pc = "idle" /\ driver'.rev = driver.rev /\ driver'.erred = erred
      BY <1>1, <1>3 DEF RoundEnds, DriverType
    <2>2. erred \/ driver.rev >= accepted
      BY <1>3 DEF SyncInv, RoundCovers
    <2>3. Sync!Rest
      BY <2>1, <2>2 DEF Sync!Rest
    <2> QED
      BY <2>1, <2>3 DEF Sync!Next, AcceptedIsSaved, RoundCovers, SyncInv
  <1> QED
    BY <1>2, <1>3

(* A driver at work that goes on changes nothing seen from outside.         *)
LEMMA DriverGoesOn ==
    ASSUME SyncInv, NEW pc \in DriverPc \ {"idle"}, DriverTo(pc), driver.pc # "idle",
           driver.pc # "read" \/ pc = "failed",
           driver.pc # "failed", UNCHANGED <<secret, accepted>>
    PROVE  UNCHANGED Sync!vars /\ AcceptedIsSaved' /\ RoundCovers'
  <1>1. driver \in DriverType
    BY DEF SyncInv, LockInv, TypeOK, DriverType
  <1>2. driver' = [driver EXCEPT !.pc = pc] /\ driver'.pc = pc /\ driver'.rev = driver.rev
        /\ driver'.requested = driver.requested
    BY <1>1 DEF DriverTo, DriverType
  <1>3. driver.pc # "idle" /\ driver'.pc # "idle"
    BY <1>2
  <1>4. UNCHANGED Sync!vars
    BY <1>2, <1>3 DEF Sync!vars
  <1>5. AcceptedIsSaved'
    BY DEF AcceptedIsSaved, SyncInv
  <1>6. RoundCovers'
    BY <1>1, <1>2 DEF RoundCovers, SyncInv, DriverType, DriverPc
  <1> QED
    BY <1>4, <1>5, <1>6

LEMMA DriverKeepsSync ==
    ASSUME SyncInv, DriverStep
    PROVE  [Sync!Next]_(Sync!vars) /\ AcceptedIsSaved' /\ RoundCovers'
  <1> USE DEF history
  <1>1. driver \in DriverType
    BY DEF SyncInv, LockInv, TypeOK, DriverType
  <1>2. CASE DriverRead
    <2>1. CASE DriverTo("failed")
      BY <1>2, <2>1, DriverGoesOn DEF DriverRead, DriverPc, cluster
    <2>2. CASE driver' = [driver EXCEPT !.pc = "stamp", !.set = secret.data, !.rev = secret.rev]
      <3>1. driver'.pc = "stamp" /\ driver'.rev = secret.rev
        BY <1>1, <2>2 DEF DriverType
      <3>2. UNCHANGED <<secret, accepted>> /\ driver.pc # "idle"
        BY <1>2 DEF DriverRead, cluster
      <3>3. Sync!Look
        BY <3>1, <3>2 DEF Sync!Look
      <3> QED
        BY <3>1, <3>2, <3>3 DEF Sync!Next, AcceptedIsSaved, RoundCovers, SyncInv, LockInv, TypeOK
    <2> QED
      BY <1>2, <2>1, <2>2 DEF DriverRead
  <1>3. CASE DriverStamp
    BY <1>3, DriverGoesOn DEF DriverStamp, DriverPc
  <1>4. CASE DriverRestart
    BY <1>4, DriverGoesOn DEF DriverRestart, DriverPc
  <1>5. CASE DriverDelete
    BY <1>5, DriverGoesOn, RoundEndsWell DEF DriverDelete, DriverPc, States
  <1>6. CASE DriverCreate
    BY <1>6, DriverGoesOn, RoundEndsWell DEF DriverCreate, DriverPc, States
  <1>7. CASE DriverFailed
    BY <1>7, RoundEndsWell DEF DriverFailed, States, cluster
  <1> QED
    BY <1>2, <1>3, <1>4, <1>5, <1>6, <1>7 DEF DriverStep

LEMMA CallKeepsSync ==
    ASSUME SyncInv, NEW c \in Calls, CallStep(c)
    PROVE  [Sync!Next]_(Sync!vars) /\ AcceptedIsSaved' /\ RoundCovers'
  <1>0. driver \in DriverType /\ secret.rev \in Nat /\ accepted \in Nat
    BY DEF SyncInv, LockInv, TypeOK, DriverType
  <1>1. CASE CallRead(c)
    BY <1>1 DEF CallRead, Sync!vars, SyncInv, AcceptedIsSaved, RoundCovers, cluster, history
  <1>2. CASE CallWrite(c)
    <2>1. CASE UNCHANGED secret
      BY <1>2, <2>1 DEF CallWrite, Sync!vars, SyncInv, AcceptedIsSaved, RoundCovers
    <2>2. CASE secret' = [data |-> Merged(c), rev |-> secret.rev + 1]
      <3>1. secret'.rev = secret.rev + 1 /\ UNCHANGED <<driver, accepted>>
        BY <1>2, <2>2 DEF CallWrite
      <3>2. Sync!Save
        BY <3>1 DEF Sync!Save
      <3> QED
        BY <1>0, <3>1, <3>2 DEF Sync!Next, SyncInv, AcceptedIsSaved, RoundCovers
    <2> QED
      BY <1>2, <2>1, <2>2 DEF CallWrite
  <1>3. CASE CallDecide(c)
    <2>1. UNCHANGED secret
      BY <1>3 DEF CallDecide, cluster
    <2>2. CASE ~Rotating
      BY <1>3, <2>1, <2>2 DEF CallDecide, Sync!vars, SyncInv, AcceptedIsSaved, RoundCovers
    <2>3. CASE Rotating
      <3>1. accepted' = secret.rev /\ StartReconcile(call[c].provider \in KeyProviders)
        BY <1>3, <2>3 DEF CallDecide
      <3>2. /\ driver'.pc # "idle" /\ driver'.rev = driver.rev
            /\ driver'.requested \/ driver'.pc = "read"
        <4>1. CASE FlagRound(call[c].provider \in KeyProviders)
          BY <1>0, <4>1 DEF FlagRound, DriverType
        <4>2. CASE StartDriver(call[c].provider \in KeyProviders)
          BY <4>2 DEF StartDriver, IdleDriver
        <4> QED
          BY <3>1, <4>1, <4>2 DEF StartReconcile
      <3>3. Sync!Accept
        BY <2>1, <3>1, <3>2 DEF Sync!Accept
      <3>4. AcceptedIsSaved' /\ RoundCovers'
        BY <1>0, <2>1, <3>1, <3>2 DEF AcceptedIsSaved, RoundCovers
      <3> QED
        BY <3>3, <3>4 DEF Sync!Next
    <2> QED
      BY <2>2, <2>3
  <1> QED
    BY <1>1, <1>2, <1>3 DEF CallStep

LEMMA RestartKeepsSync ==
    ASSUME SyncInv, GatewayRestart
    PROVE  [Sync!Next]_(Sync!vars) /\ AcceptedIsSaved' /\ RoundCovers'
  <1>1. /\ driver'.pc = "idle" /\ driver'.rev = driver.rev /\ driver'.erred = FALSE
        /\ accepted' = 0 /\ UNCHANGED secret
    BY DEF GatewayRestart, IdleDriver, cluster
  <1>2. Sync!Forget
    BY <1>1 DEF Sync!Forget
  <1>3. AcceptedIsSaved' /\ RoundCovers'
    BY <1>1 DEF AcceptedIsSaved, RoundCovers, SyncInv, LockInv, TypeOK
  <1> QED
    BY <1>2, <1>3 DEF Sync!Next

LEMMA StepKeepsSync ==
    ASSUME SyncInv, [Next]_vars
    PROVE  [Sync!Next]_(Sync!vars) /\ SyncInv'
  <1> SUFFICES [Sync!Next]_(Sync!vars) /\ AcceptedIsSaved' /\ RoundCovers'
    BY StepKeepsLock DEF SyncInv
  <1>1. ASSUME UNCHANGED <<secret, driver, accepted>>
        PROVE  UNCHANGED Sync!vars /\ AcceptedIsSaved' /\ RoundCovers'
    BY <1>1 DEF Sync!vars, SyncInv, AcceptedIsSaved, RoundCovers
  <1>2. CASE Poll \/ Retry \/ Reload \/ ServerStart \/ ServerCrash
    BY <1>1, <1>2 DEF Poll, Retry, Reload, ServerStart, ServerCrash, cluster, history
  <1>3. CASE DriverStep
    BY <1>3, DriverKeepsSync
  <1>4. CASE GatewayRestart
    BY <1>4, RestartKeepsSync
  <1>5. ASSUME NEW b \in Boots, BootStep(b) PROVE UNCHANGED <<secret, driver, accepted>>
    BY <1>5 DEF BootStep, BootRead, BootCheck, BootStamp, BootHelm, BootBox, BootAwait,
                cluster, history
  <1>6. ASSUME NEW c \in Calls, Ask(c) PROVE UNCHANGED <<secret, driver, accepted>>
    BY <1>6 DEF Ask, AddProvider, SaveProvider, RemoveProvider, Asks, cluster, history
  <1>7. ASSUME NEW c \in Calls, CallStep(c)
        PROVE  [Sync!Next]_(Sync!vars) /\ AcceptedIsSaved' /\ RoundCovers'
    BY <1>7, CallKeepsSync
  <1>8. CASE UNCHANGED vars
    BY <1>1, <1>8 DEF vars
  <1> QED
    BY <1>1, <1>2, <1>3, <1>4, <1>5, <1>6, <1>7, <1>8 DEF Next

(* startReconcile keeps the promise of CredentialSync: however changes and   *)
(* rounds interleave, the driver comes to rest only after reading the last  *)
(* change handed to it, or with an error.                                   *)
THEOREM KeepsCredentialSync == Spec => SyncKept
  <1>1. Init => SyncInv /\ Sync!Init
    <2> SUFFICES ASSUME Init PROVE SyncInv /\ Sync!Init
      OBVIOUS
    <2>1. LockInv
      BY InitLocked
    <2>2. secret.rev = 0 /\ accepted = 0 /\ driver = IdleDriver
      BY DEF Init, Fresh, Running
    <2> QED
      BY <2>1, <2>2 DEF SyncInv, AcceptedIsSaved, RoundCovers, Sync!Init, IdleDriver
  <1>2. SyncInv /\ [Next]_vars => [Sync!Next]_(Sync!vars) /\ SyncInv'
    BY StepKeepsSync
  <1> QED
    BY <1>1, <1>2, PTL DEF Spec, SyncKept, Sync!Spec

-----------------------------------------------------------------------------
(* What is saved is what runs.  Under Untroubled at most one attempt of     *)
(* ensureUserStack ever works, before any driver and beside no change; from *)
(* then on every change is handed to the driver, which goes round until it  *)
(* has applied the last one.                                                *)

Known    == entry \notin {"none", "driver"}
Booting  == Known /\ boot[entry].pc # "idle"
Coming   == entry = "none" \/ Booting
Awaiting == Known /\ boot[entry].state = "needs_key"
Settled  == entry = "driver" \/ (Known /\ boot[entry].state = "ready")

(* The entry is the one attempt at work, and shows how far it came.         *)
OneAttempt ==
  /\ \A b \in Boots : boot[b].pc # "idle" => entry = b
  /\ Known => /\ boot[entry].pc # "idle" <=> boot[entry].state = "provisioning"
              /\ boot[entry].state # "error"

DriverIsEntry ==
  /\ driver.pc # "idle" => entry = "driver"
  /\ driver.pc # "failed"
  /\ entry = "driver" => driver.state \in {"provisioning", "ready"}
  /\ entry = "driver" /\ driver.pc = "idle" => driver.state = "ready"
  /\ driver.pc = "idle" => ~driver.requested
  /\ driver.nextRestart => driver.requested

(* Nothing is asked for until the entry has settled or waits for a key.     *)
PageIsOfEntry ==
  /\ page = "studio" => Settled
  /\ page = "form" => Awaiting
  /\ page # "error"
  /\ Coming => page = "polling" /\ queue = <<>>

NothingInstalled ==
  /\ server.up => server.installed
  /\ ~server.installed => box = NoBox /\ ~Settled
  /\ Awaiting => ~server.installed

(* The attempt works with what is saved.                                    *)
AttemptIsCurrent ==
  Booting =>
    /\ boot[entry].pc # "read" => boot[entry].set = secret.data
    /\ boot[entry].pc \notin {"read", "check"} => boot[entry].set # NoCred
    /\ boot[entry].pc = "helm" => keys = ServerEnv(boot[entry].set)
    /\ boot[entry].pc \in {"stampFast", "boxFast", "boxNew", "await"} => server.installed

(* What an earlier gateway left, or this attempt has set up, is of what is  *)
(* saved.                                                                   *)
FoundIsCurrent ==
  Coming /\ server.installed =>
    /\ keys = ServerEnv(secret.data)
    /\ server.up => server.env = ServerEnv(secret.data)
    /\ secret.data # NoCred \/ (Preset = {} /\ server.up)
    /\ \/ box = BoxOf(secret.data)
       \/ box = NoBox /\ Booting /\ boot[entry].pc = "boxNew"

Deciding(c) == call[c].pc = "decide"
RoundDue   == driver.requested \/ \E c \in Calls : Deciding(c)
RestartDue == driver.nextRestart
              \/ \E c \in Calls : Deciding(c) /\ call[c].provider \in KeyProviders

Applying == {"stamp", "restart", "delete", "create"}

(* With no round to come, the round under way applies what is saved, or the *)
(* one that ended has.                                                      *)
RoundIsCurrent ==
  Settled /\ ~RoundDue =>
    /\ driver.pc \in Applying => driver.set = secret.data
    /\ driver.pc = "idle" => box = BoxOf(secret.data)

(* With no restart to come, the same for the keys: what the server reads    *)
(* them into is current, or is about to be restarted.                       *)
ServerIsCurrent ==
  Settled /\ ~RestartDue =>
    /\ driver.pc \in Applying => ServerEnv(driver.set) = ServerEnv(secret.data)
    /\ keys = ServerEnv(secret.data) \/ (driver.restart /\ driver.pc \in {"read", "stamp"})
    /\ server.up => \/ server.env = ServerEnv(secret.data)
                    \/ driver.restart /\ driver.pc \in {"read", "stamp", "restart"}

BoxIsMade == driver.pc = "create" => box = NoBox /\ driver.set # NoCred

Calm == /\ OneAttempt /\ DriverIsEntry /\ PageIsOfEntry /\ NothingInstalled
        /\ AttemptIsCurrent /\ FoundIsCurrent /\ RoundIsCurrent /\ ServerIsCurrent
        /\ BoxIsMade

QuietInv == Untroubled => Calm

LEMMA EntryKnown ==
    ASSUME TypeOK PROVE Known => entry \in Boots
  BY DEF TypeOK, Known

(* A step without trouble is from a state without.                          *)
LEMMA SpentOnly ==
    ASSUME spent \in Bounds, NEW kind \in {"changes", "faults", "crashes", "restarts"}, Spends(kind)
    PROVE  /\ spent'.faults = 0 => kind # "faults" /\ spent.faults = 0
           /\ spent'.restarts = 0 => kind # "restarts" /\ spent.restarts = 0
           /\ spent'.crashes = 0 => spent.crashes = 0
  BY DEF Bounds, Spends

LEMMA NoTrouble ==
    ASSUME TypeOK, Untroubled', overlap => overlap',
           NoFault \/ Fault \/ Trouble("crashes") \/ Spends("changes")
    PROVE  Untroubled /\ ~Fault
  <1>1. spent \in Bounds /\ overlap \in BOOLEAN
    BY DEF TypeOK
  <1>2. ~overlap' /\ spent'.faults = 0 /\ spent'.restarts = 0 /\ (Preset # {} \/ spent'.crashes = 0)
    BY DEF Untroubled
  <1>3. ~Fault
    <2> SUFFICES ASSUME Spends("faults") PROVE FALSE
      BY DEF Fault, Trouble
    <2> DEFINE kind == "faults"
    <2>1. kind \in {"changes", "faults", "crashes", "restarts"} /\ Spends(kind)
      OBVIOUS
    <2> HIDE DEF kind
    <2>2. kind # "faults"
      BY <1>1, <1>2, <2>1, SpentOnly
    <2> QED
      BY <2>2 DEF kind
  <1>4. ASSUME NoFault PROVE Untroubled
    BY <1>1, <1>2, <1>4 DEF Untroubled, NoFault
  <1>5. ASSUME NEW kind \in {"changes", "faults", "crashes", "restarts"}, Spends(kind)
        PROVE  Untroubled
    <2>1. spent.faults = 0 /\ spent.restarts = 0 /\ (spent'.crashes = 0 => spent.crashes = 0)
      BY <1>1, <1>2, <1>5, SpentOnly
    <2> QED
      BY <1>1, <1>2, <2>1 DEF Untroubled
  <1>6. Spends("crashes") \/ Spends("changes") => Untroubled
    BY <1>5
  <1> QED
    BY <1>3, <1>4, <1>6 DEF Trouble

LEMMA InitCalm == Init => QuietInv
  <1> SUFFICES ASSUME Init PROVE QuietInv
    OBVIOUS
  <1>1. /\ entry = "none" /\ page = "polling" /\ queue = <<>> /\ driver = IdleDriver
        /\ \A b \in Boots : boot[b].pc = "idle"
    BY DEF Init, Idle
  <1>2. ~Settled /\ ~Booting /\ ~Awaiting /\ ~Known
    BY <1>1 DEF Settled, Booting, Awaiting, Known
  <1>3. OneAttempt /\ DriverIsEntry /\ PageIsOfEntry /\ AttemptIsCurrent /\ RoundIsCurrent
        /\ ServerIsCurrent /\ BoxIsMade
    BY <1>1, <1>2 DEF OneAttempt, DriverIsEntry, PageIsOfEntry, AttemptIsCurrent, RoundIsCurrent,
                      ServerIsCurrent, BoxIsMade, IdleDriver
  <1>4. NothingInstalled /\ FoundIsCurrent
    <2>1. CASE Fresh
      BY <1>2, <2>1 DEF Fresh, NothingInstalled, FoundIsCurrent
    <2>2. CASE Running
      <3>1. server.up /\ server.installed /\ server.env = keys /\ keys = ServerEnv(secret.data)
            /\ secret.data = Left /\ box = BoxOf(secret.data)
        BY <2>2 DEF Running, BoxOf
      <3>2. Left # NoCred \/ Preset = {}
        <4> SUFFICES ASSUME NEW p \in Preset PROVE Left # NoCred
          OBVIOUS
        <4>1. p \in Providers /\ Left[p] = Old /\ NoCred[p] = 0 /\ Old # 0
          BY GatewayBounds DEF Left, NoCred, Old
        <4> QED
          BY <4>1
      <3> QED
        BY <1>2, <3>1, <3>2 DEF NothingInstalled, FoundIsCurrent
    <2> QED
      BY <2>1, <2>2 DEF Init
  <1> QED
    BY <1>3, <1>4 DEF QuietInv, Calm

(* A first attempt, or one that Continue starts: all others are at rest.    *)
LEMMA StartIsCalm ==
    ASSUME TypeOK, Calm, NEW b \in Boots, StartBoot(b), ~overlap', ~Settled, ~Booting,
           page' = "polling", UNCHANGED <<cluster, driver, call, queue>>
    PROVE  Calm'
  <1> USE DEF cluster, Calm
  <1>1. /\ boot'[b].pc = "read" /\ boot'[b].state = "provisioning"
        /\ \A c \in Boots \ {b} : boot'[c] = boot[c]
        /\ entry' = b /\ driver.pc = "idle" /\ queue = <<>>
    BY DEF StartBoot, TypeOK, Idle
  <1>2. \A c \in Boots \ {b} : boot[c].pc = "idle"
    BY BootNames DEF OneAttempt, Booting, Known
  <1>3. Known' /\ Booting' /\ ~Awaiting' /\ ~Settled' /\ Coming'
    BY <1>1, BootNames DEF Known, Booting, Awaiting, Settled, Coming
  <1>4. OneAttempt' /\ DriverIsEntry' /\ PageIsOfEntry' /\ AttemptIsCurrent' /\ RoundIsCurrent'
        /\ ServerIsCurrent' /\ BoxIsMade'
    BY <1>1, <1>2, <1>3, BootNames
    DEF OneAttempt, DriverIsEntry, PageIsOfEntry, AttemptIsCurrent, RoundIsCurrent,
        ServerIsCurrent, BoxIsMade
  <1>5. NothingInstalled'
    BY <1>3 DEF NothingInstalled
  <1>6. entry = "none" \/ Awaiting
    BY EntryKnown DEF OneAttempt, Awaiting, Settled, Booting, Known, TypeOK, States
  <1>7. FoundIsCurrent'
    BY <1>3, <1>6 DEF FoundIsCurrent, NothingInstalled, Coming, Booting, Awaiting
  <1> QED
    BY <1>4, <1>5, <1>7

(* What a step that changes the page, the calls or the money spent leaves.  *)
LEMMA StackStays ==
    ASSUME Calm, PageIsOfEntry', UNCHANGED <<cluster, entry, boot, driver>>,
           \A c \in Calls : Deciding(c)' => Deciding(c) /\ call'[c].provider = call[c].provider,
           \A c \in Calls : Deciding(c) => Deciding(c)' /\ call'[c].provider = call[c].provider
    PROVE  Calm'
  <1> USE DEF cluster, Calm
  <1>1. /\ Known' = Known /\ Booting' = Booting /\ Coming' = Coming /\ Awaiting' = Awaiting
        /\ Settled' = Settled
    BY DEF Known, Booting, Coming, Awaiting, Settled
  <1>2. RoundDue' = RoundDue /\ RestartDue' = RestartDue
    BY DEF RoundDue, RestartDue
  <1>3. OneAttempt' /\ DriverIsEntry' /\ NothingInstalled' /\ AttemptIsCurrent' /\ FoundIsCurrent'
        /\ BoxIsMade'
    BY <1>1 DEF OneAttempt, DriverIsEntry, NothingInstalled, AttemptIsCurrent, FoundIsCurrent,
                BoxIsMade
  <1>4. RoundIsCurrent' /\ ServerIsCurrent'
    BY <1>1, <1>2 DEF RoundIsCurrent, ServerIsCurrent
  <1> QED
    BY <1>3, <1>4

(* The state the page is answered with is the one of its entry.             *)
LEMMA PageAnswered ==
    ASSUME TypeOK, Calm, entry # "none"
    PROVE  LET shown == PageFor(EntryState)
           IN  /\ shown = "studio" => Settled
               /\ shown = "form" => Awaiting
               /\ shown # "error"
               /\ Coming => shown = "polling"
  <1>1. CASE entry = "driver"
    <2>1. EntryState = driver.state /\ driver.state \in States /\ Settled /\ ~Known /\ ~Coming
      BY <1>1 DEF EntryState, Settled, Known, Coming, Booting, TypeOK
    <2> QED
      BY <1>1, <2>1 DEF PageFor, Calm, DriverIsEntry
  <1>2. CASE entry # "driver"
    <2>1. Known /\ EntryState = boot[entry].state
      BY <1>2 DEF Known, EntryState
    <2>2. OneAttempt
      BY DEF Calm
    <2> QED
      BY <2>1, <2>2 DEF PageFor, OneAttempt, Coming, Booting, Settled, Awaiting, Known
  <1> QED
    BY <1>1, <1>2

LEMMA PageCalm ==
    ASSUME TypeOK, Calm, Untroubled', Poll \/ Retry \/ Reload
    PROVE  Calm'
  <1> USE DEF cluster, history
  <1>1. ~overlap'
    BY DEF Untroubled
  <1>2. /\ page = "studio" => Settled
        /\ page = "form" => Awaiting
        /\ page # "error"
        /\ Coming => page = "polling" /\ queue = <<>>
    BY DEF Calm, PageIsOfEntry
  <1>3. ASSUME UNCHANGED <<entry, boot, driver, queue>>
        PROVE  Coming' = Coming /\ Settled' = Settled /\ Awaiting' = Awaiting
    BY <1>3 DEF Coming, Booting, Settled, Awaiting, Known
  <1>4. CASE Poll
    <2>1. CASE entry = "none"
      <3>1. PICK b \in Boots : StartBoot(b)
        BY <1>4, <2>1 DEF Poll
      <3>2. page' = "polling" /\ UNCHANGED <<secret, keys, server, box, driver, call, queue>>
        BY <1>4, <2>1 DEF Poll
      <3>3. ~Settled /\ ~Booting
        BY <2>1 DEF Settled, Booting, Known
      <3> QED
        BY <1>1, <3>1, <3>2, <3>3, StartIsCalm
    <2>2. CASE entry # "none"
      <3>1. /\ page' = PageFor(EntryState)
            /\ UNCHANGED <<secret, keys, server, box, entry, boot, driver, call, queue>>
        BY <1>4, <2>2 DEF Poll
      <3>2. PageIsOfEntry'
        BY <1>2, <1>3, <2>2, <3>1, PageAnswered DEF PageIsOfEntry
      <3> QED
        BY <3>1, <3>2, StackStays DEF Deciding
    <2> QED
      BY <2>1, <2>2
  <1>5. CASE Retry
    <2>1. Awaiting /\ page' = "polling" /\ UNCHANGED <<secret, keys, server, box, driver, call, queue>>
      BY <1>2, <1>5 DEF Retry
    <2>2. EntryState = "needs_key" /\ ~Settled /\ ~Booting
      BY <2>1, EntryKnown DEF Calm, OneAttempt, Awaiting, Settled, Booting, Known, EntryState
    <2>3. PICK b \in Boots : StartBoot(b)
      BY <1>5, <2>2 DEF Retry
    <2> QED
      BY <1>1, <2>1, <2>2, <2>3, StartIsCalm
  <1>6. CASE Reload
    <2>1. page' = "polling" /\ UNCHANGED <<secret, keys, server, box, entry, boot, driver, call, queue>>
      BY <1>6 DEF Reload
    <2>2. PageIsOfEntry'
      BY <1>2, <1>3, <2>1 DEF PageIsOfEntry
    <2> QED
      BY <2>1, <2>2, StackStays DEF Deciding
  <1> QED
    BY <1>4, <1>5, <1>6

(* The user asks only where the entry has settled or waits for a key.       *)
LEMMA AskCalm ==
    ASSUME TypeOK, Calm, NEW c \in Calls, Ask(c)
    PROVE  Calm'
  <1>1. PICK p \in Providers, cred \in {0, FreshCred} : Asks(c, p, cred)
    BY DEF Ask, AddProvider, SaveProvider, RemoveProvider
  <1>2. /\ call[c].pc = "idle" /\ call'[c].pc = "queued"
        /\ \A d \in Calls \ {c} : call'[d] = call[d]
        /\ UNCHANGED <<secret, keys, server, box, entry, boot, driver, page>>
    BY <1>1 DEF TypeOK, Asks, cluster
  <1>3. page \in {"form", "studio"}
    BY DEF Ask, AddProvider, SaveProvider, RemoveProvider
  <1>4. PageIsOfEntry'
    BY <1>2, <1>3 DEF Calm, PageIsOfEntry, Coming, Booting, Settled, Awaiting, Known
  <1> QED
    BY <1>2, <1>4, StackStays DEF Deciding, cluster

(* The pod starts with the keys of the Secret, or dies.                     *)
LEMMA ServerCalm ==
    ASSUME TypeOK, Calm, Untroubled', ServerStart \/ ServerCrash
    PROVE  Calm'
  <1> USE DEF cluster, history, Calm
  <1>1. /\ UNCHANGED <<secret, keys, box, entry, boot, driver, call, queue, page>>
        /\ server'.installed = server.installed
        /\ server'.up => server.installed
        /\ server'.up => server'.env = keys
    <2>1. CASE ServerStart
      BY <2>1 DEF ServerStart, TypeOK
    <2>2. CASE ServerCrash
      BY <2>2 DEF ServerCrash, TypeOK
    <2> QED
      BY <2>1, <2>2
  <1>2. server'.up \/ Preset # {}
    <2>1. CASE ServerStart
      BY <2>1 DEF ServerStart, TypeOK
    <2>2. CASE ServerCrash
      BY <2>2 DEF ServerCrash, Trouble, Spends, Untroubled, TypeOK, Bounds
    <2> QED
      BY <2>1, <2>2
  <1>3. /\ Known' = Known /\ Booting' = Booting /\ Coming' = Coming /\ Awaiting' = Awaiting
        /\ Settled' = Settled /\ RoundDue' = RoundDue /\ RestartDue' = RestartDue
    BY <1>1 DEF Known, Booting, Coming, Awaiting, Settled, RoundDue, RestartDue, Deciding
  <1>4. OneAttempt' /\ DriverIsEntry' /\ PageIsOfEntry' /\ NothingInstalled' /\ RoundIsCurrent'
        /\ BoxIsMade'
    BY <1>1, <1>3 DEF OneAttempt, DriverIsEntry, PageIsOfEntry, NothingInstalled,
                      RoundIsCurrent, BoxIsMade
  <1>5. AttemptIsCurrent'
    BY <1>1, <1>3 DEF AttemptIsCurrent
  <1>6. FoundIsCurrent'
    BY <1>1, <1>2, <1>3 DEF FoundIsCurrent
  <1>7. ServerIsCurrent'
    BY <1>1, <1>3 DEF ServerIsCurrent
  <1> QED
    BY <1>4, <1>5, <1>6, <1>7

(* An attempt goes on: what it relies on is what it has read or done.       *)
LEMMA AttemptGoesOn ==
    ASSUME TypeOK, Calm, NEW b \in Boots, boot[b].pc # "idle",
           boot'[b].pc # "idle", boot'[b].state = boot[b].state,
           \A c \in Boots \ {b} : boot'[c] = boot[c],
           UNCHANGED <<secret, entry, driver, call, queue, page>>
    PROVE  /\ OneAttempt' /\ DriverIsEntry' /\ PageIsOfEntry' /\ RoundIsCurrent'
           /\ ServerIsCurrent' /\ BoxIsMade'
           /\ entry = b /\ Booting /\ Booting' /\ Coming' /\ ~Awaiting' /\ ~Settled'
           /\ driver.pc = "idle"
  <1> USE DEF Calm
  <1>1. entry = b /\ Known /\ Known' /\ Booting /\ Booting' /\ Coming /\ Coming'
    BY BootNames DEF OneAttempt, Known, Booting, Coming
  <1>2. ~Settled /\ ~Settled' /\ ~Awaiting /\ ~Awaiting'
    BY <1>1 DEF OneAttempt, Settled, Awaiting, Known
  <1>3. driver.pc = "idle"
    BY <1>1, <1>2 DEF DriverIsEntry, Settled
  <1>4. OneAttempt'
    BY <1>1 DEF OneAttempt
  <1>5. DriverIsEntry' /\ PageIsOfEntry'
    BY <1>1, <1>2 DEF DriverIsEntry, PageIsOfEntry
  <1>6. RoundIsCurrent' /\ ServerIsCurrent' /\ BoxIsMade'
    BY <1>2, <1>3 DEF RoundIsCurrent, ServerIsCurrent, BoxIsMade
  <1> QED
    BY <1>1, <1>2, <1>3, <1>4, <1>5, <1>6

(* An attempt that ends: the stack is settled, with nothing asked for yet.  *)
LEMMA AttemptReady ==
    ASSUME LockInv, Calm, NEW b \in Boots, boot[b].pc # "idle", BootEnds(b, "ready"),
           server.installed, box' = BoxOf(secret.data),
           UNCHANGED <<secret, keys, server, entry, driver, call, queue, page>>
    PROVE  Calm'
  <1> USE DEF Calm
  <1>1. /\ boot'[b].pc = "idle" /\ boot'[b].state = "ready"
        /\ \A c \in Boots \ {b} : boot'[c] = boot[c]
    BY DEF BootEnds, LockInv, TypeOK
  <1>2. entry = b /\ Known /\ Known' /\ Booting /\ Coming
    BY BootNames DEF OneAttempt, Known, Booting, Coming
  <1>3. ~Booting' /\ ~Coming' /\ ~Awaiting' /\ Settled'
    BY <1>1, <1>2 DEF Known, Booting, Coming, Awaiting, Settled
  <1>4. queue = <<>> /\ page = "polling" /\ driver.pc = "idle" /\ ~driver.requested
    BY <1>2, BootNames DEF PageIsOfEntry, DriverIsEntry
  <1>5. \A c \in Calls : ~Deciding(c) /\ ~Deciding(c)'
    BY <1>4 DEF LockInv, FirstAtWork, HoldsLock, Deciding
  <1>6. OneAttempt'
    BY <1>1, <1>2 DEF OneAttempt
  <1>7. DriverIsEntry' /\ BoxIsMade' /\ PageIsOfEntry' /\ NothingInstalled'
    BY <1>2, <1>3, <1>4 DEF DriverIsEntry, BoxIsMade, PageIsOfEntry, NothingInstalled
  <1>8. AttemptIsCurrent' /\ FoundIsCurrent'
    BY <1>3 DEF AttemptIsCurrent, FoundIsCurrent
  <1>9. RoundIsCurrent'
    BY <1>4 DEF RoundIsCurrent, Applying
  <1>10. ServerIsCurrent'
    BY <1>2, <1>4 DEF ServerIsCurrent, FoundIsCurrent, Applying
  <1> QED
    BY <1>6, <1>7, <1>8, <1>9, <1>10

LEMMA BootCalm ==
    ASSUME LockInv, Calm, ~Fault, NEW b \in Boots, BootStep(b)
    PROVE  Calm'
  <1> USE DEF cluster, history
  <1>1. TypeOK /\ boot[b].pc # "idle"
    BY DEF LockInv, BootStep, BootRead, BootCheck, BootStamp, BootHelm, BootBox, BootAwait
  <1>2. /\ entry = b /\ Booting
        /\ boot[b].pc # "read" => boot[b].set = secret.data
        /\ boot[b].pc \notin {"read", "check"} => boot[b].set # NoCred
        /\ boot[b].pc = "helm" => keys = ServerEnv(boot[b].set)
        /\ boot[b].pc \in {"stampFast", "boxFast", "boxNew", "await"} => server.installed
    BY <1>1, BootNames DEF Calm, OneAttempt, AttemptIsCurrent, Booting, Known
  <1>3. /\ server.up => server.installed
        /\ ~server.installed => box = NoBox
        /\ server.installed =>
             /\ keys = ServerEnv(secret.data)
             /\ server.up => server.env = ServerEnv(secret.data)
             /\ secret.data # NoCred \/ (Preset = {} /\ server.up)
             /\ box = BoxOf(secret.data) \/ (box = NoBox /\ boot[b].pc = "boxNew")
    BY <1>2 DEF Calm, NothingInstalled, FoundIsCurrent, Coming
  <1>4. CASE BootRead(b)
    <2>1. /\ boot' = [boot EXCEPT ![b].pc = "check", ![b].set = secret.data]
          /\ UNCHANGED <<secret, keys, server, box, entry, driver, call, queue, page>>
      BY <1>4 DEF BootRead
    <2>2. /\ boot'[b].pc = "check" /\ boot'[b].set = secret.data /\ boot'[b].state = boot[b].state
          /\ \A c \in Boots \ {b} : boot'[c] = boot[c]
      BY <1>1, <2>1 DEF TypeOK
    <2>3. /\ OneAttempt' /\ DriverIsEntry' /\ PageIsOfEntry' /\ RoundIsCurrent'
          /\ ServerIsCurrent' /\ BoxIsMade'
          /\ Booting' /\ Coming' /\ ~Awaiting' /\ ~Settled'
      BY <1>1, <2>1, <2>2, AttemptGoesOn
    <2>4. AttemptIsCurrent'
      BY <1>2, <2>1, <2>2 DEF AttemptIsCurrent
    <2>5. NothingInstalled' /\ FoundIsCurrent'
      BY <1>2, <1>3, <1>4, <2>1, <2>2, <2>3 DEF NothingInstalled, FoundIsCurrent, BootRead
    <2> QED
      BY <2>3, <2>4, <2>5 DEF Calm
  <1>5. CASE BootCheck(b)
    <2>1. /\ boot[b].pc = "check"
          /\ UNCHANGED <<secret, keys, server, box, entry, driver, call, queue, page>>
      BY <1>5 DEF BootCheck
    <2>2. CASE server.up /\ boot[b].set = NoCred /\ BootEnds(b, "ready")
      BY <1>1, <1>2, <1>3, <2>1, <2>2, AttemptReady DEF BoxOf
    <2>3. CASE ~server.up /\ boot[b].set = NoCred /\ BootEnds(b, "needs_key")
      <3>1. /\ boot'[b].pc = "idle" /\ boot'[b].state = "needs_key"
            /\ \A c \in Boots \ {b} : boot'[c] = boot[c]
        BY <1>1, <2>3 DEF BootEnds, TypeOK
      <3>2. ~server.installed
        BY <1>2, <1>3, <2>1, <2>3
      <3>3. /\ Known' /\ ~Booting' /\ ~Coming' /\ Awaiting' /\ ~Settled'
            /\ driver.pc = "idle" /\ ~Settled /\ ~Awaiting /\ Coming
        BY <1>2, <2>1, <3>1, BootNames
        DEF Known, Booting, Coming, Awaiting, Settled, Calm, OneAttempt, DriverIsEntry
      <3>4. OneAttempt' /\ DriverIsEntry' /\ PageIsOfEntry' /\ NothingInstalled' /\ AttemptIsCurrent'
            /\ FoundIsCurrent' /\ RoundIsCurrent' /\ ServerIsCurrent' /\ BoxIsMade'
        BY <1>2, <1>3, <2>1, <3>1, <3>2, <3>3
        DEF Calm, OneAttempt, DriverIsEntry, PageIsOfEntry, NothingInstalled, AttemptIsCurrent,
            FoundIsCurrent, RoundIsCurrent, ServerIsCurrent, BoxIsMade
      <3> QED
        BY <3>4 DEF Calm
    <2>4. ASSUME NEW pc \in {"stampFast", "stampNew"}, BootTo(b, pc), boot[b].set # NoCred,
                 pc = "stampFast" => server.up
          PROVE  Calm'
      <3>1. /\ boot'[b].pc = pc /\ boot'[b].set = boot[b].set /\ boot'[b].state = boot[b].state
            /\ \A c \in Boots \ {b} : boot'[c] = boot[c]
        BY <1>1, <2>4 DEF BootTo, TypeOK
      <3>2. /\ OneAttempt' /\ DriverIsEntry' /\ PageIsOfEntry' /\ RoundIsCurrent'
            /\ ServerIsCurrent' /\ BoxIsMade'
            /\ Booting' /\ Coming' /\ ~Awaiting' /\ ~Settled'
        BY <1>1, <2>1, <3>1, AttemptGoesOn
      <3>3. AttemptIsCurrent'
        BY <1>2, <1>3, <2>1, <2>4, <3>1 DEF AttemptIsCurrent
      <3>4. NothingInstalled' /\ FoundIsCurrent'
        BY <1>2, <1>3, <2>1, <3>1, <3>2 DEF NothingInstalled, FoundIsCurrent
      <3> QED
        BY <3>2, <3>3, <3>4 DEF Calm
    <2> QED
      BY <1>5, <2>2, <2>3, <2>4 DEF BootCheck
  <1>6. CASE BootStamp(b)
    <2>1. /\ boot[b].pc \in {"stampFast", "stampNew"}
          /\ keys' = ServerEnv(boot[b].set)
          /\ BootTo(b, IF boot[b].pc = "stampFast" THEN "boxFast" ELSE "helm")
          /\ UNCHANGED <<secret, server, box, entry, driver, call, queue, page>>
      BY <1>6 DEF BootStamp
    <2>2. /\ boot'[b].pc = IF boot[b].pc = "stampFast" THEN "boxFast" ELSE "helm"
          /\ boot'[b].set = boot[b].set /\ boot'[b].state = boot[b].state
          /\ \A c \in Boots \ {b} : boot'[c] = boot[c]
      BY <1>1, <2>1 DEF BootTo, TypeOK
    <2>3. /\ OneAttempt' /\ DriverIsEntry' /\ PageIsOfEntry' /\ RoundIsCurrent'
          /\ ServerIsCurrent' /\ BoxIsMade'
          /\ Booting' /\ Coming' /\ ~Awaiting' /\ ~Settled'
      <3>1. boot'[b].pc # "idle"
        BY <2>1, <2>2
      <3>2. /\ OneAttempt' /\ DriverIsEntry' /\ PageIsOfEntry' /\ BoxIsMade'
            /\ Booting' /\ Coming' /\ ~Awaiting' /\ ~Settled'
        BY <1>1, <2>1, <2>2, <3>1, AttemptGoesOn
      <3> QED
        BY <3>2 DEF RoundIsCurrent, ServerIsCurrent
    <2>4. AttemptIsCurrent'
      BY <1>2, <1>3, <2>1, <2>2 DEF AttemptIsCurrent
    <2>5. NothingInstalled' /\ FoundIsCurrent'
      BY <1>2, <1>3, <2>1, <2>2, <2>3 DEF NothingInstalled, FoundIsCurrent
    <2> QED
      BY <2>3, <2>4, <2>5 DEF Calm
  <1>7. CASE BootHelm(b)
    <2>1. /\ boot[b].pc = "helm" /\ BootTo(b, "boxNew")
          /\ server' = [server EXCEPT !.installed = TRUE]
          /\ UNCHANGED <<secret, keys, box, entry, driver, call, queue, page>>
      BY <1>7 DEF BootHelm
    <2>2. /\ boot'[b].pc = "boxNew"
          /\ boot'[b].set = boot[b].set /\ boot'[b].state = boot[b].state
          /\ \A c \in Boots \ {b} : boot'[c] = boot[c]
          /\ server'.installed /\ server'.up = server.up /\ server'.env = server.env
      BY <1>1, <2>1 DEF BootTo, TypeOK
    <2>3. /\ OneAttempt' /\ DriverIsEntry' /\ PageIsOfEntry' /\ RoundIsCurrent'
          /\ ServerIsCurrent' /\ BoxIsMade'
          /\ Booting' /\ Coming' /\ ~Awaiting' /\ ~Settled'
      BY <1>1, <2>1, <2>2, AttemptGoesOn
    <2>4. AttemptIsCurrent'
      BY <1>2, <1>3, <2>1, <2>2 DEF AttemptIsCurrent
    <2>5. NothingInstalled'
      BY <2>2, <2>3 DEF NothingInstalled
    <2>6. FoundIsCurrent'
      BY <1>2, <1>3, <2>1, <2>2, <2>3 DEF FoundIsCurrent
    <2> QED
      BY <2>3, <2>4, <2>5, <2>6 DEF Calm
  <1>8. CASE BootBox(b)
    <2>1. /\ boot[b].pc \in {"boxFast", "boxNew"}
          /\ box' = CreatedBox(boot[b].set)
          /\ UNCHANGED <<secret, keys, server, entry, driver, call, queue, page>>
      BY <1>8 DEF BootBox
    <2>2. box' = BoxOf(secret.data) /\ server.installed /\ secret.data # NoCred
      BY <1>2, <1>3, <2>1 DEF CreatedBox, BoxOf
    <2>3. CASE boot[b].pc = "boxFast"
      <3>1. BootEnds(b, "ready")
        BY <1>8, <2>3 DEF BootBox
      <3> QED
        BY <1>1, <2>1, <2>2, <3>1, AttemptReady
    <2>4. CASE boot[b].pc = "boxNew"
      <3>1. BootTo(b, "await")
        BY <1>8, <2>4 DEF BootBox
      <3>2. /\ boot'[b].pc = "await"
            /\ boot'[b].set = boot[b].set /\ boot'[b].state = boot[b].state
            /\ \A c \in Boots \ {b} : boot'[c] = boot[c]
        BY <1>1, <3>1 DEF BootTo, TypeOK
      <3>3. /\ OneAttempt' /\ DriverIsEntry' /\ PageIsOfEntry' /\ RoundIsCurrent'
            /\ ServerIsCurrent' /\ BoxIsMade'
            /\ Booting' /\ Coming' /\ ~Awaiting' /\ ~Settled'
        BY <1>1, <2>1, <3>2, AttemptGoesOn
      <3>4. AttemptIsCurrent'
        BY <1>2, <2>1, <2>2, <3>2 DEF AttemptIsCurrent
      <3>5. NothingInstalled' /\ FoundIsCurrent'
        BY <1>2, <1>3, <2>1, <2>2, <3>2, <3>3 DEF NothingInstalled, FoundIsCurrent
      <3> QED
        BY <3>3, <3>4, <3>5 DEF Calm
    <2> QED
      BY <2>1, <2>3, <2>4
  <1>9. CASE BootAwait(b)
    <2>1. /\ boot[b].pc = "await" /\ BootEnds(b, "ready")
          /\ UNCHANGED <<secret, keys, server, box, entry, driver, call, queue, page>>
      BY <1>9 DEF BootAwait
    <2> QED
      BY <1>1, <1>2, <1>3, <2>1, AttemptReady
  <1> QED
    BY <1>4, <1>5, <1>6, <1>7, <1>8, <1>9 DEF BootStep

(* A call holds the lock only once the entry has settled or waits for a key.*)
LEMMA CallerFacts ==
    ASSUME LockInv, Calm, NEW c \in Calls, HoldsLock(c)
    PROVE  ~Coming /\ ~Booting /\ (\A b \in Boots : boot[b].pc = "idle")
           /\ (Settled \/ Awaiting) /\ ~(Settled /\ Awaiting)
  <1>1. ~Coming /\ ~Booting
    BY DEF HoldsLock, Calm, PageIsOfEntry, Coming
  <1>2. \A b \in Boots : boot[b].pc = "idle"
    BY <1>1, BootNames DEF Calm, OneAttempt, Booting, Known
  <1>3. Settled \/ Awaiting
    BY <1>1, EntryKnown DEF Calm, OneAttempt, Settled, Awaiting, Coming, Booting, Known, LockInv,
                            TypeOK, States
  <1> QED
    BY <1>1, <1>2, <1>3 DEF Settled, Awaiting, Known

LEMMA ReadCalm ==
    ASSUME LockInv, Calm, ~Fault, NEW c \in Calls, CallRead(c)
    PROVE  Calm'
  <1> USE DEF cluster, history
  <1>1. HoldsLock(c) /\ call[c].pc = "queued" /\ TypeOK
    BY DEF CallRead, LockInv
  <1>2. UNCHANGED <<secret, keys, server, box, entry, boot, driver, page>>
    BY DEF CallRead
  <1>3. /\ call'[c].pc \in {"idle", "write"} /\ \A d \in Calls \ {c} : call'[d] = call[d]
    BY <1>1 DEF CallRead, Answered, CallTo, TypeOK
  <1>4. PageIsOfEntry'
    BY <1>1, <1>2, CallerFacts DEF Calm, PageIsOfEntry, Coming, Booting, Settled, Awaiting, Known
  <1> QED
    BY <1>1, <1>2, <1>3, <1>4, StackStays DEF Deciding

(* A change is saved: the round it needs is due as long as it is decided on.*)
LEMMA WriteCalm ==
    ASSUME LockInv, Calm, ~Fault, Untroubled', NEW c \in Calls, CallWrite(c)
    PROVE  Calm'
  <1>1. TypeOK /\ call[c].pc = "write" /\ HoldsLock(c) /\ call[c].set = secret.data
    BY DEF CallWrite, LockInv, FirstAtWork, ReadIsCurrent
  <1>2. /\ secret' = [data |-> Merged(c), rev |-> secret.rev + 1]
        /\ CallTo(c, "decide")
        /\ UNCHANGED <<keys, server, box, entry, boot, driver, page, queue>>
    BY DEF CallWrite
  <1>3. /\ call'[c].pc = "decide" /\ call'[c].provider = call[c].provider
        /\ \A d \in Calls \ {c} : call'[d] = call[d]
    BY <1>1, <1>2 DEF CallTo, TypeOK
  <1>4. ~Coming /\ ~Booting /\ ~Coming' /\ ~Booting'
    BY <1>1, <1>2, CallerFacts DEF Coming, Booting, Known
  <1>5. Settled' = Settled /\ Awaiting' = Awaiting /\ Known' = Known
    BY <1>2 DEF Settled, Awaiting, Known
  <1>6. OneAttempt' /\ DriverIsEntry' /\ NothingInstalled' /\ BoxIsMade'
    BY <1>2, <1>5 DEF Calm, OneAttempt, DriverIsEntry, NothingInstalled, BoxIsMade
  <1>7. PageIsOfEntry' /\ AttemptIsCurrent' /\ FoundIsCurrent'
    BY <1>2, <1>4, <1>5 DEF Calm, PageIsOfEntry, AttemptIsCurrent, FoundIsCurrent
  <1>8. RoundIsCurrent'
    BY <1>3 DEF RoundIsCurrent, RoundDue, Deciding
  <1>9. ServerIsCurrent'
    <2>1. CASE call[c].provider \in KeyProviders
      BY <1>3, <2>1 DEF ServerIsCurrent, RestartDue, Deciding
    <2>2. CASE call[c].provider \notin KeyProviders
      <3>1. secret'.data = [secret.data EXCEPT ![call[c].provider] = call[c].cred]
        BY <1>1, <1>2 DEF Merged
      <3>2. ServerEnv(secret'.data) = ServerEnv(secret.data)
        <4>1. secret.data \in Sets
          BY <1>1 DEF TypeOK
        <4>2. \A p \in KeyProviders : p \in Providers => secret'.data[p] = secret.data[p]
          BY <2>2, <3>1, <4>1 DEF Sets
        <4> QED
          BY <4>2 DEF ServerEnv
      <3>3. RestartDue => RestartDue'
        BY <1>1, <1>2, <1>3 DEF RestartDue, Deciding
      <3>4. ServerIsCurrent
        BY DEF Calm
      <3>5. UNCHANGED <<driver, keys, server>>
        BY <1>2
      <3> HIDE DEF RestartDue
      <3> QED
        BY <1>5, <3>2, <3>3, <3>4, <3>5 DEF ServerIsCurrent
    <2> QED
      BY <2>1, <2>2
  <1> QED
    BY <1>6, <1>7, <1>8, <1>9 DEF Calm

(* Where the stack has settled every change reaches the driver.             *)
LEMMA SettledRotates ==
    ASSUME LockInv, Calm, NEW c \in Calls, HoldsLock(c)
    PROVE  Settled <=> Rotating
  <1>1. Settled => Rotating
    BY DEF Settled, Rotating, EntryState, Calm, DriverIsEntry, Known
  <1>2. Awaiting => ~Rotating
    BY DEF Awaiting, Rotating, EntryState, Calm, DriverIsEntry, NothingInstalled, Known
  <1> QED
    BY <1>1, <1>2, CallerFacts

LEMMA DecideCalm ==
    ASSUME LockInv, Calm, NEW c \in Calls, CallDecide(c)
    PROVE  Calm'
  <1> USE DEF cluster
  <1>1. TypeOK /\ call[c].pc = "decide" /\ HoldsLock(c)
    BY DEF CallDecide, LockInv, FirstAtWork
  <1>2. Answered(c) /\ UNCHANGED <<secret, keys, server, box, boot, page>>
    BY DEF CallDecide
  <1>3. /\ call'[c].pc = "idle"
        /\ \A d \in Calls \ {c} : call'[d] = call[d] /\ call[d].pc \notin {"write", "decide"}
    BY <1>1, <1>2, HolderLeaves DEF LockInv
  <1>4. /\ \A d \in Calls : ~Deciding(d)'
        /\ \A d \in Calls : Deciding(d) => d = c
    BY <1>3 DEF Deciding
  <1>5. /\ ~Coming /\ ~Booting /\ (\A b \in Boots : boot[b].pc = "idle")
        /\ (Settled \/ Awaiting) /\ ~(Settled /\ Awaiting)
    BY <1>1, CallerFacts
  <1>6. RoundDue' = driver'.requested /\ RestartDue' = driver'.nextRestart
    <2>1. driver'.requested \in BOOLEAN /\ driver'.nextRestart \in BOOLEAN
      BY StepKeepsLock DEF LockInv, TypeOK, Next, CallStep
    <2> QED
      BY <1>4, <2>1 DEF RoundDue, RestartDue
  <1>7. CASE ~Rotating
    <2>1. UNCHANGED <<driver, entry>> /\ ~Settled
      BY <1>1, <1>7, SettledRotates DEF CallDecide
    <2>2. ~Settled' /\ Awaiting' /\ ~Coming' /\ ~Booting' /\ Known' = Known
      BY <1>2, <1>5, <2>1 DEF Settled, Awaiting, Coming, Booting, Known
    <2>3. OneAttempt' /\ NothingInstalled'
      BY <1>2, <1>5, <2>1, <2>2 DEF Calm, OneAttempt, NothingInstalled
    <2>5. DriverIsEntry' /\ BoxIsMade'
      BY <1>2, <2>1 DEF Calm, DriverIsEntry, BoxIsMade
    <2>4. PageIsOfEntry' /\ AttemptIsCurrent' /\ FoundIsCurrent' /\ RoundIsCurrent' /\ ServerIsCurrent'
      BY <1>2, <1>5, <2>1, <2>2 DEF Calm, PageIsOfEntry, AttemptIsCurrent, FoundIsCurrent,
                                    RoundIsCurrent, ServerIsCurrent
    <2> QED
      BY <2>3, <2>4, <2>5 DEF Calm
  <1>8. CASE Rotating
    <2> DEFINE restart == call[c].provider \in KeyProviders
    <2>1. Settled /\ server.installed /\ page # "form"
      BY <1>1, <1>5, <1>8, SettledRotates DEF Calm, NothingInstalled, PageIsOfEntry
    <2>2. CASE FlagRound(restart)
      <3>1. /\ entry' = entry /\ driver.pc # "idle" /\ driver'.requested
            /\ driver'.pc = driver.pc /\ driver'.state = driver.state /\ driver'.set = driver.set
            /\ driver'.restart = driver.restart
            /\ driver'.nextRestart = (driver.nextRestart \/ restart)
        BY <1>1, <2>2 DEF FlagRound, TypeOK
      <3> HIDE DEF restart
      <3>2. Settled' /\ ~Awaiting' /\ ~Coming' /\ ~Booting' /\ Known' = Known
        BY <1>2, <1>5, <2>1, <3>1 DEF Settled, Awaiting, Coming, Booting, Known
      <3>3. OneAttempt' /\ NothingInstalled'
        BY <1>2, <1>5, <2>1, <3>1, <3>2 DEF Calm, OneAttempt, NothingInstalled
      <3>7. DriverIsEntry' /\ BoxIsMade'
        BY <1>2, <3>1 DEF Calm, DriverIsEntry, BoxIsMade
      <3>4. PageIsOfEntry' /\ AttemptIsCurrent' /\ FoundIsCurrent' /\ RoundIsCurrent'
        BY <1>2, <1>6, <2>1, <3>1, <3>2 DEF Calm, PageIsOfEntry, AttemptIsCurrent, FoundIsCurrent,
                                          RoundIsCurrent
      <3>5. RestartDue => RestartDue'
        BY <1>4, <1>6, <3>1 DEF RestartDue, restart
      <3>6. ServerIsCurrent'
        BY <1>2, <2>1, <3>1, <3>5 DEF Calm, ServerIsCurrent
      <3> QED
        BY <3>3, <3>4, <3>6, <3>7 DEF Calm
    <2>3. CASE StartDriver(restart)
      <3>1. /\ entry' = "driver" /\ driver.pc = "idle" /\ ~driver'.requested /\ ~driver'.nextRestart
            /\ driver'.pc = "read" /\ driver'.state = "provisioning" /\ driver'.restart = restart
        BY <1>1, <2>3 DEF StartDriver, IdleDriver, TypeOK
      <3> HIDE DEF restart
      <3>2. Settled' /\ ~Awaiting' /\ ~Coming' /\ ~Booting' /\ ~Known'
        BY <3>1 DEF Settled, Awaiting, Coming, Booting, Known
      <3>3. OneAttempt' /\ DriverIsEntry' /\ NothingInstalled' /\ BoxIsMade'
        BY <1>2, <1>5, <2>1, <3>1, <3>2 DEF Calm, OneAttempt, DriverIsEntry, NothingInstalled, BoxIsMade
      <3>4. PageIsOfEntry' /\ AttemptIsCurrent' /\ FoundIsCurrent' /\ RoundIsCurrent'
        BY <1>2, <2>1, <3>1, <3>2 DEF Calm, PageIsOfEntry, AttemptIsCurrent, FoundIsCurrent,
                                    RoundIsCurrent, Applying
      <3>5. restart \/ ~RestartDue
        BY <1>4, <3>1 DEF RestartDue, Calm, DriverIsEntry, restart
      <3>6. ServerIsCurrent'
        <4>1. CASE restart
          BY <3>1, <4>1 DEF ServerIsCurrent, Applying
        <4>2. CASE ~restart
          BY <1>2, <2>1, <3>1, <3>5, <4>2 DEF ServerIsCurrent, Applying, Calm
        <4> QED
          BY <4>1, <4>2
      <3> QED
        BY <3>3, <3>4, <3>6 DEF Calm
    <2> QED
      BY <1>8, <2>2, <2>3 DEF CallDecide, StartReconcile
  <1> QED
    BY <1>7, <1>8

(* The driver at work: the stack has settled, and stays so.                 *)
LEMMA DriverStaysCalm ==
    ASSUME TypeOK, Calm, driver.pc # "idle",
           UNCHANGED <<secret, entry, boot, call, queue, page>>,
           server'.installed = server.installed, server'.up => server.up,
           driver'.pc # "failed", driver'.state \in {"provisioning", "ready"},
           driver'.pc = "idle" => driver'.state = "ready" /\ ~driver'.requested,
           driver'.nextRestart => driver'.requested
    PROVE  /\ OneAttempt' /\ DriverIsEntry' /\ PageIsOfEntry' /\ NothingInstalled'
           /\ AttemptIsCurrent' /\ FoundIsCurrent'
           /\ Settled /\ Settled' /\ entry = "driver"
           /\ \A c \in Calls : Deciding(c)' = Deciding(c)
  <1>1. entry = "driver" /\ entry' = "driver" /\ Settled /\ Settled'
    BY DEF Calm, DriverIsEntry, Settled
  <1>2. ~Known /\ ~Known' /\ ~Booting' /\ ~Coming' /\ ~Awaiting'
    BY <1>1 DEF Known, Booting, Coming, Awaiting
  <1>3. server.installed /\ page # "form"
    BY <1>1, <1>2 DEF Calm, NothingInstalled, PageIsOfEntry, Awaiting
  <1>4. OneAttempt' /\ NothingInstalled' /\ AttemptIsCurrent' /\ FoundIsCurrent'
    BY <1>1, <1>2, <1>3 DEF Calm, OneAttempt, NothingInstalled, AttemptIsCurrent, FoundIsCurrent
  <1>5. DriverIsEntry' /\ PageIsOfEntry'
    BY <1>1, <1>2, <1>3 DEF Calm, DriverIsEntry, PageIsOfEntry
  <1>6. \A c \in Calls : Deciding(c)' = Deciding(c)
    BY DEF Deciding
  <1> QED
    BY <1>1, <1>4, <1>5, <1>6

(* The end of a round: another begins with what was asked for, or all is    *)
(* applied.                                                                 *)
LEMMA RoundEndsCalm ==
    ASSUME TypeOK, Calm, driver.pc \in {"delete", "create"}, RoundEnds("ready", FALSE),
           box' = BoxOf(driver.set),
           UNCHANGED <<secret, keys, server, entry, boot, call, queue, page>>
    PROVE  Calm'
  <1>0. driver \in DriverType
    BY DEF TypeOK, DriverType
  <1>1. /\ driver'.state = "ready" /\ ~driver'.requested
        /\ driver.requested =>
             driver'.pc = "read" /\ driver'.restart = driver.nextRestart /\ ~driver'.nextRestart
        /\ ~driver.requested => driver'.pc = "idle" /\ driver'.nextRestart = driver.nextRestart
    BY <1>0 DEF RoundEnds, DriverType
  <1>2. driver.nextRestart => driver.requested
    BY DEF Calm, DriverIsEntry
  <1>3. driver'.pc \in {"read", "idle"} /\ ~driver'.nextRestart
    BY <1>1, <1>2
  <1>4. /\ OneAttempt' /\ DriverIsEntry' /\ PageIsOfEntry' /\ NothingInstalled'
        /\ AttemptIsCurrent' /\ FoundIsCurrent' /\ Settled /\ Settled'
        /\ \A c \in Calls : Deciding(c)' = Deciding(c)
    BY <1>1, <1>3, DriverStaysCalm
  <1>5. BoxIsMade'
    BY <1>3 DEF BoxIsMade
  <1>6. RoundIsCurrent'
    <2>1. CASE driver.requested
      BY <1>1, <2>1 DEF RoundIsCurrent, Applying
    <2>2. CASE ~driver.requested
      BY <1>1, <1>4, <2>2 DEF RoundIsCurrent, RoundDue, Applying, Calm
    <2> QED
      BY <2>1, <2>2
  <1>7. ServerIsCurrent'
    <2>1. CASE driver.nextRestart
      BY <1>1, <1>2, <2>1 DEF ServerIsCurrent, Applying
    <2>2. CASE ~driver.nextRestart
      <3>1. RestartDue => RestartDue'
        BY <1>4, <2>2 DEF RestartDue
      <3>2. ~RestartDue => keys = ServerEnv(secret.data)
                           /\ (server.up => server.env = ServerEnv(secret.data))
        BY <1>4 DEF Calm, ServerIsCurrent
      <3> QED
        BY <1>3, <3>1, <3>2 DEF ServerIsCurrent, Applying
    <2> QED
      BY <2>1, <2>2
  <1> QED
    BY <1>4, <1>5, <1>6, <1>7 DEF Calm

LEMMA DriverCalm ==
    ASSUME TypeOK, Calm, ~Fault, DriverStep
    PROVE  Calm'
  <1> USE DEF cluster, history
  <1>0. driver \in DriverType
    BY DEF TypeOK, DriverType
  <1>1. /\ entry = "driver" => driver.state \in {"provisioning", "ready"}
        /\ driver.pc # "idle" => entry = "driver"
        /\ driver.pc # "failed"
        /\ driver.nextRestart => driver.requested
    BY DEF Calm, DriverIsEntry
  <1>2. RoundIsCurrent /\ ServerIsCurrent /\ BoxIsMade
    BY DEF Calm
  <1>3. CASE DriverRead
    <2>1. /\ driver.pc = "read"
          /\ driver'.pc = "stamp" /\ driver'.set = secret.data /\ driver'.state = driver.state
          /\ driver'.restart = driver.restart /\ driver'.requested = driver.requested
          /\ driver'.nextRestart = driver.nextRestart
          /\ UNCHANGED <<secret, keys, server, box, entry, boot, call, queue, page>>
      BY <1>0, <1>3 DEF DriverRead, DriverType
    <2>2. /\ OneAttempt' /\ DriverIsEntry' /\ PageIsOfEntry' /\ NothingInstalled'
          /\ AttemptIsCurrent' /\ FoundIsCurrent' /\ Settled /\ Settled'
          /\ \A c \in Calls : Deciding(c)' = Deciding(c)
      BY <1>1, <2>1, DriverStaysCalm
    <2>3. RestartDue => RestartDue'
      BY <2>1, <2>2 DEF RestartDue
    <2>4. RoundIsCurrent' /\ BoxIsMade'
      BY <2>1 DEF RoundIsCurrent, BoxIsMade
    <2>5. ServerIsCurrent'
      BY <1>2, <2>1, <2>2, <2>3 DEF ServerIsCurrent
    <2> QED
      BY <2>2, <2>4, <2>5 DEF Calm
  <1>4. CASE DriverStamp
    <2>1. /\ driver.pc = "stamp" /\ keys' = ServerEnv(driver.set)
          /\ driver'.pc = IF driver.restart THEN "restart" ELSE "delete"
          /\ driver'.set = driver.set /\ driver'.state = driver.state
          /\ driver'.restart = driver.restart /\ driver'.requested = driver.requested
          /\ driver'.nextRestart = driver.nextRestart
          /\ UNCHANGED <<secret, server, box, entry, boot, call, queue, page>>
      BY <1>0, <1>4 DEF DriverStamp, DriverTo, DriverType
    <2>2. /\ OneAttempt' /\ DriverIsEntry' /\ PageIsOfEntry' /\ NothingInstalled'
          /\ AttemptIsCurrent' /\ FoundIsCurrent' /\ Settled /\ Settled'
          /\ \A c \in Calls : Deciding(c)' = Deciding(c)
      BY <1>1, <2>1, DriverStaysCalm
    <2>3. (RestartDue => RestartDue') /\ (RoundDue => RoundDue')
      BY <2>1, <2>2 DEF RestartDue, RoundDue
    <2>4. RoundIsCurrent' /\ BoxIsMade'
      BY <1>2, <2>1, <2>2, <2>3 DEF RoundIsCurrent, BoxIsMade, Applying
    <2>5. ServerIsCurrent'
      BY <1>2, <2>1, <2>2, <2>3 DEF ServerIsCurrent, Applying
    <2> QED
      BY <2>2, <2>4, <2>5 DEF Calm
  <1>5. CASE DriverRestart
    <2>1. /\ driver.pc = "restart" /\ ~server'.up /\ server'.installed = server.installed
          /\ driver'.pc = "delete"
          /\ driver'.set = driver.set /\ driver'.state = driver.state
          /\ driver'.restart = driver.restart /\ driver'.requested = driver.requested
          /\ driver'.nextRestart = driver.nextRestart
          /\ UNCHANGED <<secret, keys, box, entry, boot, call, queue, page>>
      BY <1>0, <1>5 DEF DriverRestart, DriverTo, DriverType, TypeOK
    <2>2. /\ OneAttempt' /\ DriverIsEntry' /\ PageIsOfEntry' /\ NothingInstalled'
          /\ AttemptIsCurrent' /\ FoundIsCurrent' /\ Settled /\ Settled'
          /\ \A c \in Calls : Deciding(c)' = Deciding(c)
      BY <1>1, <2>1, DriverStaysCalm
    <2>3. (RestartDue => RestartDue') /\ (RoundDue => RoundDue')
      BY <2>1, <2>2 DEF RestartDue, RoundDue
    <2>4. RoundIsCurrent' /\ BoxIsMade'
      BY <1>2, <2>1, <2>2, <2>3 DEF RoundIsCurrent, BoxIsMade, Applying
    <2>5. ServerIsCurrent'
      BY <1>2, <2>1, <2>2, <2>3 DEF ServerIsCurrent, Applying
    <2> QED
      BY <2>2, <2>4, <2>5 DEF Calm
  <1>6. CASE DriverDelete
    <2>1. /\ driver.pc = "delete" /\ box' = NoBox
          /\ UNCHANGED <<secret, keys, server, entry, boot, call, queue, page>>
      BY <1>6 DEF DriverDelete
    <2>2. CASE driver.set = NoCred
      <3>1. RoundEnds("ready", FALSE)
        BY <1>6, <2>2 DEF DriverDelete
      <3> QED
        BY <2>1, <2>2, <3>1, RoundEndsCalm DEF BoxOf
    <2>3. CASE driver.set # NoCred
      <3>1. /\ driver'.pc = "create"
            /\ driver'.set = driver.set /\ driver'.state = driver.state
            /\ driver'.restart = driver.restart /\ driver'.requested = driver.requested
            /\ driver'.nextRestart = driver.nextRestart
        BY <1>0, <1>6, <2>3 DEF DriverDelete, DriverTo, DriverType
      <3>2. /\ OneAttempt' /\ DriverIsEntry' /\ PageIsOfEntry' /\ NothingInstalled'
            /\ AttemptIsCurrent' /\ FoundIsCurrent' /\ Settled /\ Settled'
            /\ \A c \in Calls : Deciding(c)' = Deciding(c)
        BY <1>1, <2>1, <3>1, DriverStaysCalm
      <3>3. (RestartDue => RestartDue') /\ (RoundDue => RoundDue')
        <4>1. RestartDue => RestartDue'
          BY <2>1, <3>1, <3>2 DEF RestartDue
        <4>2. RoundDue => RoundDue'
          BY <3>1, <3>2 DEF RoundDue
        <4> QED
          BY <4>1, <4>2
      <3>4. RoundIsCurrent' /\ BoxIsMade'
        BY <1>2, <2>1, <2>3, <3>1, <3>2, <3>3 DEF RoundIsCurrent, BoxIsMade, Applying
      <3>5. ServerIsCurrent'
        BY <1>2, <2>1, <3>1, <3>2, <3>3 DEF ServerIsCurrent, Applying
      <3> QED
        BY <3>2, <3>4, <3>5 DEF Calm
    <2> QED
      BY <2>2, <2>3
  <1>7. CASE DriverCreate
    <2>1. /\ driver.pc = "create" /\ box' = CreatedBox(driver.set) /\ RoundEnds("ready", FALSE)
          /\ UNCHANGED <<secret, keys, server, entry, boot, call, queue, page>>
      BY <1>7 DEF DriverCreate
    <2>2. box' = BoxOf(driver.set)
      BY <1>2, <2>1 DEF BoxIsMade, CreatedBox, BoxOf
    <2> QED
      BY <2>1, <2>2, RoundEndsCalm
  <1>8. ~DriverFailed
    BY <1>1 DEF DriverFailed
  <1> QED
    BY <1>3, <1>4, <1>5, <1>6, <1>7, <1>8 DEF DriverStep

LEMMA StepIsCalm == LockInv /\ QuietInv /\ [Next]_vars => QuietInv'
  <1> SUFFICES ASSUME LockInv, QuietInv, [Next]_vars, Untroubled' PROVE Calm'
    BY DEF QuietInv
  <1> USE DEF cluster, history
  <1>0. TypeOK
    BY DEF LockInv
  <1>1. ASSUME UNCHANGED spent, overlap => overlap' PROVE Calm /\ ~Fault
    BY <1>0, <1>1, NoTrouble DEF NoFault, QuietInv
  <1>2. ASSUME NoFault \/ Fault \/ Trouble("crashes") \/ Spends("changes"), overlap => overlap'
        PROVE  Calm /\ ~Fault
    BY <1>0, <1>2, NoTrouble DEF QuietInv
  <1>3. CASE Poll \/ Retry \/ Reload
    <2>1. UNCHANGED spent /\ (overlap => overlap')
      <3>1. overlap \in BOOLEAN
        BY <1>0 DEF TypeOK
      <3>2. UNCHANGED spent /\ (UNCHANGED overlap \/ \E b \in Boots : StartBoot(b))
        BY <1>3 DEF Poll, Retry, Reload
      <3> QED
        BY <3>1, <3>2 DEF StartBoot
    <2> QED
      BY <1>0, <1>1, <1>3, <2>1, PageCalm
  <1>4. CASE ServerStart \/ ServerCrash
    <2>1. (NoFault \/ Trouble("crashes")) /\ UNCHANGED overlap
      BY <1>4 DEF ServerStart, ServerCrash, NoFault
    <2> QED
      BY <1>0, <1>2, <1>4, <2>1, ServerCalm
  <1>5. CASE DriverStep
    <2>1. (NoFault \/ Fault) /\ UNCHANGED overlap
      BY <1>5 DEF DriverStep, DriverRead, DriverStamp, DriverRestart, DriverDelete, DriverCreate,
                  DriverFailed, NoFault
    <2> QED
      BY <1>0, <1>2, <1>5, <2>1, DriverCalm
  <1>6. CASE GatewayRestart
    <2>1. Spends("restarts") /\ spent \in Bounds /\ spent'.restarts = 0
      BY <1>0, <1>6 DEF GatewayRestart, Trouble, TypeOK, Untroubled
    <2> DEFINE kind == "restarts"
    <2>2. kind \in {"changes", "faults", "crashes", "restarts"} /\ Spends(kind)
      BY <2>1
    <2> HIDE DEF kind
    <2>3. kind # "restarts"
      BY <2>1, <2>2, SpentOnly
    <2> QED
      BY <2>3 DEF kind
  <1>7. ASSUME NEW b \in Boots, BootStep(b) PROVE Calm'
    <2>1. (NoFault \/ Fault) /\ UNCHANGED overlap
      BY <1>7 DEF BootStep, BootRead, BootCheck, BootStamp, BootHelm, BootBox, BootAwait, NoFault
    <2> QED
      BY <1>2, <1>7, <2>1, BootCalm
  <1>8. ASSUME NEW c \in Calls, Ask(c) PROVE Calm'
    <2>1. Spends("changes") /\ UNCHANGED overlap
      BY <1>8 DEF Ask, AddProvider, SaveProvider, RemoveProvider, Asks
    <2> QED
      BY <1>0, <1>2, <1>8, <2>1, AskCalm
  <1>9. ASSUME NEW c \in Calls, CallStep(c) PROVE Calm'
    <2>1. (NoFault \/ Fault) /\ (overlap => overlap')
      <3>1. overlap \in BOOLEAN
        BY <1>0 DEF TypeOK
      <3>2. CASE CallRead(c)
        BY <3>2 DEF CallRead
      <3>3. CASE CallWrite(c)
        BY <3>1, <3>3 DEF CallWrite
      <3>4. CASE CallDecide(c)
        BY <3>4 DEF CallDecide, NoFault
      <3> QED
        BY <1>9, <3>2, <3>3, <3>4 DEF CallStep
    <2>2. Calm /\ ~Fault
      BY <1>2, <2>1
    <2> QED
      BY <1>9, <2>2, ReadCalm, WriteCalm, DecideCalm DEF CallStep
  <1>10. CASE UNCHANGED vars
    <2>1. UNCHANGED <<spent, overlap>> /\ UNCHANGED <<cluster, entry, boot, driver, call, page, queue>>
      BY <1>10 DEF vars
    <2>2. Calm
      BY <1>1, <2>1
    <2>3. PageIsOfEntry'
      BY <2>1, <2>2 DEF Calm, PageIsOfEntry, Settled, Awaiting, Coming, Booting, Known
    <2> QED
      BY <2>1, <2>2, <2>3, StackStays DEF Deciding
  <1> QED
    BY <1>3, <1>4, <1>5, <1>6, <1>7, <1>8, <1>9, <1>10 DEF Next

(* With nothing at work and the server up, the server's env and the sandbox *)
(* are those of the saved credentials, for any number of changes, calls and *)
(* providers (startReconcile, ensureUserStack).                             *)
THEOREM WhatIsSavedRuns == Spec => []QuietStackIsCurrent
  <1>1. LockInv /\ QuietInv => QuietStackIsCurrent
    <2> SUFFICES ASSUME LockInv, QuietInv, Quiet, server.up, Untroubled
                 PROVE  server.env = ServerEnv(secret.data) /\ box = BoxOf(secret.data)
      BY DEF QuietStackIsCurrent
    <2>1. Calm /\ server.installed /\ ~Booting /\ ~Awaiting
      BY EntryKnown DEF QuietInv, Calm, NothingInstalled, Quiet, Booting, Known, LockInv
    <2>2. \A c \in Calls : ~Deciding(c)
      BY DEF Quiet, LockInv, FirstAtWork, HoldsLock, Deciding
    <2>3. CASE Coming
      BY <2>1, <2>3 DEF Calm, FoundIsCurrent
    <2>4. CASE ~Coming
      <3>1. Settled
        BY <2>1, <2>4, EntryKnown DEF Calm, OneAttempt, Settled, Awaiting, Coming, Booting, Known,
                                      LockInv, TypeOK, States
      <3>2. ~RoundDue /\ ~RestartDue
        BY <2>1, <2>2 DEF RoundDue, RestartDue, Calm, DriverIsEntry, Quiet
      <3> QED
        BY <2>1, <3>1, <3>2 DEF Calm, RoundIsCurrent, ServerIsCurrent, Quiet
    <2> QED
      BY <2>3, <2>4
  <1> QED
    BY <1>1, InitCalm, InitLocked, StepIsCalm, StepKeepsLock, PTL DEF Spec
=============================================================================
