----------------------------- MODULE ChatTurns -----------------------------
(***************************************************************************)
(* The turns of one conversation in the studio (features/chat): what the   *)
(* user sends, the confirmation of a proposed job, the continuation sent   *)
(* when a job ends, the references of finished uploads, and the turns      *)
(* Morty takes on its own.  They share the conversation's messages and its *)
(* request lock in the chat store.  Each time the conversation is shown,   *)
(* React mounts a new view of it, with its own notification queue and its  *)
(* own upload tracker; what an unmounted view has begun runs on detached.  *)
(* JavaScript is single-threaded: a step runs from one await to the next.  *)
(***************************************************************************)
EXTENDS Naturals, Sequences, FiniteSets

CONSTANTS
  Jobs,        \* the jobs that may be created
  Refs,        \* the uploads whose reference is posted to the conversation
  MaxMounts,   \* bound on how often the conversation is shown
  MaxTroubles, \* bound on page reloads and failing requests
  MaxCards,    \* bound on proposed jobs
  MaxFailures  \* MAX_FAILURES of processJobNotifyQueue

ASSUME ChatBounds == /\ {MaxMounts, MaxTroubles, MaxCards, MaxFailures} \subseteq Nat
                     /\ MaxMounts > 0

VARIABLES
  messages,  \* the conversation, plain messages but the last one left out
  lock,      \* activeRequests: a request of the conversation is running
  jobLock,   \* jobInFlight: the input waits for a job
  notified,  \* notifiedJobs
  pending,   \* pendingReferences
  shown,     \* the conversation is the one on display
  view,      \* number of the view mounted last
  fired,     \* jobs whose monitor card has reported to the mounted view
  skipped,   \* jobs whose monitor card the user has closed in the mounted view
  gone,      \* the conversation was deleted
  queue,     \* per view, its jobNotifyQueueRef
  failures,  \* per view, consecutiveFailures of its queue
  shifting,  \* per view, a delivered reference its drain has yet to shift
  polling,   \* a poll for Morty's own turns is under way
  notices,   \* rejections Morty is being told of, which take no lock
  turns,     \* the requests under way that have taken the lock
  job,       \* the jobs on the server
  told,      \* how often the server was told that a job ended
  reported,  \* jobs whose end the conversation shows
  carded,    \* jobs whose creation a message of it tells, under which their card is shown
  spent      \* how much of each bound is used

store == <<messages, lock, jobLock, notified, pending>>
mount == <<shown, view, fired, skipped, gone>>
own   == <<queue, failures, shifting>>
aside == <<polling, notices>>
world == <<job, told, reported, carded>>
vars  == <<messages, lock, jobLock, notified, pending, shown, view, fired, skipped, gone,
           queue, failures, shifting, polling, notices, turns, job, told, reported, carded,
           spent>>

Views == 1 .. MaxMounts
Kinds == {"send", "reference", "notify", "confirm"}
None  == "none"

-----------------------------------------------------------------------------
(* A message is an empty placeholder of a turn ("hole"), a proposed job     *)
(* ("card"), or plain.  A hole is known by the turn that fills it.          *)
Message(kind, of) == [kind |-> kind, of |-> of]
Plain   == Message("plain", <<>>)
Card    == Message("card", <<>>)
Orphan  == Message("hole", <<>>)
Hole(t) == Message("hole", <<t.kind, t.view, t.what>>)

Last(s) == s[Len(s)]
Tail_(kind) == messages # <<>> /\ Last(messages).kind = kind

IsPlain(m) == m.kind = "plain"

(* What is kept of the first n messages.                                    *)
Kept(s) ==
  LET kept[n \in 0 .. Len(s)] ==
        IF n = 0 THEN <<>>
        ELSE IF IsPlain(s[n]) /\ n < Len(s) THEN kept[n - 1] ELSE Append(kept[n - 1], s[n])
  IN  kept
Compact(s) == Kept(s)[Len(s)]

Added(s, m) == Compact(Append(s, m))
Filled(t, m) == Compact([i \in DOMAIN messages |->
                           IF messages[i] = Hole(t) THEN m ELSE messages[i]])
NoCards(s)   == Compact([i \in DOMAIN s |-> IF s[i].kind = "card" THEN Plain ELSE s[i]])

CardsAt == {i \in DOMAIN messages : messages[i].kind = "card"}
LastCard == CHOOSE i \in CardsAt : \A k \in CardsAt : k <= i

(* What a finished turn leaves in its placeholder.                          *)
Answers == IF spent.cards < MaxCards THEN {Plain, Card} ELSE {Plain}
CardSpent(m) == [spent EXCEPT !.cards = IF m = Card THEN @ + 1 ELSE @]

Fault == spent.faults + spent.reloads < MaxTroubles /\ spent' = [spent EXCEPT !.faults = @ + 1]

(* Mutant: the lock is taken from whoever holds it.                         *)
AlwaysStart == lock' = TRUE

(* chat-store.tryStartRequest: the lock is taken only where it is free.     *)
TryStart == ~lock /\ lock' = TRUE

NewTurn(kind, v, what, at) ==
  [kind |-> kind, view |-> v, what |-> what, at |-> at, heard |-> FALSE]
Ends(t) == turns' = turns \ {t} /\ lock' = FALSE

Init ==
  /\ messages = <<>> /\ lock = FALSE /\ jobLock = FALSE
  /\ notified = {} /\ pending = <<>>
  /\ shown = TRUE /\ view = 1 /\ fired = {} /\ skipped = {} /\ gone = FALSE
  /\ queue = [v \in Views |-> <<>>]
  /\ failures = [v \in Views |-> 0]
  /\ shifting = [v \in Views |-> FALSE]
  /\ polling = FALSE /\ notices = 0 /\ turns = {}
  /\ job = [j \in Jobs |-> "none"] /\ told = [j \in Jobs |-> 0]
  /\ reported = {} /\ carded = {}
  /\ spent = [faults |-> 0, reloads |-> 0, cards |-> 0, submits |-> 0, cut |-> 0, refs |-> {}]

-----------------------------------------------------------------------------
(* sendMessage, for the user and for the upload tracker: refused while a    *)
(* job or a request runs; it withdraws the proposed jobs when the last      *)
(* message is one, and adds the user's message and an empty answer.         *)
Begin(t) ==
  /\ ~jobLock /\ TryStart
  /\ messages' = Added(Added(IF Tail_("card") THEN NoCards(messages) ELSE messages,
                             Plain), Hole(t))
  /\ turns' = turns \union {t}

Send ==
  /\ shown
  /\ Begin(NewTurn("send", view, None, 0))
  /\ UNCHANGED <<jobLock, notified, pending, mount, own, aside, world, spent>>

(* useAttachUpload: an upload of this conversation has finished.            *)
Enqueue(r) ==
  /\ r \notin spent.refs
  /\ spent' = [spent EXCEPT !.refs = @ \union {r}]
  /\ pending' = Append(pending, r)
  /\ UNCHANGED <<messages, lock, jobLock, notified, mount, own, aside, turns,
                 world>>

Draining(v) == shifting[v] \/ \E t \in turns : t.kind = "reference" /\ t.view = v

(* drain: the mounted view posts the first queued reference ...             *)
Drain ==
  /\ shown /\ ~Draining(view) /\ pending # <<>>
  /\ Begin(NewTurn("reference", view, Head(pending), 0))
  /\ UNCHANGED <<jobLock, notified, pending, mount, own, aside, world, spent>>

(* ... and takes it off the queue when its send has come back.              *)
Shift(v) ==
  /\ shifting[v]
  /\ shifting' = [shifting EXCEPT ![v] = FALSE]
  /\ pending' = IF pending = <<>> THEN pending ELSE Tail(pending)
  /\ UNCHANGED <<messages, lock, jobLock, notified, mount, queue, failures, aside,
                 turns, world, spent>>

(* The server answers a turn.                                              *)
Heard(t) ==
  /\ t \in turns /\ ~t.heard /\ t.kind # "confirm"
  /\ turns' = (turns \ {t}) \union {[t EXCEPT !.heard = TRUE]}
  /\ told' = IF t.kind = "notify" THEN [told EXCEPT ![t.what] = @ + 1] ELSE told
  /\ UNCHANGED <<store, mount, own, aside, job, reported, carded, spent>>

(* The message that tells of a job's creation holds its monitor card.       *)
ShowsCardOf(j) == carded' = IF gone THEN carded ELSE carded \union {j}

AfterReference(t) ==
  shifting' = IF t.kind = "reference" THEN [shifting EXCEPT ![t.view] = TRUE] ELSE shifting

(* The answer is written into the placeholder; Morty may have created a job *)
(* itself, and the input then waits for it.                                 *)
Answered(t) ==
  /\ t \in turns /\ t.heard /\ t.kind \in {"send", "reference"}
  /\ Ends(t) /\ AfterReference(t)
  /\ \/ \E m \in Answers :
          messages' = Filled(t, m) /\ spent' = CardSpent(m)
                                             /\ UNCHANGED <<job, jobLock, carded>>
     \/ /\ messages' = Filled(t, Plain) /\ jobLock' = TRUE
        /\ \E j \in Jobs : /\ job[j] = "none" /\ job' = [job EXCEPT ![j] = "running"]
                          /\ ShowsCardOf(j)
        /\ UNCHANGED spent
  /\ UNCHANGED <<notified, pending, mount, queue, failures, aside, told, reported>>

(* A send that fails, before or after the server heard it, leaves its error *)
(* in the placeholder; it counts as sent.                                   *)
SendFails(t) ==
  /\ t \in turns /\ t.kind \in {"send", "reference"}
  /\ Fault /\ Ends(t) /\ AfterReference(t)
  /\ messages' = Filled(t, Plain)
  /\ UNCHANGED <<jobLock, notified, pending, mount, queue, failures, aside, world>>

-----------------------------------------------------------------------------
(* confirmAction: the newest proposed job is submitted, under the lock.     *)
Confirm ==
  /\ shown /\ CardsAt # {} /\ TryStart
  /\ turns' = turns \union {NewTurn("confirm", view, None, LastCard)}
  /\ UNCHANGED <<messages, jobLock, notified, pending, mount, own, aside, world,
                 spent>>

Created(t) ==
  /\ t \in turns /\ t.kind = "confirm" /\ ~t.heard
  /\ \E j \in Jobs :
       /\ job[j] = "none" /\ job' = [job EXCEPT ![j] = "running"]
       /\ turns' = (turns \ {t}) \union {[t EXCEPT !.heard = TRUE, !.what = j]}
  /\ spent' = [spent EXCEPT !.submits = @ + 1]
  /\ UNCHANGED <<store, mount, own, aside, told, reported, carded>>

(* Mutant: the submitted proposal stays.                                    *)
CardKept(at) == messages

WithoutCard(at) ==
  Compact([i \in DOMAIN messages |-> IF i = at THEN Plain ELSE messages[i]])

Submitted(t) ==
  /\ t \in turns /\ t.kind = "confirm" /\ t.heard
  /\ Ends(t)
  /\ jobLock' = TRUE
  /\ messages' = WithoutCard(t.at) /\ ShowsCardOf(t.what)
  /\ UNCHANGED <<notified, pending, mount, own, aside, job, told, reported, spent>>

(* The submissions whose job is created and whose reply is on its way.      *)
Replying == {t \in turns : t.kind = "confirm" /\ t.heard}

(* The server refuses the job, or its reply is lost after the job was       *)
(* created: the card stays, to be confirmed again.  (No job is left to      *)
(* create once Jobs is used up: that is the model's bound.)                 *)
ConfirmFails(t) ==
  /\ t \in turns /\ t.kind = "confirm"
  /\ \/ ~t.heard /\ Fault
     \/ /\ t.heard /\ spent.faults + spent.reloads < MaxTroubles
        /\ spent' = [spent EXCEPT !.faults = @ + 1, !.cut = @ + 1]
     \/ ~t.heard /\ (\A j \in Jobs : job[j] # "none") /\ UNCHANGED spent
  /\ Ends(t)
  /\ jobLock' = FALSE
  /\ UNCHANGED <<messages, notified, pending, mount, own, aside, world>>

(* rejectAction withdraws every proposed job and, where there is a session,  *)
(* posts a notice to it.  The notice looks at the lock and does not take it, *)
(* so turns begin beside it; its answer is not read.                        *)
Reject ==
  /\ shown /\ CardsAt # {} /\ ~lock
  /\ messages' = NoCards(messages)
  /\ notices' \in {notices, notices + 1}
  /\ UNCHANGED <<lock, jobLock, notified, pending, mount, own, polling, turns, world,
                 spent>>

NoticeEnds ==
  /\ notices > 0
  /\ notices' = notices - 1
  /\ UNCHANGED <<store, mount, own, polling, turns, world, spent>>

-----------------------------------------------------------------------------
JobEnds(j) ==
  /\ job[j] = "running"
  /\ job' = [job EXCEPT ![j] = "done"]
  /\ UNCHANGED <<store, mount, own, aside, turns, told, reported, carded, spent>>

(* The jobs with a monitor card in the mounted view that has not seen them  *)
(* end.  A job whose submission was cut off has none.                       *)
Watched == IF shown THEN carded \ (fired \union skipped) ELSE {}

(* A watched job is seen to end, once, and notifyJobComplete queues it      *)
(* unless Morty knows.                                                      *)
Fire(j) ==
  /\ j \in Watched /\ job[j] = "done"
  /\ fired' = fired \union {j}
  /\ queue' = [queue EXCEPT ![view] = IF j \in notified THEN @ ELSE Append(@, j)]
  /\ UNCHANGED <<store, shown, view, skipped, gone, failures, shifting, aside, turns,
                 world, spent>>

(* "Skip monitoring": the card is closed until the conversation is shown    *)
(* again.                                                                   *)
SkipMonitoring(j) ==
  /\ j \in Watched
  /\ skipped' = skipped \union {j}
  /\ UNCHANGED <<store, shown, view, fired, gone, own, aside, turns, world, spent>>

(* processJobNotifyQueue, of a mounted or a detached view: an entry already *)
(* delivered by another view, or of a deleted conversation, is dropped, the *)
(* head waits for the request or the proposed job that blocks it, and too   *)
(* many failures empty the queue.                                          *)
Blocked == lock \/ Tail_("card")

QueueHead(v) == queue[v] # <<>> /\ \A t \in turns : ~(t.kind = "notify" /\ t.view = v)
Popped(v)    == queue' = [queue EXCEPT ![v] = Tail(@)]

(* Mutants: what waits for a deleted conversation is told all the same; an  *)
(* entry is dropped while a request runs.                                   *)
KnownIfNotified(j) == j \in notified
KnownOrBusy(j)     == gone \/ j \in notified \/ lock

Known(j) == gone \/ j \in notified

QueueSkips(v) ==
  /\ QueueHead(v) /\ Known(Head(queue[v]))
  /\ Popped(v)
  /\ UNCHANGED <<store, mount, failures, shifting, aside, turns, world, spent>>

QueueTrips(v) ==
  /\ QueueHead(v) /\ ~Known(Head(queue[v])) /\ ~Blocked
  /\ failures[v] >= MaxFailures
  /\ queue' = [queue EXCEPT ![v] = <<>>]
  /\ UNCHANGED <<store, mount, failures, shifting, aside, turns, world, spent>>

Notify(v) ==
  /\ QueueHead(v) /\ ~Known(Head(queue[v])) /\ ~Blocked
  /\ failures[v] < MaxFailures
  /\ TryStart /\ Popped(v)
  /\ jobLock' = FALSE
  /\ LET t == NewTurn("notify", v, Head(queue[v]), 0)
     IN messages' = Added(messages, Hole(t)) /\ turns' = turns \union {t}
  /\ UNCHANGED <<notified, pending, mount, failures, shifting, aside, world, spent>>

FailureCount(v, n) ==
  failures' = [failures EXCEPT ![v] = IF queue[v] = <<>> THEN 0 ELSE n]

Continued(t) ==
  /\ t \in turns /\ t.kind = "notify" /\ t.heard
  /\ Ends(t) /\ FailureCount(t.view, 0)
  /\ \E m \in Answers : messages' = Filled(t, m) /\ spent' = CardSpent(m)
  /\ notified' = notified \union {t.what}
  /\ reported' = reported \union {t.what}
  /\ UNCHANGED <<jobLock, pending, mount, queue, shifting, aside, job, told, carded>>

(* The fallback message stands in for the continuation.  The entry is not   *)
(* queued again: the job's card reports anew in the next view.              *)
NotifyFails(t) ==
  /\ t \in turns /\ t.kind = "notify"
  /\ Fault /\ Ends(t) /\ FailureCount(t.view, failures[t.view] + 1)
  /\ messages' = Filled(t, Plain)
  /\ reported' = reported \union {t.what}
  /\ UNCHANGED <<jobLock, notified, pending, mount, queue, shifting, aside, job, told,
                 carded>>

-----------------------------------------------------------------------------
(* pollPending: the lock is looked at before the fetch, the messages are    *)
(* appended after it.                                                      *)
PollStart ==
  /\ shown /\ ~lock /\ ~polling
  /\ polling' = TRUE
  /\ UNCHANGED <<store, mount, own, notices, turns, world, spent>>

PollEnds ==
  /\ polling
  /\ polling' = FALSE
  /\ \/ /\ ~gone
        /\ \E m \in Answers : messages' = Added(messages, m) /\ spent' = CardSpent(m)
     \/ UNCHANGED <<messages, spent>>
  /\ UNCHANGED <<lock, jobLock, notified, pending, mount, own, notices, turns, world>>

(* The input's lock is given up on a window focus or after five minutes.    *)
Unlock ==
  /\ shown /\ jobLock
  /\ jobLock' = FALSE
  /\ UNCHANGED <<messages, lock, notified, pending, mount, own, aside, turns, world,
                 spent>>

-----------------------------------------------------------------------------
(* Mutant: an orphan stays.                                                 *)
NotReconciled(s, locked) == s

(* The mount effect of useChat: with no request running, an empty last      *)
(* placeholder is an orphan and is marked as interrupted.                   *)
Reconciled(s, locked) ==
  IF ~locked /\ s # <<>> /\ Last(s).kind = "hole" THEN Compact([s EXCEPT ![Len(s)] = Plain])
  ELSE s

Leave ==
  /\ shown /\ view < MaxMounts
  /\ shown' = FALSE /\ fired' = {} /\ skipped' = {}
  /\ UNCHANGED <<store, view, gone, own, aside, turns, world, spent>>

Enter ==
  /\ ~shown /\ ~gone
  /\ shown' = TRUE /\ view' = view + 1
  /\ messages' = Reconciled(messages, lock)
  /\ UNCHANGED <<lock, jobLock, notified, pending, fired, skipped, gone, own, aside, turns,
                 world, spent>>

(* deleteConversation drops all the store has of the conversation, the lock *)
(* of a request that goes on detached included; replaceAllConversations, by *)
(* which the last conversation is deleted, drops nothing but it.            *)
DropAll ==
  /\ lock' = FALSE /\ jobLock' = FALSE
  /\ notified' = {} /\ pending' = <<>>
KeepAll == UNCHANGED <<lock, jobLock, notified, pending>>

(* confirmDelete, for the conversation on display or any other of the list. *)
Delete ==
  /\ ~gone /\ gone' = TRUE
  /\ shown' = FALSE /\ fired' = {} /\ skipped' = {}
  /\ messages' = <<>> /\ carded' = {}
  /\ DropAll \/ KeepAll
  /\ UNCHANGED <<view, own, aside, turns, job, told, reported, spent>>

(* A page reload loses the views and their requests, and what the store     *)
(* does not persist: the request lock and the queued references.            *)
Abandoned(s) == [i \in DOMAIN s |-> IF s[i].kind = "hole" THEN Orphan ELSE s[i]]
Reload ==
  /\ spent.faults + spent.reloads < MaxTroubles /\ view < MaxMounts
  /\ spent' = [spent EXCEPT !.reloads = @ + 1, !.cut = @ + Cardinality(Replying)]
  /\ lock' = FALSE /\ pending' = <<>> /\ turns' = {} /\ polling' = FALSE /\ notices' = 0
  /\ queue' = [v \in Views |-> <<>>]
  /\ failures' = [v \in Views |-> 0]
  /\ shifting' = [v \in Views |-> FALSE]
  /\ shown' = ~gone /\ view' = view + 1 /\ fired' = {} /\ skipped' = {}
  /\ messages' = Reconciled(Abandoned(messages), FALSE)
  /\ UNCHANGED <<jobLock, notified, gone, world>>

TurnStep(t) == \/ Heard(t) \/ Answered(t) \/ SendFails(t) \/ Created(t) \/ Submitted(t)
               \/ ConfirmFails(t) \/ Continued(t) \/ NotifyFails(t)
QueueStep(v) == QueueSkips(v) \/ QueueTrips(v) \/ Notify(v)

Next == \/ Send \/ Drain \/ Confirm \/ Reject \/ NoticeEnds \/ PollStart \/ PollEnds \/ Unlock
        \/ Leave \/ Enter \/ Delete \/ Reload
        \/ \E r \in Refs : Enqueue(r)
        \/ \E v \in Views : Shift(v) \/ QueueStep(v)
        \/ \E t \in turns : TurnStep(t)
        \/ \E j \in Jobs : JobEnds(j) \/ Fire(j) \/ SkipMonitoring(j)

Spec == Init /\ [][Next]_vars

(* Requests are bounded by timeouts, monitor cards poll, and a continuation *)
(* whose way is clear is sent.                                              *)
Fairness ==
  /\ WF_vars(\E t \in turns : TurnStep(t))
  /\ \A j \in Jobs : WF_vars(Fire(j))
  /\ \A v \in Views : SF_vars(QueueStep(v)) /\ WF_vars(Shift(v))

FairSpec == Spec /\ Fairness
=============================================================================
