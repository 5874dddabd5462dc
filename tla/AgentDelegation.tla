-------------------------- MODULE AgentDelegation --------------------------
(***************************************************************************)
(* One chat session of the agent proxy (api/agent.py): the orchestrator    *)
(* delegates to one subagent at a time, the subagent works over several    *)
(* turns, and it hands control back by completing or by asking for help.   *)
(*                                                                         *)
(* Turns of a session hold state.lock, so they run one after the other;    *)
(* the steps of a turn are the code between two calls to opencode, and     *)
(* every call may fail.  opencode, the model behind it and the user are    *)
(* the environment: a reply carries any step, any signals, a card or a job.*)
(* A nudge (_maybe_nudge_subagent_stall) re-prompts once and is part of    *)
(* the reply it replaces.                                                  *)
(***************************************************************************)
EXTENDS Naturals, Sequences

CONSTANTS
    Targets,            \* _VALID_TARGETS
    Askers,             \* those whose persona has request_orchestrator_help
    Steps,              \* the workflow steps signal_phase names
    MaxConversations,   \* bound: subagent conversations opened in the session
    MaxFailures         \* bound: calls to opencode that fail

ASSUME TargetsAssumption == Askers \subseteq Targets
ASSUME BoundsAssumption  == MaxConversations \in Nat /\ MaxFailures \in Nat

Entry  == "entry"       \* the code's "": no step signalled
NoConv == 0

ASSUME StepsAssumption == Entry \notin Steps

VARIABLES
    convs,        \* subagent conversations in opencode, in order of creation
    subagent,     \* subagent_id, with its target subagent_target
    stash,        \* completed_subagents: per target, the one that stepped out
    stashStep,    \* completed_last_step, Entry where there is none
    lastStep,     \* last_signal_step
    pending,      \* <<pending_help_target, pending_help_producer>>, or <<>>
    suppressed,   \* suppressed_completion
    at,           \* the call the turn under way awaits; "idle": the lock is free
    genuine,      \* the turn is the job_complete of the subagent's deliverable
    asker,        \* {t} while the orchestrator answers t's help request
    handoff,      \* {the delegation about to be carried out}
    failures

turnVars == <<at, genuine, asker, handoff>>
vars == <<convs, subagent, stash, stashStep, lastStep, pending, suppressed,
          turnVars, failures>>

Signals == {"completed", "help"}

(* entered: the last reply came from the turn that handed control over.     *)
Conversation == [target: Targets, step: Steps \cup {Entry},
                 signals: SUBSET Signals, entered: BOOLEAN]

(* busy: the turn rendered a card or created a job.                         *)
Reply    == [step: Steps \cup {Entry}, signals: SUBSET Signals, busy: BOOLEAN]
NoParts  == [step |-> Entry, signals |-> {}, busy |-> FALSE]
Replies(t) == {r \in Reply : "help" \in r.signals => t \in Askers}

Delegation == [target: Targets, resume: BOOLEAN, auto: BOOLEAN]

Target(c) == convs[c].target
Heard(c, r, entered) ==
    [convs EXCEPT ![c] = [target |-> @.target, signals |-> r.signals, entered |-> entered,
                          step |-> IF r.step = Entry THEN @.step ELSE r.step]]
NewConversation(t, r) ==
    Append(convs, [target |-> t, step |-> r.step, signals |-> r.signals, entered |-> TRUE])

(* The proxy reads a reply back with a GET that yields no parts on failure. *)
MayFail(failing) == /\ failing => failures < MaxFailures
                    /\ failures' = IF failing THEN failures + 1 ELSE failures

-----------------------------------------------------------------------------
Init ==
    /\ convs = <<>> /\ subagent = NoConv
    /\ stash = [t \in Targets |-> NoConv]
    /\ stashStep = [t \in Targets |-> Entry]
    /\ lastStep = Entry /\ pending = <<>> /\ suppressed = FALSE
    /\ at = "idle" /\ genuine = FALSE /\ asker = {} /\ handoff = {}
    /\ failures = 0

EndTurn == at' = "idle" /\ genuine' = FALSE /\ asker' = {} /\ handoff' = {}

(* A turn gets the lock: to the active subagent, with the correction of a   *)
(* suppressed completion taken up at once, or to the orchestrator.          *)
BeginTurn ==
    /\ at = "idle"
    /\ \/ subagent # NoConv /\ at' = "subagent" /\ genuine' \in BOOLEAN /\ suppressed' = FALSE
       \/ subagent = NoConv /\ at' = "orchestrator" /\ UNCHANGED <<genuine, suppressed>>
    /\ UNCHANGED <<convs, subagent, stash, stashStep, lastStep, pending, asker, handoff, failures>>

(* The step cursor after the parts p of a turn.                             *)
Cursor(p) == IF p.step = Entry THEN lastStep ELSE p.step

(* A completion in a turn that also left a card or a job is not honoured,   *)
(* unless the turn is the job_complete of the deliverable itself.           *)
Premature(p) == "completed" \in p.signals /\ p.busy /\ ~genuine
Completes(p) == "completed" \in p.signals /\ ~Premature(p)
AsksHelp(p)  == "help" \in p.signals /\ ~Completes(p)

(* The subagent leaves: kept under its target, with its step, for a resume. *)
StepOut(p) ==
    /\ stash' = [stash EXCEPT ![Target(subagent)] = subagent]
    /\ lastStep' = Cursor(p)
    /\ stashStep' = [stashStep EXCEPT ![Target(subagent)] = Cursor(p)]
    /\ subagent' = NoConv

(* r is what the subagent replied, p what the GET gave.                     *)
SubagentAnswers(r, p) ==
    /\ at = "subagent"
    /\ r \in Replies(Target(subagent)) /\ p \in {r, NoParts}
    /\ MayFail(p # r)
    /\ convs' = Heard(subagent, r, FALSE)

FlagPremature_Silent(p) == suppressed' = suppressed
FlagPremature(p) == suppressed' = (suppressed \/ Premature(p))

(* A completion: the consumer that awaits this producer is resumed by the   *)
(* proxy itself; without one the orchestrator is told.                      *)
ReportsCompletion(r, p) ==
    /\ SubagentAnswers(r, p) /\ Completes(p)
    /\ StepOut(p)
    /\ genuine' = FALSE
    /\ IF pending # <<>> /\ pending[2] = Target(subagent)
       THEN /\ pending' = <<>>
            /\ handoff' = {[target |-> pending[1], resume |-> TRUE, auto |-> TRUE]}
            /\ at' = "delegate"
       ELSE at' = "orchestrator" /\ UNCHANGED <<pending, handoff>>
    /\ UNCHANGED <<suppressed, asker>>

RequestsHelp(r, p) ==
    /\ SubagentAnswers(r, p) /\ AsksHelp(p)
    /\ StepOut(p)
    /\ FlagPremature(p)
    /\ asker' = {Target(subagent)}
    /\ at' = "orchestrator" /\ genuine' = FALSE
    /\ UNCHANGED <<pending, handoff>>

(* Any other reply leaves the subagent in control.  The turn ends with      *)
(* another GET, q, from which _ensure_phase_signal moves the cursor.        *)
KeepsControl(r, p, q) ==
    /\ SubagentAnswers(r, p) /\ ~Completes(p) /\ ~AsksHelp(p)
    /\ q \in {p, r}
    /\ FlagPremature(p)
    /\ lastStep' = Cursor(q)
    /\ EndTurn
    /\ UNCHANGED <<subagent, stash, stashStep, pending>>

(* opencode no longer knows the conversation: a 404 tears the subagent and  *)
(* the armed resume down.                                                   *)
SubagentGone_KeepsHelp ==
    /\ at = "subagent" /\ MayFail(TRUE)
    /\ subagent' = NoConv /\ pending' = pending
    /\ EndTurn
    /\ UNCHANGED <<convs, stash, stashStep, lastStep, suppressed>>

SubagentGone ==
    /\ at = "subagent" /\ MayFail(TRUE)
    /\ subagent' = NoConv /\ pending' = <<>>
    /\ EndTurn
    /\ UNCHANGED <<convs, stash, stashStep, lastStep, suppressed>>

(* Any other failure (timeout, provider error), with the message delivered  *)
(* or not.  The correction BeginTurn took up is not put back.               *)
SubagentFails ==
    /\ at = "subagent" /\ MayFail(TRUE)
    /\ convs' \in {convs} \cup {Heard(subagent, r, FALSE) : r \in Replies(Target(subagent))}
    /\ EndTurn
    /\ UNCHANGED <<subagent, stash, stashStep, lastStep, pending, suppressed>>

(* The orchestrator delegates, or answers the user itself: a failed GET of  *)
(* its parts looks the same.                                                *)
OrchestratorDelegates(t, resume) ==
    /\ at = "orchestrator"
    /\ Len(convs) < MaxConversations \/ (resume /\ stash[t] # NoConv)
    /\ handoff' = {[target |-> t, resume |-> resume, auto |-> FALSE]}
    /\ at' = "delegate"
    /\ UNCHANGED <<convs, subagent, stash, stashStep, lastStep, pending, suppressed,
                   genuine, asker, failures>>

OrchestratorAnswers ==
    /\ at = "orchestrator"
    /\ EndTurn
    /\ UNCHANGED <<convs, subagent, stash, stashStep, lastStep, pending, suppressed, failures>>

OrchestratorFails ==
    /\ at = "orchestrator" /\ MayFail(TRUE)
    /\ EndTurn
    /\ UNCHANGED <<convs, subagent, stash, stashStep, lastStep, pending, suppressed>>

-----------------------------------------------------------------------------
Arm(t) == pending' = IF asker # {} /\ t \notin asker
                     THEN <<CHOOSE a \in asker : TRUE, t>> ELSE pending

(* Conversation c of target t takes over, its pointer at step.  A consumer  *)
(* resumed automatically that completes in this very turn (seen in the GET  *)
(* p) is released again: its id is stashed, its step is not.  Signals of    *)
(* any other hand-over turn are not looked at.                              *)
TakeOver(t, c, step, rest, p, q) ==
    LET released == "completed" \in p.signals /\ \E d \in handoff : d.auto
    IN  /\ subagent' = IF released THEN NoConv ELSE c
        /\ stash' = IF released THEN [rest EXCEPT ![t] = c] ELSE rest
        /\ stashStep' = [stashStep EXCEPT ![t] = Entry]
        /\ lastStep' = IF released \/ q.step = Entry THEN step ELSE q.step
        /\ Arm(t)

(* The stash is popped before the send; a fresh conversation starts with no *)
(* step, whatever the last subagent left.                                   *)
Popped_Kept(t) == stash
Popped(t) == [stash EXCEPT ![t] = NoConv]
FreshCursor_Residue == lastStep
FreshCursor == Entry

(* The delegation resumes t if it asks for it and t is stashed.             *)
Resuming(t) == \E d \in handoff : d.target = t /\ d.resume /\ stash[t] # NoConv
Starting(t) == (\E d \in handoff : d.target = t) /\ ~Resuming(t)

Resumes(t, r, p, q) ==
    /\ at = "delegate" /\ Resuming(t)
    /\ r \in Replies(t) /\ p \in {r, NoParts} /\ q \in {r, NoParts}
    /\ MayFail(p # r \/ q # r)
    /\ convs' = Heard(stash[t], r, TRUE)
    /\ TakeOver(t, stash[t], stashStep[t], Popped(t), p, q)
    /\ EndTurn
    /\ UNCHANGED suppressed

ResumeFails(t) ==
    /\ at = "delegate" /\ Resuming(t) /\ MayFail(TRUE)
    /\ convs' \in {convs} \cup {Heard(stash[t], r, TRUE) : r \in Replies(t)}
    /\ stash' = Popped(t)
    /\ lastStep' = stashStep[t]
    /\ stashStep' = [stashStep EXCEPT ![t] = Entry]
    /\ EndTurn
    /\ UNCHANGED <<subagent, pending, suppressed>>

Starts(t, r, p, q) ==
    /\ at = "delegate" /\ Starting(t) /\ Len(convs) < MaxConversations
    /\ r \in Replies(t) /\ p \in {r, NoParts} /\ q \in {r, NoParts}
    /\ MayFail(p # r \/ q # r)
    /\ convs' = NewConversation(t, r)
    /\ TakeOver(t, Len(convs) + 1, FreshCursor, stash, p, q)
    /\ EndTurn
    /\ UNCHANGED suppressed

(* The session is not created, or it is and the first message fails.        *)
StartFails(t) ==
    /\ at = "delegate" /\ Starting(t) /\ MayFail(TRUE)
    /\ \/ UNCHANGED <<convs, lastStep, stashStep>>
       \/ /\ Len(convs) < MaxConversations
          /\ convs' \in {NewConversation(t, r) : r \in Replies(t)}
          /\ lastStep' = FreshCursor /\ stashStep' = [stashStep EXCEPT ![t] = Entry]
    /\ EndTurn
    /\ UNCHANGED <<subagent, stash, pending, suppressed>>

-----------------------------------------------------------------------------
SubagentStep ==
    \/ \E r \in Reply : \E p \in {r, NoParts} :
          \/ ReportsCompletion(r, p)
          \/ RequestsHelp(r, p)
          \/ \E q \in {p, r} : KeepsControl(r, p, q)
    \/ SubagentGone
    \/ SubagentFails

OrchestratorStep ==
    \/ \E t \in Targets, resume \in BOOLEAN : OrchestratorDelegates(t, resume)
    \/ OrchestratorAnswers
    \/ OrchestratorFails

DelegateStep ==
    \E t \in Targets :
        \/ \E r \in Reply : \E p, q \in {r, NoParts} : Resumes(t, r, p, q) \/ Starts(t, r, p, q)
        \/ ResumeFails(t)
        \/ StartFails(t)

Next == BeginTurn \/ SubagentStep \/ OrchestratorStep \/ DelegateStep
Spec == Init /\ [][Next]_vars

-----------------------------------------------------------------------------
Conversations == DOMAIN convs
Stashed == {stash[t] : t \in Targets} \ {NoConv}

(* Shape of the state.  An armed resume never waits for the consumer itself.*)
TypeOK ==
    /\ convs \in Seq(Conversation)
    /\ subagent \in Conversations \cup {NoConv}
    /\ stash \in [Targets -> Conversations \cup {NoConv}]
    /\ stashStep \in [Targets -> Steps \cup {Entry}]
    /\ lastStep \in Steps \cup {Entry}
    /\ pending = <<>> \/ pending \in {p \in Targets \X Targets : p[1] # p[2]}
    /\ suppressed \in BOOLEAN /\ genuine \in BOOLEAN
    /\ at \in {"idle", "subagent", "orchestrator", "delegate"}
    /\ asker \in SUBSET Targets /\ \A a, b \in asker : a = b
    /\ handoff \in SUBSET Delegation /\ \A d, e \in handoff : d = e
    /\ failures \in 0..MaxFailures

(* A conversation is in one place: the active subagent is never stashed as  *)
(* well, and each stashed one lies under its own target; a resume after a   *)
(* detour can not put one history into two hands.                           *)
OneOwner ==
    /\ subagent \notin Stashed
    /\ \A t \in Targets : stash[t] # NoConv => Target(stash[t]) = t

(* While a resume is armed on a producer that can not itself ask for help   *)
(* (sdg), that producer is the active subagent, and the consumer lies in    *)
(* the stash with its help request unanswered: whatever fails on the way,   *)
(* the automatic resume wakes the conversation that is waiting.             *)
ConsumerWaits ==
    pending # <<>> /\ pending[2] \notin Askers =>
        /\ subagent # NoConv /\ Target(subagent) = pending[2]
        /\ stash[pending[1]] # NoConv
        /\ "help" \in convs[stash[pending[1]]].signals

(* A conversation is resumed at a step it signalled itself or at the entry, *)
(* never at the residue of the detour that ran in between (last_signal_step *)
(* is one field for all of them), if no call has failed.                    *)
PointerIsItsOwn ==
    \A t \in Targets :
        stash[t] # NoConv /\ failures = 0
            => stashStep[t] \in {Entry, convs[stash[t]].step}

(* Between turns, and with no failed call, a signal of the active subagent  *)
(* that was not acted on is a premature completion the next message will    *)
(* correct -- or came from the turn that handed control over, which nobody  *)
(* scans for signals.                                                       *)
SignalsAreAnswered ==
    at = "idle" /\ subagent # NoConv /\ failures = 0 /\ convs[subagent].signals # {}
        => convs[subagent].entered \/ suppressed

=============================================================================
