------------------------------ MODULE PlanBar ------------------------------
(***************************************************************************)
(* The progress bar of the chat (features/chat): the agent signals the      *)
(* phase and the step it is at by calling a tool, the chat collects the     *)
(* tool calls of a turn into a message (extractSessionData), and the bar is *)
(* derived from the messages each time they change (derivePlan).  A question *)
(* with options becomes a card, unless the card before asks the same        *)
(* (dedupeConsecutiveOptions).                                              *)
(*                                                                         *)
(* A step stands for its label.  The fallback to the phase tags of messages *)
(* (derivePhasePlan) is left out: a message that has a tag the fallback     *)
(* accepts also has the signal the tag was taken from.                      *)
(***************************************************************************)
EXTENDS Naturals, Sequences, FiniteSets, SequencesExt

CONSTANTS
  Replies,    \* what the agent may do in a turn: sequences of calls
  MaxTurns,   \* bound on the turns
  MaxJobs,    \* bound on the turns a finished job sets off
  MaxFaults   \* bound on fetches that fail and sessions that are lost

VARIABLES
  speaker,    \* who answers: the orchestrator, or the subagent of a phase
  history,    \* the messages of each speaker's conversation on the server
  lastStep,   \* the step each speaker signalled last (last_signal_step)
  messages,   \* the conversation in the studio: the answers, with the tools kept of
              \* each, whether a job set it off, and (history) what it asked
  said,       \* history: the phase the agent last said, and the studio heard, it is in
  faults

vars == <<speaker, history, lastStep, messages, said, faults>>

Phases   == {"sdg", "training", "eval"}
Speakers == {"orchestrator"} \union Phases
NoPhase  == "none"
NoStep   == ""

Signal(phase, step) == [tool |-> "signal_phase", phase |-> phase, step |-> step]
Call(tool)          == [tool |-> tool, phase |-> NoPhase, step |-> NoStep]

(* present_options: a question, or a call whose result is an error.         *)
NoQuestion == "none"
Ask(q)     == [tool |-> "present_options", phase |-> NoPhase, step |-> q]
BadAsk     == Ask(NoQuestion)

(* A signal whose result cannot be read has no phase, and does not count.    *)
IsSignal(c) == c.tool = "signal_phase"
Counts(c)   == IsSignal(c) /\ c.phase \in Phases

ASSUME PlanBarAssumption ==
  Replies \subseteq Seq([tool : STRING, phase : STRING, step : STRING])

-----------------------------------------------------------------------------
(* Calls and where they stand.                                               *)
Where(calls, P(_)) == {i \in DOMAIN calls : P(calls[i])}
Latest(at)         == CHOOSE i \in at : \A j \in at : j <= i

(* The calls of some tools, in their order. *)
Sifted(calls, tools) ==
  LET sifted[n \in 0 .. Len(calls)] ==
        IF n = 0 THEN <<>>
        ELSE IF calls[n].tool \in tools THEN Append(sifted[n - 1], calls[n]) ELSE sifted[n - 1]
  IN  sifted
Only(calls, tools) == Sifted(calls, tools)[Len(calls)]

-----------------------------------------------------------------------------
(* The steps of the phases, in the order the static plan shows them.         *)
PhaseSteps == <<"route", "gather", "validate", "complete">>
EvalSteps  == <<"understand-task", "eval-dataset", "how-much", "model-source", "metrics",
                "validate", "report", "complete">>
StaticSteps(phase) == IF phase = "eval" THEN EvalSteps ELSE PhaseSteps

Labelled == Range(PhaseSteps) \union Range(EvalSteps)
NoLabel  == "none"

(* Both parts of the held-out branch show as the dataset stage.             *)
StepLabel(step) ==
  CASE step \in {"held-out-ask-count", "held-out-request-help"} -> "eval-dataset"
    [] step \in Labelled -> step
    [] OTHER -> NoLabel

(* Tools that compare prices share a label; most tools have none.           *)
ToolLabel(tool) ==
  CASE tool \in {"get_model_pricing", "show_model_pricing"} -> "pricing"
    [] tool = "create_sdg_job" -> "submitting"
    [] tool = "get_job_detail" -> "status"
    [] OTHER -> NoLabel

(* The steps of a skill show as the gathering they belong to.               *)
CollapseSkillStep(phase, step) ==
  IF phase # "eval" /\ step # NoStep /\ step \notin Range(PhaseSteps) THEN "gather" ELSE step

-----------------------------------------------------------------------------
(* deriveDynamicPlan.                                                        *)
NoPlan == [phase |-> NoPhase, step |-> NoStep, labels |-> <<>>, ended |-> FALSE,
           changed |-> FALSE]

WithLabel(p, label) ==
  IF label = NoLabel \/ label \in Range(p.labels) THEN p
  ELSE [p EXCEPT !.labels = Append(@, label)]

(* Mutant: the steps of the phase before are kept. *)
NeverStartsOver(p, phase) == p.phase # NoPhase /\ p.ended

StartsOver(p, phase) == p.phase # NoPhase /\ (phase # p.phase \/ p.ended)

Signalled(p, c) ==
  LET step == CollapseSkillStep(c.phase, c.step)
      q == IF StartsOver(p, c.phase)
           THEN [p EXCEPT !.labels = <<>>, !.ended = FALSE,
                          !.changed = @ \/ c.phase # p.phase]
           ELSE p
  IN  WithLabel([q EXCEPT !.phase = c.phase, !.step = step], StepLabel(step))

WithCall(p, c) ==
  CASE Counts(c)                 -> Signalled(p, c)
    [] IsSignal(c) /\ ~Counts(c) -> p
    [] ~IsSignal(c)              -> WithLabel(p, ToolLabel(c.tool))

AfterCalls(p, calls) ==
  LET after[i \in 0 .. Len(calls)] == IF i = 0 THEN p ELSE WithCall(after[i - 1], calls[i])
  IN  after

(* The turn a finished job set off ends the phase it stays in.              *)
WithMessage(p, m) ==
  LET q == AfterCalls([p EXCEPT !.changed = FALSE], m.tools)[Len(m.tools)]
  IN  [q EXCEPT !.ended = @ \/ (m.terminal /\ ~q.changed)]

AfterMessages(ms) ==
  LET after[i \in 0 .. Len(ms)] == IF i = 0 THEN NoPlan ELSE WithMessage(after[i - 1], ms[i])
  IN  after
DynamicPlan(ms) == AfterMessages(ms)[Len(ms)]

(* The bar: the steps before "at" are completed, the one at it is active.    *)
(* With no step collected it shows the steps the phase always has.          *)
NoBar == [phase |-> NoPhase, steps |-> <<>>, at |-> 1]

ResolveStepIndex(steps, label) ==
  IF label \in Range(steps) THEN CHOOSE i \in DOMAIN steps : steps[i] = label ELSE 1

DerivePlan(ms) ==
  LET p     == DynamicPlan(ms)
      steps == IF p.labels = <<>> THEN StaticSteps(p.phase) ELSE p.labels
      at    == IF p.labels = <<>> THEN ResolveStepIndex(steps, StepLabel(p.step))
                                  ELSE Len(steps)
      done  == p.step = "complete" \/ p.ended
  IN  IF p.phase = NoPhase THEN NoBar
      ELSE [phase |-> p.phase, steps |-> steps, at |-> IF done THEN Len(steps) + 1 ELSE at]

(* What the view gets of a persisted message: useChat maps the messages     *)
(* before the bar is derived from them, and the map has no terminal.        *)
ToChatMessage(m) == [tools |-> m.tools, terminal |-> FALSE]

View(ms) == [i \in DOMAIN ms |-> ToChatMessage(ms[i])]
Bar      == DerivePlan(View(messages))

-----------------------------------------------------------------------------
(* A turn, from the server to the message.                                   *)

Init ==
  /\ speaker = "orchestrator"
  /\ history = [s \in Speakers |-> <<>>]
  /\ lastStep = [s \in Speakers |-> NoStep]
  /\ messages = <<>> /\ said = NoPhase /\ faults = 0

Fault(n) == faults + n <= MaxFaults /\ faults' = faults + n

(* The orchestrator hands over to a subagent, new or resumed, or gets        *)
(* control back.                                                            *)
HandOver ==
  /\ Len(messages) < MaxTurns
  /\ IF speaker = "orchestrator" THEN speaker' \in Phases ELSE speaker' = "orchestrator"
  /\ lastStep' \in {lastStep, [lastStep EXCEPT ![speaker'] = NoStep]}
  /\ UNCHANGED <<history, messages, said, faults>>

LastOf(calls, step) ==
  LET given == Where(calls, LAMBDA c : IsSignal(c) /\ c.step # NoStep)
  IN  IF given = {} THEN step ELSE calls[Latest(given)].step

(* _ensure_phase_signal: a subagent's turn that signals nothing, or whose   *)
(* parts the server could not fetch, is given a signal.                     *)
Backfill(calls, step) ==
  IF speaker = "orchestrator" \/ Where(calls, IsSignal) # {} THEN <<>>
  ELSE <<Signal(speaker, step)>>

(* Mutant: signals are collected from the whole conversation. *)
WholeHistory(ms) == FlattenSeq([i \in DOMAIN ms |-> ms[i].calls])

(* extractSessionData: the calls after the last message of the user.         *)
CurrentTurn(ms) ==
  LET users == Where(ms, LAMBDA m : m.user)
      from  == IF users = {} THEN 1 ELSE Latest(users) + 1
  IN  FlattenSeq([i \in 1 .. Len(ms) - from + 1 |-> ms[from + i - 1].calls])

(* The signals come first, then the calls the studio has a view for.  (A    *)
(* call made twice may be kept once: a label is shown once anyway.)         *)
UiTools == {"get_model_pricing", "show_model_pricing", "create_sdg_job", "present_options"}
Collected(calls) == Only(calls, {"signal_phase"}) \o Only(calls, UiTools)

-----------------------------------------------------------------------------
(* The card of a turn is the last question that can be read.                *)
PresentOptionsSignature(tools) ==
  LET asked == Where(tools, LAMBDA c : c.tool = "present_options" /\ c # BadAsk)
  IN  IF asked = {} THEN NoQuestion ELSE tools[Latest(asked)].step

WithoutOptions(tools) == Only(tools, {"signal_phase"} \union (UiTools \ {"present_options"}))

(* Mutant: an answer of the user between the two cards is overlooked. *)
RepeatsAny(tools, job) ==
  /\ messages # <<>>
  /\ PresentOptionsSignature(tools) = PresentOptionsSignature(Last(messages).tools)

(* The turn asks what the turn before asked, and the user said nothing: the *)
(* card is still there.  Every turn has a text, or failed and says so.      *)
RepeatsCard(tools, job) ==
  /\ job /\ messages # <<>>
  /\ PresentOptionsSignature(tools) = PresentOptionsSignature(Last(messages).tools)

DedupeConsecutiveOptions(tools, job) ==
  IF PresentOptionsSignature(tools) # NoQuestion /\ RepeatsCard(tools, job)
    THEN WithoutOptions(tools) ELSE tools

-----------------------------------------------------------------------------
(* A turn of the user, or the one a finished job sets off.                  *)
Turn(calls, blind, deaf, job) ==
  /\ Len(messages) < MaxTurns
  /\ job => Cardinality(Where(messages, LAMBDA m : m.terminal)) < MaxJobs
  /\ Fault((IF blind THEN 1 ELSE 0) + (IF deaf THEN 1 ELSE 0))
  /\ history' = [history EXCEPT ![speaker] =
                   @ \o <<[user |-> TRUE, calls |-> <<>>], [user |-> FALSE, calls |-> calls]>>]
  /\ LET seen == IF blind THEN <<>> ELSE calls
         step == LastOf(seen, lastStep[speaker])
     IN  /\ lastStep' = [lastStep EXCEPT ![speaker] = step]
         /\ \E got   \in {IF deaf THEN <<>> ELSE CurrentTurn(history'[speaker])} :
            \E tools \in {Backfill(seen, step) \o Collected(got)} :
              messages' = Append(messages,
                            [tools |-> DedupeConsecutiveOptions(tools, job), terminal |-> job,
                             asked |-> PresentOptionsSignature(tools)])
         /\ said' = LET heard == Where(calls, Counts)
                    IN  IF ~deaf /\ heard # {} THEN calls[Latest(heard)].phase
                        ELSE IF Backfill(seen, step) # <<>> THEN speaker ELSE said
  /\ UNCHANGED speaker

Turns == \E calls \in Replies : \E blind, deaf, job \in BOOLEAN : Turn(calls, blind, deaf, job)

(* A turn that fails leaves a message without calls.                        *)
TurnFails ==
  /\ Len(messages) < MaxTurns /\ Fault(1)
  /\ messages' = Append(messages, [tools |-> <<>>, terminal |-> FALSE, asked |-> NoQuestion])
  /\ UNCHANGED <<speaker, history, lastStep, said>>

(* The server loses the session; the conversation goes on in a new one.     *)
SessionDies ==
  /\ Len(messages) < MaxTurns /\ Fault(1)
  /\ speaker' = "orchestrator"
  /\ history' = [s \in Speakers |-> <<>>] /\ lastStep' = [s \in Speakers |-> NoStep]
  /\ UNCHANGED <<messages, said>>

Done == Len(messages) = MaxTurns /\ UNCHANGED vars

Next == HandOver \/ Turns \/ TurnFails \/ SessionDies \/ Done

Spec == Init /\ [][Next]_vars
=============================================================================
