----------------------------- MODULE MCPlanBar -----------------------------
(* An instance of the progress bar, its properties, and two claims about it. *)
EXTENDS PlanBar

(* The agent opens a phase, works through it with and without a skill, asks  *)
(* for the held-out data, names a phase nobody can read, and keeps silent.   *)
MCReplies ==
  {<<>>,
   <<Call("get_model_pricing"), Call("get_job_detail")>>,
   <<Signal("sdg", "route"), Call("show_model_pricing"), Call("get_model_pricing")>>,
   <<Signal("sdg", "teacher-model"), Signal("sdg", "validate"), Call("create_sdg_job")>>,
   <<Signal("training", "validate"), Signal("eval", "held-out-ask-count")>>,
   <<Signal("sdg", "complete")>>,
   <<Signal(NoPhase, "route"), BadAsk, Ask("which model")>>,
   <<Ask("which model")>>}

-----------------------------------------------------------------------------
(* The calls of some messages, in order, and where the agent entered a      *)
(* phase: at a signal that names another than the signal before it.         *)
HeardIn(ms) == FlattenSeq([i \in DOMAIN ms |-> ms[i].tools])
Heard       == HeardIn(messages)

Changes(calls) ==
  LET signals == Where(calls, Counts)
  IN  {i \in signals : \E j \in signals :
         /\ j < i /\ calls[j].phase # calls[i].phase
         /\ \A k \in signals : k <= j \/ i <= k}

Label(c) == IF IsSignal(c)
            THEN IF Counts(c) THEN StepLabel(CollapseSkillStep(c.phase, c.step)) ELSE NoLabel
            ELSE ToolLabel(c.tool)

(* What was reached since the last of them. *)
Reached(calls) ==
  LET changes == Changes(calls)
      since   == {i \in DOMAIN calls : \A c \in changes : c <= i}
  IN  {Label(calls[i]) : i \in since} \ {NoLabel}

(* The messages after the latest turn that a finished job set off, and what *)
(* was reached in some calls from their first signal on: after such a turn  *)
(* the next signal opens a new run.                                         *)
Ends  == Where(messages, LAMBDA m : m.terminal)
Fresh == IF Ends = {} THEN messages ELSE SubSeq(messages, Latest(Ends) + 1, Len(messages))

Signalling(calls) ==
  {Label(calls[i]) : i \in {k \in DOMAIN calls : \E j \in 1 .. k : Counts(calls[j])}} \ {NoLabel}

(* The bar lists all that was reached in the run the agent is in, and        *)
(* nothing of the phases before, however often it went back and forth;      *)
(* where nothing was reached, the steps the phase always has.  What of the  *)
(* same phase's earlier run it may still list is the claim below.           *)
StepsAreOfThisPhase ==
  LET bar     == Bar
      reached == Reached(Heard)
      ofRun   == reached \intersect Signalling(HeardIn(Fresh))
  IN  bar # NoBar =>
        \/ ofRun = {} /\ Range(bar.steps) = Range(StaticSteps(bar.phase))
        \/ ofRun \subseteq Range(bar.steps) /\ Range(bar.steps) \subseteq reached

(* The bar had a phase before a message, and the message names no other.    *)
StaysIn(i) ==
  LET before == DerivePlan(SubSeq(messages, 1, i - 1))
  IN  before # NoBar /\ \A n \in Where(messages[i].tools, Counts) :
                            messages[i].tools[n].phase = before.phase

(* "Reset on a phase change OR a new run in the SAME phase after a terminal  *)
(* one -- otherwise a second same-phase run (e.g. a re-run SDG job) inherits *)
(* the finished run's completed steps": after a job's turn that stayed in   *)
(* its phase, the bar of the run that follows lists what was reached since. *)
NewRunStartsOver ==
  LET run == Signalling(HeardIn(Fresh))
  IN  Ends # {} /\ StaysIn(Latest(Ends)) /\ run # {} => Range(Bar.steps) \subseteq run

(* The bar is in the phase the agent last said it is in: neither a turn     *)
(* without a signal, nor one whose parts could not be fetched, nor a signal *)
(* the conversation held before puts it back (the comment in                *)
(* extractSessionData).                                                     *)
BarFollowsAgent == Bar.phase = said

(* A question the agent asks and the studio hears has a card below the       *)
(* user's last message, and no card follows the same card: neither a failed *)
(* call before it, nor the turn of a finished job that asks again what the  *)
(* user has yet to answer, hides or repeats it.                             *)
QuestionHasItsCard ==
  LET Card(i)  == PresentOptionsSignature(messages[i].tools)
      Below(i) == {k \in 1 .. i : \A j \in k + 1 .. i : messages[j].terminal}
  IN  \A i \in DOMAIN messages :
        /\ messages[i].asked # NoQuestion => \E k \in Below(i) : Card(k) = messages[i].asked
        /\ i - 1 \in Below(i) /\ Card(i) # NoQuestion => Card(i - 1) # Card(i)

(* "Set on a job-completion continuation turn, so the plan deriver can mark  *)
(* the current phase terminal even when the driver never emits a complete   *)
(* signal": after such a turn that stays in its phase no step is active.    *)
BarSettles ==
  messages # <<>> /\ Last(messages).terminal /\ StaysIn(Len(messages)) => Bar.at > Len(Bar.steps)
=============================================================================
