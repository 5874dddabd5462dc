----------------------- MODULE AgentDelegation_proofs -----------------------
(***************************************************************************)
(* Proofs about AgentDelegation, for any targets, steps and bounds: one    *)
(* owner for every conversation, and the consumer that an armed resume     *)
(* will wake is waiting; where no call has failed, a conversation resumes  *)
(* at its own step, and no signal is left unanswered between turns.        *)
(***************************************************************************)
EXTENDS AgentDelegation, TLAPS

(* Where the turn stands fixes who is in control and what is on the way.    *)
Control ==
    /\ at = "subagent" => subagent # NoConv
    /\ at \in {"orchestrator", "delegate"} => subagent = NoConv
    /\ at \in {"idle", "subagent"} => asker = {}
    /\ at \in {"idle", "subagent", "orchestrator"} => handoff = {}
    /\ (\E d \in handoff : d.auto) => asker = {}

(* Who asked for help lies in the stash while the orchestrator answers.     *)
AskerWaits ==
    \A a \in asker : stash[a] # NoConv /\ "help" \in convs[stash[a]].signals

IInv == TypeOK /\ Control /\ OneOwner /\ AskerWaits /\ ConsumerWaits

-----------------------------------------------------------------------------
(* Hearing a reply changes the signals and the step of one conversation.    *)
LEMMA HeardFacts ==
    ASSUME TypeOK, NEW c \in DOMAIN convs, NEW r \in Reply, NEW e \in BOOLEAN
    PROVE  /\ Heard(c, r, e) \in Seq(Conversation)
           /\ DOMAIN Heard(c, r, e) = DOMAIN convs
           /\ Len(Heard(c, r, e)) = Len(convs)
           /\ \A d \in DOMAIN convs : Heard(c, r, e)[d].target = convs[d].target
           /\ \A d \in DOMAIN convs : d # c => Heard(c, r, e)[d] = convs[d]
           /\ Heard(c, r, e)[c].signals = r.signals
  <1> DEFINE new == [target |-> convs[c].target, signals |-> r.signals, entered |-> e,
                     step |-> IF r.step = Entry THEN convs[c].step ELSE r.step]
  <1>1. convs \in Seq(Conversation) /\ convs[c] \in Conversation  BY DEF TypeOK
  <1>2. new \in Conversation  BY <1>1 DEF Conversation, Reply
  <1>3. Heard(c, r, e) = [convs EXCEPT ![c] = new]  BY <1>1 DEF Heard
  <1>4. new.target = convs[c].target /\ new.signals = r.signals  OBVIOUS
  <1> HIDE DEF new
  <1> QED  BY <1>1, <1>2, <1>3, <1>4

(* A new conversation goes to the end; the others keep their places.        *)
LEMMA NewFacts ==
    ASSUME TypeOK, NEW t \in Targets, NEW r \in Reply
    PROVE  /\ NewConversation(t, r) \in Seq(Conversation)
           /\ Len(NewConversation(t, r)) = Len(convs) + 1
           /\ \A d \in DOMAIN convs : d \in DOMAIN NewConversation(t, r)
                                      /\ NewConversation(t, r)[d] = convs[d]
           /\ Len(convs) + 1 \in DOMAIN NewConversation(t, r)
           /\ NewConversation(t, r)[Len(convs) + 1].target = t
           /\ Len(convs) + 1 \notin DOMAIN convs /\ Len(convs) + 1 # NoConv
  <1> DEFINE new == [target |-> t, step |-> r.step, signals |-> r.signals, entered |-> TRUE]
  <1>1. convs \in Seq(Conversation)  BY DEF TypeOK
  <1>2. new \in Conversation /\ new.target = t  BY DEF Conversation, Reply
  <1>3. NewConversation(t, r) = Append(convs, new)  BY DEF NewConversation
  <1> HIDE DEF new
  <1> QED  BY <1>1, <1>2, <1>3 DEF NoConv

(* What every step leaves of the conversations: no target changes, and only *)
(* conversation c hears anything.                                           *)
Evolves(c) ==
    /\ convs' \in Seq(Conversation)
    /\ DOMAIN convs \subseteq DOMAIN convs'
    /\ \A d \in DOMAIN convs : convs'[d].target = convs[d].target
    /\ \A d \in DOMAIN convs : d # c => convs'[d] = convs[d]

Answered(r, p) ==
    /\ r \in Reply /\ p \in Reply /\ Cursor(p) \in Steps \cup {Entry}
    /\ "help" \in p.signals => Target(subagent) \in Askers
    /\ subagent \in DOMAIN convs /\ Target(subagent) \in Targets
    /\ Evolves(subagent)
    /\ convs'[subagent].signals = r.signals
    /\ failures' \in 0..MaxFailures

LEMMA HeardEvolves ==
    ASSUME TypeOK, NEW c \in DOMAIN convs, NEW r \in Reply, NEW e \in BOOLEAN,
           convs' = Heard(c, r, e)
    PROVE  Evolves(c) /\ c \in DOMAIN convs' /\ convs'[c].signals = r.signals
  <1>1. /\ convs' \in Seq(Conversation) /\ DOMAIN convs' = DOMAIN convs
        /\ \A d \in DOMAIN convs : convs'[d].target = convs[d].target
        /\ \A d \in DOMAIN convs : d # c => convs'[d] = convs[d]
        /\ convs'[c].signals = r.signals
    BY HeardFacts
  <1> QED  BY <1>1 DEF Evolves

LEMMA NoPartsIsAReply == NoParts \in Reply
  BY DEF NoParts, Reply

LEMMA FailuresBounded ==
    ASSUME TypeOK, NEW b \in BOOLEAN, MayFail(b)
    PROVE  failures' \in 0..MaxFailures
  BY BoundsAssumption DEF TypeOK, MayFail

(* The subagent's reply reaches its own conversation and no other.          *)
LEMMA AnsweredFacts ==
    ASSUME IInv, NEW r, NEW p, SubagentAnswers(r, p)
    PROVE  Answered(r, p)
  <1>1. TypeOK /\ subagent \in DOMAIN convs
    BY DEF IInv, Control, SubagentAnswers, TypeOK, Conversations
  <1>2. r \in Reply /\ p \in Reply  BY NoPartsIsAReply DEF SubagentAnswers, Replies
  <1>3. Cursor(p) \in Steps \cup {Entry}  BY <1>1, <1>2 DEF Cursor, Reply, TypeOK
  <1>4. "help" \in p.signals => Target(subagent) \in Askers
    BY DEF SubagentAnswers, Replies, NoParts
  <1>5. convs[subagent] \in Conversation  BY <1>1 DEF TypeOK
  <1>6. Target(subagent) \in Targets  BY <1>5 DEF Target, Conversation
  <1>7. failures' \in 0..MaxFailures  BY <1>1, FailuresBounded DEF SubagentAnswers
  <1>8. Evolves(subagent) /\ convs'[subagent].signals = r.signals
    BY <1>1, <1>2, HeardEvolves DEF SubagentAnswers
  <1> QED  BY <1>1, <1>2, <1>3, <1>4, <1>6, <1>7, <1>8 DEF Answered

-----------------------------------------------------------------------------
(* The subagent leaves, for the orchestrator or for the consumer resumed.   *)
LEMMA CompletionStep ==
    ASSUME IInv, NEW r, NEW p, ReportsCompletion(r, p)
    PROVE  IInv'
  <1> USE DEF ReportsCompletion
  <1>1. Answered(r, p)  BY AnsweredFacts
  <1>2. /\ TypeOK /\ at = "subagent" /\ asker = {} /\ handoff = {}
        /\ Completes(p) /\ StepOut(p)
    BY DEF IInv, Control, SubagentAnswers
  <1>3. TypeOK'
    <2>1. stash' \in [Targets -> Conversations' \cup {NoConv}]
      BY <1>1, <1>2 DEF TypeOK, Answered, Evolves, StepOut, Conversations
    <2>2. /\ stashStep' \in [Targets -> Steps \cup {Entry}]
          /\ lastStep' \in Steps \cup {Entry}
      BY <1>1, <1>2 DEF TypeOK, Answered, StepOut
    <2>3. pending' = <<>> \/ pending' \in {x \in Targets \X Targets : x[1] # x[2]}
      BY <1>2 DEF TypeOK
    <2>4. handoff' \in SUBSET Delegation /\ \A d, e \in handoff' : d = e
      <3> DEFINE back == [target |-> pending[1], resume |-> TRUE, auto |-> TRUE]
      <3>1. pending # <<>> => back \in Delegation  BY <1>2 DEF TypeOK, Delegation
      <3>2. handoff' = {} \/ (pending # <<>> /\ handoff' = {back})  BY <1>2
      <3> HIDE DEF back
      <3> QED  BY <3>1, <3>2
    <2> QED  BY <1>1, <1>2, <2>1, <2>2, <2>3, <2>4
             DEF TypeOK, Answered, Evolves, StepOut, Conversations
  <1>4. Control'  BY <1>2 DEF Control, StepOut
  <1>5. OneOwner'
    BY <1>1, <1>2 DEF IInv, TypeOK, OneOwner, Stashed, Target, Answered, Evolves, StepOut,
                      Conversations, NoConv
  <1>6. AskerWaits'  BY <1>2 DEF AskerWaits
  <1>7. ConsumerWaits'
    <2>1. pending # <<>> /\ pending[2] \notin Askers => pending[2] = Target(subagent)
      BY DEF IInv, ConsumerWaits
    <2>2. CASE pending' = <<>>  BY <2>2 DEF ConsumerWaits
    <2>3. CASE pending' = pending /\ ~(pending # <<>> /\ pending[2] = Target(subagent))
      BY <2>1, <2>3 DEF ConsumerWaits
    <2> QED  BY <2>2, <2>3
  <1> QED  BY <1>3, <1>4, <1>5, <1>6, <1>7 DEF IInv

LEMMA HelpStep ==
    ASSUME IInv, NEW r, NEW p, RequestsHelp(r, p)
    PROVE  IInv'
  <1> USE DEF RequestsHelp
  <1>1. Answered(r, p)  BY AnsweredFacts
  <1>2. /\ TypeOK /\ at = "subagent" /\ asker = {} /\ handoff = {}
        /\ "help" \in p.signals /\ StepOut(p)
    BY DEF IInv, Control, SubagentAnswers, AsksHelp
  <1>3. "help" \in r.signals /\ subagent # NoConv
    BY <1>2 DEF SubagentAnswers, NoParts, IInv, Control
  <1>4. TypeOK'
    <2>1. stash' \in [Targets -> Conversations' \cup {NoConv}]
      BY <1>1, <1>2 DEF TypeOK, Answered, Evolves, StepOut, Conversations
    <2>2. /\ stashStep' \in [Targets -> Steps \cup {Entry}]
          /\ lastStep' \in Steps \cup {Entry}
      BY <1>1, <1>2 DEF TypeOK, Answered, StepOut
    <2>3. suppressed' \in BOOLEAN  BY <1>2 DEF FlagPremature
    <2> QED  BY <1>1, <1>2, <2>1, <2>2, <2>3
             DEF TypeOK, Answered, Evolves, StepOut, Conversations
  <1>5. Control'  BY <1>2 DEF Control, StepOut
  <1>6. OneOwner'
    BY <1>1, <1>2 DEF IInv, TypeOK, OneOwner, Stashed, Target, Answered, Evolves, StepOut,
                      Conversations, NoConv
  <1>7. AskerWaits'
    BY <1>1, <1>2, <1>3 DEF AskerWaits, Answered, StepOut, TypeOK
  <1>8. ConsumerWaits'
    <2>1. pending # <<>> => pending[2] \in Askers
      BY <1>1, <1>2 DEF IInv, ConsumerWaits, Answered
    <2> QED  BY <2>1 DEF ConsumerWaits
  <1> QED  BY <1>4, <1>5, <1>6, <1>7, <1>8 DEF IInv

(* A step in which only the active subagent hears anything and that leaves  *)
(* the books alone.                                                         *)
LEMMA StaysStep ==
    ASSUME IInv, subagent # NoConv, Evolves(subagent), EndTurn,
           lastStep' \in Steps \cup {Entry}, suppressed' \in BOOLEAN,
           failures' \in 0..MaxFailures, UNCHANGED <<subagent, stash, stashStep, pending>>
    PROVE  IInv'
  <1>1. TypeOK'  BY DEF IInv, TypeOK, Evolves, EndTurn, Conversations
  <1>2. Control'  BY DEF Control, EndTurn
  <1>3. OneOwner'
    BY DEF IInv, TypeOK, OneOwner, Stashed, Target, Evolves, Conversations, NoConv
  <1>4. AskerWaits'  BY DEF AskerWaits, EndTurn
  <1>5. ConsumerWaits'
    <2> SUFFICES ASSUME pending # <<>>, pending[2] \notin Askers
                 PROVE  ConsumerWaits'
      BY DEF ConsumerWaits
    <2>1. pending[1] \in Targets  BY DEF IInv, TypeOK
    <2>2. stash[pending[1]] \in DOMAIN convs /\ stash[pending[1]] # subagent
      BY <2>1 DEF IInv, TypeOK, OneOwner, Stashed, ConsumerWaits, Conversations
    <2>3. subagent \in DOMAIN convs  BY DEF IInv, TypeOK, Conversations
    <2> QED  BY <2>2, <2>3 DEF IInv, ConsumerWaits, Target, Evolves
  <1> QED  BY <1>1, <1>2, <1>3, <1>4, <1>5 DEF IInv

(* A turn that ends without a subagent: nobody awaits a producer that could *)
(* not have asked for help itself.                                          *)
LEMMA LeavesStep ==
    ASSUME IInv, NEW c, Evolves(c), EndTurn, subagent' = NoConv,
           stash' \in [Targets -> Conversations \cup {NoConv}],
           \A t \in Targets : stash'[t] \in {stash[t], NoConv},
           stashStep' \in [Targets -> Steps \cup {Entry}], lastStep' \in Steps \cup {Entry},
           suppressed' \in BOOLEAN, failures' \in 0..MaxFailures,
           pending' = <<>> \/ (pending' = pending /\ subagent = NoConv)
    PROVE  IInv'
  <1>1. TypeOK'  BY DEF IInv, TypeOK, Evolves, EndTurn, Conversations
  <1>2. Control'  BY DEF Control, EndTurn
  <1>3. OneOwner'
    BY DEF IInv, TypeOK, OneOwner, Stashed, Target, Evolves, Conversations, NoConv
  <1>4. AskerWaits'  BY DEF AskerWaits, EndTurn
  <1>5. ConsumerWaits'  BY DEF IInv, ConsumerWaits
  <1> QED  BY <1>1, <1>2, <1>3, <1>4, <1>5 DEF IInv

(* Conversation c of target t takes control: it lies in no other place, and *)
(* if the turn answers a help request, the one who asked still waits.       *)
LEMMA TakeOverStep ==
    ASSUME IInv, at = "delegate", NEW t \in Targets, \E d \in handoff : d.target = t,
           NEW c, Evolves(c), c \in DOMAIN convs', convs'[c].target = t, c # NoConv,
           NEW step \in Steps \cup {Entry},
           NEW rest \in [Targets -> Conversations \cup {NoConv}],
           rest[t] # c, \A u \in Targets : rest[u] \in {stash[u], NoConv},
           \A u \in Targets \ {t} : rest[u] = stash[u] /\ stash[u] # c,
           NEW p \in Reply, NEW q \in Reply, TakeOver(t, c, step, rest, p, q),
           EndTurn, suppressed' = suppressed, failures' \in 0..MaxFailures
    PROVE  IInv'
  <1> DEFINE released == "completed" \in p.signals /\ \E d \in handoff : d.auto
  <1>1. /\ subagent' = IF released THEN NoConv ELSE c
        /\ stash' = IF released THEN [rest EXCEPT ![t] = c] ELSE rest
        /\ stashStep' = [stashStep EXCEPT ![t] = Entry]
        /\ lastStep' \in Steps \cup {Entry}
    BY DEF TakeOver, Reply
  <1>2. TypeOK /\ Control /\ OneOwner /\ subagent = NoConv  BY DEF IInv, Control
  <1>3. \/ pending' = pending
        \/ \E a \in asker : a # t /\ pending' = <<a, t>>
    BY <1>2 DEF TakeOver, Arm
  <1>4. \A u \in Targets : stash[u] \in DOMAIN convs \/ stash[u] = NoConv
    BY <1>2 DEF TypeOK, Conversations
  <1> HIDE DEF released
  <1>5. TypeOK'
    <2>1. stash' \in [Targets -> Conversations' \cup {NoConv}]
      BY <1>1 DEF Evolves, Conversations
    <2>2. pending' = <<>> \/ pending' \in {x \in Targets \X Targets : x[1] # x[2]}
      BY <1>2, <1>3 DEF TypeOK
    <2> QED  BY <1>1, <1>2, <2>1, <2>2 DEF TypeOK, Evolves, EndTurn, Conversations
  <1>6. Control'  BY DEF Control, EndTurn
  <1>7. OneOwner'
    <2>1. \A u \in Targets \ {t} : stash'[u] = stash[u]  BY <1>1
    <2>2. stash'[t] \in {rest[t], c} /\ (stash'[t] = c => subagent' = NoConv)
      BY <1>1
    <2>3. \A u \in Targets : rest[u] # NoConv => convs'[rest[u]].target = u
      BY <1>2, <1>4 DEF OneOwner, Target, Evolves
    <2>4. \A u \in Targets : stash'[u] # NoConv => convs'[stash'[u]].target = u
      BY <1>1, <2>3
    <2>5. \A u \in Targets : stash'[u] = c => subagent' = NoConv
      BY <2>1, <2>2
    <2> QED  BY <1>1, <2>4, <2>5 DEF OneOwner, Stashed, Target
  <1>8. AskerWaits'  BY DEF AskerWaits, EndTurn
  <1>9. ConsumerWaits'
    <2>1. CASE pending' = pending
      BY <1>2, <2>1 DEF IInv, ConsumerWaits
    <2>2. CASE \E a \in asker : a # t /\ pending' = <<a, t>>
      <3>1. PICK a \in asker : a # t /\ pending' = <<a, t>>  BY <2>2
      <3>2. a \in Targets /\ stash[a] \in DOMAIN convs /\ stash[a] # c
            /\ "help" \in convs[stash[a]].signals
        BY <1>2, <1>4, <3>1 DEF IInv, AskerWaits, TypeOK
      <3>3. ~released  BY <1>2, <3>1 DEF Control, released
      <3>4. subagent' = c /\ stash'[a] = stash[a]  BY <1>1, <3>1, <3>2, <3>3
      <3>5. convs'[stash[a]] = convs[stash[a]]  BY <3>2 DEF Evolves
      <3>6. pending'[1] = a /\ pending'[2] = t  BY <3>1
      <3>7. subagent' # NoConv /\ convs'[subagent'].target = t  BY <3>4
      <3>8. stash'[a] # NoConv /\ "help" \in convs'[stash'[a]].signals
        BY <1>2, <3>1, <3>4, <3>5 DEF IInv, AskerWaits
      <3> QED  BY <3>6, <3>7, <3>8 DEF ConsumerWaits, Target
    <2> QED  BY <1>3, <2>1, <2>2
  <1> QED  BY <1>5, <1>6, <1>7, <1>8, <1>9 DEF IInv

-----------------------------------------------------------------------------
LEMMA KeepsControlStep ==
    ASSUME IInv, NEW r, NEW p, NEW q, KeepsControl(r, p, q)
    PROVE  IInv'
  <1> USE DEF KeepsControl
  <1>1. Answered(r, p)  BY AnsweredFacts
  <1>2. q \in Reply /\ TypeOK  BY <1>1 DEF Answered, IInv
  <1>3. lastStep' \in Steps \cup {Entry}  BY <1>2 DEF Cursor, Reply, TypeOK
  <1>4. suppressed' \in BOOLEAN  BY DEF FlagPremature
  <1>5. subagent # NoConv  BY DEF SubagentAnswers, IInv, Control
  <1> QED  BY <1>1, <1>3, <1>4, <1>5, StaysStep DEF Answered

LEMMA SubagentGoneStep ==
    ASSUME IInv, SubagentGone
    PROVE  IInv'
  <1> USE DEF SubagentGone
  <1>1. TypeOK /\ failures' \in 0..MaxFailures  BY FailuresBounded DEF IInv
  <1>2. Evolves(subagent)  BY <1>1 DEF TypeOK, Evolves
  <1> QED  BY <1>1, <1>2, LeavesStep DEF TypeOK

LEMMA SubagentFailsStep ==
    ASSUME IInv, SubagentFails
    PROVE  IInv'
  <1> USE DEF SubagentFails
  <1>1. TypeOK /\ failures' \in 0..MaxFailures  BY FailuresBounded DEF IInv
  <1>2. subagent # NoConv /\ subagent \in DOMAIN convs
    BY DEF IInv, Control, TypeOK, Conversations
  <1>3. Evolves(subagent)
    <2>1. CASE convs' = convs  BY <1>1, <2>1 DEF TypeOK, Evolves
    <2>2. CASE \E r \in Replies(Target(subagent)) : convs' = Heard(subagent, r, FALSE)
      BY <1>1, <1>2, <2>2, HeardEvolves DEF Replies
    <2> QED  BY <2>1, <2>2
  <1> QED  BY <1>1, <1>2, <1>3, StaysStep DEF TypeOK

LEMMA OrchestratorSteps ==
    ASSUME IInv, OrchestratorStep
    PROVE  IInv'
  <1>0. ASSUME UNCHANGED convs PROVE Evolves(NoConv)  BY <1>0 DEF IInv, TypeOK, Evolves
  <1>1. ASSUME NEW t \in Targets, NEW resume \in BOOLEAN, OrchestratorDelegates(t, resume)
        PROVE  IInv'
    <2> USE <1>1 DEF OrchestratorDelegates
    <2> DEFINE d == [target |-> t, resume |-> resume, auto |-> FALSE]
    <2>1. d \in Delegation /\ d.auto = FALSE  BY DEF Delegation
    <2>2. handoff' = {d}  OBVIOUS
    <2> HIDE DEF d
    <2>3. TypeOK'  BY <2>1, <2>2 DEF IInv, TypeOK, Conversations
    <2>4. Control'  BY <2>1, <2>2 DEF IInv, Control
    <2>5. OneOwner' /\ AskerWaits' /\ ConsumerWaits'
      BY DEF IInv, OneOwner, Stashed, Target, AskerWaits, ConsumerWaits
    <2> QED  BY <2>3, <2>4, <2>5 DEF IInv
  <1>2. CASE OrchestratorAnswers
    BY <1>0, <1>2, LeavesStep DEF OrchestratorAnswers, IInv, Control, TypeOK
  <1>3. CASE OrchestratorFails
    BY <1>0, <1>3, LeavesStep, FailuresBounded DEF OrchestratorFails, IInv, Control, TypeOK
  <1> QED  BY <1>1, <1>2, <1>3 DEF OrchestratorStep

(* A stashed conversation, its step, and who else may be in the stash.      *)
LEMMA StashedFacts ==
    ASSUME IInv, NEW t \in Targets, Resuming(t)
    PROVE  /\ stash[t] \in DOMAIN convs /\ stash[t] # NoConv
           /\ convs[stash[t]].target = t
           /\ \A u \in Targets \ {t} : stash[u] # stash[t]
           /\ stashStep[t] \in Steps \cup {Entry}
           /\ Popped(t) \in [Targets -> Conversations \cup {NoConv}]
           /\ Popped(t)[t] = NoConv /\ \A u \in Targets \ {t} : Popped(t)[u] = stash[u]
  BY DEF IInv, TypeOK, OneOwner, Stashed, Target, Resuming, Popped, Conversations

LEMMA ResumesStep ==
    ASSUME IInv, NEW t \in Targets, NEW r \in Reply, NEW p, NEW q, Resumes(t, r, p, q)
    PROVE  IInv'
  <1> USE DEF Resumes
  <1>1. TypeOK /\ failures' \in 0..MaxFailures  BY FailuresBounded DEF IInv
  <1>2. p \in Reply /\ q \in Reply  BY NoPartsIsAReply
  <1>3. Evolves(stash[t]) /\ stash[t] \in DOMAIN convs' /\ convs'[stash[t]].target = t
    <2>1. stash[t] \in DOMAIN convs /\ convs[stash[t]].target = t  BY StashedFacts
    <2>2. Evolves(stash[t]) /\ stash[t] \in DOMAIN convs'  BY <1>1, <2>1, HeardEvolves
    <2> QED  BY <2>1, <2>2 DEF Evolves
  <1>4. \E d \in handoff : d.target = t  BY DEF Resuming
  <1> QED  BY <1>1, <1>2, <1>3, <1>4, StashedFacts, TakeOverStep

LEMMA ResumeFailsStep ==
    ASSUME IInv, NEW t \in Targets, ResumeFails(t)
    PROVE  IInv'
  <1> USE DEF ResumeFails
  <1>1. TypeOK /\ failures' \in 0..MaxFailures /\ subagent = NoConv
    BY FailuresBounded DEF IInv, Control
  <1>2. Evolves(stash[t])
    <2>1. CASE convs' = convs  BY <1>1, <2>1 DEF TypeOK, Evolves
    <2>2. CASE \E r \in Replies(t) : convs' = Heard(stash[t], r, TRUE)
      <3>1. stash[t] \in DOMAIN convs  BY StashedFacts
      <3> QED  BY <1>1, <2>2, <3>1, HeardEvolves DEF Replies
    <2> QED  BY <2>1, <2>2
  <1>3. /\ stash' \in [Targets -> Conversations \cup {NoConv}]
        /\ \A u \in Targets : stash'[u] \in {stash[u], NoConv}
        /\ lastStep' \in Steps \cup {Entry}
    BY StashedFacts
  <1>4. stashStep' \in [Targets -> Steps \cup {Entry}]  BY <1>1 DEF TypeOK
  <1> QED  BY <1>1, <1>2, <1>3, <1>4, LeavesStep DEF TypeOK

LEMMA StartsStep ==
    ASSUME IInv, NEW t \in Targets, NEW r \in Reply, NEW p, NEW q, Starts(t, r, p, q)
    PROVE  IInv'
  <1> USE DEF Starts
  <1> DEFINE c == Len(convs) + 1
  <1>1. TypeOK /\ failures' \in 0..MaxFailures  BY FailuresBounded DEF IInv
  <1>2. p \in Reply /\ q \in Reply  BY NoPartsIsAReply
  <1>3. /\ Evolves(c) /\ c \in DOMAIN convs' /\ convs'[c].target = t
        /\ c \notin DOMAIN convs /\ c # NoConv
    BY <1>1, NewFacts DEF Evolves
  <1>4. stash \in [Targets -> Conversations \cup {NoConv}]  BY <1>1 DEF TypeOK
  <1>5. \A u \in Targets : stash[u] # c  BY <1>3, <1>4 DEF Conversations
  <1>6. \E d \in handoff : d.target = t  BY DEF Starting
  <1>7. TakeOver(t, c, Entry, stash, p, q)  BY DEF FreshCursor
  <1> HIDE DEF c
  <1> QED  BY <1>1, <1>2, <1>3, <1>4, <1>5, <1>6, <1>7, TakeOverStep

LEMMA StartFailsStep ==
    ASSUME IInv, NEW t \in Targets, StartFails(t)
    PROVE  IInv'
  <1> USE DEF StartFails
  <1>1. TypeOK /\ failures' \in 0..MaxFailures /\ subagent = NoConv
    BY FailuresBounded DEF IInv, Control
  <1>2. Evolves(NoConv)
    <2>1. CASE convs' = convs  BY <1>1, <2>1 DEF TypeOK, Evolves
    <2>2. CASE \E r \in Replies(t) : convs' = NewConversation(t, r)
      BY <1>1, <2>2, NewFacts DEF Evolves, Replies
    <2> QED  BY <2>1, <2>2
  <1>3. lastStep' \in Steps \cup {Entry} /\ stashStep' \in [Targets -> Steps \cup {Entry}]
    BY <1>1 DEF TypeOK, FreshCursor
  <1> QED  BY <1>1, <1>2, <1>3, LeavesStep DEF TypeOK

LEMMA InvariantStep == IInv /\ [Next]_vars => IInv'
  <1> SUFFICES ASSUME IInv, [Next]_vars PROVE IInv'
    OBVIOUS
  <1>1. CASE BeginTurn
    <2>1. TypeOK'  BY <1>1 DEF BeginTurn, IInv, TypeOK, Conversations
    <2>2. Control'  BY <1>1 DEF BeginTurn, IInv, Control
    <2>3. OneOwner' /\ AskerWaits' /\ ConsumerWaits'
      BY <1>1 DEF BeginTurn, IInv, OneOwner, Stashed, Target, AskerWaits, ConsumerWaits
    <2> QED  BY <2>1, <2>2, <2>3 DEF IInv
  <1>2. CASE SubagentStep
    BY <1>2, CompletionStep, HelpStep, KeepsControlStep, SubagentGoneStep, SubagentFailsStep
    DEF SubagentStep
  <1>3. CASE OrchestratorStep  BY <1>3, OrchestratorSteps
  <1>4. CASE DelegateStep
    BY <1>4, ResumesStep, StartsStep, ResumeFailsStep, StartFailsStep DEF DelegateStep
  <1>5. CASE UNCHANGED vars
    BY <1>5 DEF vars, turnVars, IInv, TypeOK, Control, OneOwner, Stashed, Target, AskerWaits,
                ConsumerWaits, Conversations
  <1> QED  BY <1>1, <1>2, <1>3, <1>4, <1>5 DEF Next

LEMMA InvariantInit == Init => IInv
  <1> SUFFICES ASSUME Init PROVE IInv
    OBVIOUS
  <1>1. TypeOK
    <2>1. convs \in Seq(Conversation)  BY DEF Init
    <2>2. stash \in [Targets -> Conversations \cup {NoConv}]
          /\ stashStep \in [Targets -> Steps \cup {Entry}]
      BY DEF Init
    <2>3. pending = <<>>  BY DEF Init
    <2>4. /\ subagent \in Conversations \cup {NoConv} /\ lastStep \in Steps \cup {Entry}
          /\ suppressed \in BOOLEAN /\ genuine \in BOOLEAN
          /\ at \in {"idle", "subagent", "orchestrator", "delegate"}
          /\ asker \in SUBSET Targets /\ \A a, b \in asker : a = b
          /\ handoff \in SUBSET Delegation /\ \A d, e \in handoff : d = e
          /\ failures \in 0..MaxFailures
      <3>1. /\ subagent = NoConv /\ lastStep = Entry /\ suppressed = FALSE /\ genuine = FALSE
            /\ at = "idle" /\ asker = {} /\ handoff = {} /\ failures = 0
        BY DEF Init
      <3>2. suppressed \in BOOLEAN /\ genuine \in BOOLEAN  BY <3>1
      <3>3. failures \in 0..MaxFailures  BY <3>1, BoundsAssumption
      <3>4. asker \in SUBSET Targets /\ \A a, b \in asker : a = b  BY <3>1
      <3>5. handoff \in SUBSET Delegation /\ \A d, e \in handoff : d = e  BY <3>1
      <3> QED  BY <3>1, <3>2, <3>3, <3>4, <3>5
    <2> QED  BY <2>1, <2>2, <2>3, <2>4 DEF TypeOK
  <1>2. Control  BY DEF Init, Control
  <1>3. OneOwner  BY DEF Init, OneOwner, Stashed
  <1>4. AskerWaits /\ ConsumerWaits  BY DEF Init, AskerWaits, ConsumerWaits
  <1> QED  BY <1>1, <1>2, <1>3, <1>4 DEF IInv

(* The books of _handle_subagent_message and _maybe_delegate are well       *)
(* formed in every reachable state, whatever the agents say and whichever   *)
(* calls fail.                                                              *)
THEOREM TypeCorrect == Spec => []TypeOK
  <1>1. IInv => TypeOK  BY DEF IInv
  <1> QED  BY <1>1, InvariantInit, InvariantStep, PTL DEF Spec

(* One conversation is never both in control and stashed, nor stashed for   *)
(* another target: completed_subagents is popped before every resume.       *)
THEOREM ConversationsHaveOneOwner == Spec => []OneOwner
  <1>1. IInv => OneOwner  BY DEF IInv
  <1> QED  BY <1>1, InvariantInit, InvariantStep, PTL DEF Spec

(* The automatic resume always wakes a conversation that is waiting for it: *)
(* an armed pending_help_target has its request unanswered for as long as   *)
(* its producer, one that can not ask for help itself, is at work.          *)
THEOREM ArmedConsumerWaits == Spec => []ConsumerWaits
  <1>1. IInv => ConsumerWaits  BY DEF IInv
  <1> QED  BY <1>1, InvariantInit, InvariantStep, PTL DEF Spec

-----------------------------------------------------------------------------
(* Where no call has failed, the proxy has seen every part of every reply,  *)
(* so its cursor stands where the active conversation last signalled, or at *)
(* the entry, and what it keeps with a stashed one is that cursor.          *)

Pointers ==
    failures = 0 =>
        /\ PointerIsItsOwn
        /\ subagent # NoConv => lastStep \in {Entry, convs[subagent].step}

(* The same, read off one step: nothing fails in it.                        *)
PointersNext ==
    /\ \A t \in Targets : stash'[t] # NoConv => stashStep'[t] \in {Entry, convs'[stash'[t]].step}
    /\ subagent' # NoConv => lastStep' \in {Entry, convs'[subagent'].step}

LEMMA NothingFailed ==
    ASSUME TypeOK, NEW b \in BOOLEAN, MayFail(b), failures' = 0
    PROVE  failures = 0 /\ b = FALSE
  BY DEF TypeOK, MayFail

LEMMA HeardStep ==
    ASSUME TypeOK, NEW c \in DOMAIN convs, NEW r \in Reply, NEW e \in BOOLEAN,
           convs' = Heard(c, r, e)
    PROVE  /\ convs'[c].step = IF r.step = Entry THEN convs[c].step ELSE r.step
           /\ convs'[c].signals = r.signals /\ convs'[c].entered = e
           /\ \A d \in DOMAIN convs : d # c => convs'[d] = convs[d]
  <1> DEFINE new == [target |-> convs[c].target, signals |-> r.signals, entered |-> e,
                     step |-> IF r.step = Entry THEN convs[c].step ELSE r.step]
  <1>1. convs \in Seq(Conversation)  BY DEF TypeOK
  <1>2. convs' = [convs EXCEPT ![c] = new]  BY <1>1 DEF Heard
  <1>3. /\ new.step = IF r.step = Entry THEN convs[c].step ELSE r.step
        /\ new.signals = r.signals /\ new.entered = e
    OBVIOUS
  <1> HIDE DEF new
  <1>4. convs'[c] = new  BY <1>1, <1>2
  <1>5. \A d \in DOMAIN convs : d # c => convs'[d] = convs[d]  BY <1>1, <1>2
  <1> QED  BY <1>3, <1>4, <1>5

LEMMA NewStep ==
    ASSUME TypeOK, NEW t \in Targets, NEW r \in Reply, convs' = NewConversation(t, r)
    PROVE  /\ convs'[Len(convs) + 1].step = r.step
           /\ convs'[Len(convs) + 1].entered = TRUE
           /\ \A d \in DOMAIN convs : convs'[d] = convs[d]
  <1> DEFINE new == [target |-> t, step |-> r.step, signals |-> r.signals, entered |-> TRUE]
  <1>1. convs \in Seq(Conversation)  BY DEF TypeOK
  <1>2. convs' = Append(convs, new)  BY DEF NewConversation
  <1>3. new.step = r.step /\ new.entered = TRUE  OBVIOUS
  <1> HIDE DEF new
  <1>4. convs'[Len(convs) + 1] = new  BY <1>1, <1>2
  <1>5. \A d \in DOMAIN convs : convs'[d] = convs[d]  BY <1>1, <1>2
  <1> QED  BY <1>3, <1>4, <1>5

(* Any other step: what is active and what is stashed stay as they were.    *)
LEMMA PointersStay ==
    ASSUME IInv, Pointers, UNCHANGED <<convs, subagent, stash, stashStep, lastStep, failures>>
    PROVE  Pointers'
  BY DEF Pointers, PointerIsItsOwn

(* A subagent's answer is heard in its own conversation, and moves the      *)
(* cursor the way it moves that conversation.                               *)
LEMMA AnswerPointers ==
    ASSUME IInv, Pointers, NEW r, NEW p, SubagentAnswers(r, p), failures' = 0
    PROVE  /\ failures = 0 /\ p = r /\ r \in Reply
           /\ subagent \in DOMAIN convs /\ Target(subagent) \in Targets
           /\ Cursor(r) \in {Entry, convs'[subagent].step}
           /\ convs'[subagent].signals = r.signals
           /\ \A t \in Targets : stash[t] # NoConv =>
                stash[t] # subagent /\ stashStep[t] \in {Entry, convs'[stash[t]].step}
  <1>1. TypeOK /\ OneOwner /\ at = "subagent" /\ subagent # NoConv /\ subagent \in DOMAIN convs
    BY DEF IInv, Control, SubagentAnswers, TypeOK, Conversations
  <1>2. failures = 0 /\ p = r /\ r \in Reply
    BY <1>1, NothingFailed DEF SubagentAnswers, Replies
  <1>3. /\ convs'[subagent].step = IF r.step = Entry THEN convs[subagent].step ELSE r.step
        /\ convs'[subagent].signals = r.signals
        /\ \A d \in DOMAIN convs : d # subagent => convs'[d] = convs[d]
    BY <1>1, <1>2, HeardStep DEF SubagentAnswers
  <1>4. Target(subagent) \in Targets  BY AnsweredFacts DEF Answered
  <1>5. PointerIsItsOwn /\ lastStep \in {Entry, convs[subagent].step}
    BY <1>1, <1>2 DEF Pointers
  <1>6. Cursor(r) \in {Entry, convs'[subagent].step}
    BY <1>3, <1>5 DEF Cursor
  <1>7. ASSUME NEW t \in Targets, stash[t] # NoConv
        PROVE  stash[t] # subagent /\ stashStep[t] \in {Entry, convs'[stash[t]].step}
    <2>1. stash[t] \in DOMAIN convs  BY <1>1, <1>7 DEF TypeOK, Conversations
    <2>2. stash[t] # subagent  BY <1>1, <1>7 DEF OneOwner, Stashed
    <2>3. stashStep[t] \in {Entry, convs[stash[t]].step}
      BY <1>2, <1>5, <1>7 DEF PointerIsItsOwn
    <2> QED  BY <1>3, <2>1, <2>2, <2>3
  <1> QED  BY <1>1, <1>2, <1>3, <1>4, <1>6, <1>7

LEMMA SubagentPointers ==
    ASSUME IInv, IInv', Pointers, SubagentStep, failures' = 0
    PROVE  PointersNext
  <1>1. ASSUME NEW r \in Reply, NEW p \in {r, NoParts}, ReportsCompletion(r, p) \/ RequestsHelp(r, p)
        PROVE  PointersNext
    <2>1. SubagentAnswers(r, p) /\ StepOut(p) /\ TypeOK
      BY <1>1 DEF ReportsCompletion, RequestsHelp, IInv
    <2>2. /\ p = r /\ subagent \in DOMAIN convs /\ Target(subagent) \in Targets
          /\ Cursor(r) \in {Entry, convs'[subagent].step}
          /\ \A t \in Targets : stash[t] # NoConv =>
               stash[t] # subagent /\ stashStep[t] \in {Entry, convs'[stash[t]].step}
      BY <2>1, AnswerPointers
    <2>3. /\ stash \in [Targets -> Conversations \cup {NoConv}]
          /\ stashStep \in [Targets -> Steps \cup {Entry}]
      BY <2>1 DEF TypeOK
    <2>4. /\ subagent' = NoConv
          /\ stash' = [stash EXCEPT ![Target(subagent)] = subagent]
          /\ stashStep' = [stashStep EXCEPT ![Target(subagent)] = Cursor(p)]
      BY <2>1 DEF StepOut
    <2> QED  BY <2>2, <2>3, <2>4 DEF PointersNext
  <1>2. ASSUME NEW r \in Reply, NEW p \in {r, NoParts}, NEW q \in {p, r}, KeepsControl(r, p, q)
        PROVE  PointersNext
    BY <1>2, AnswerPointers DEF KeepsControl, PointersNext
  <1>3. ~SubagentGone /\ ~SubagentFails
    BY NothingFailed DEF SubagentGone, SubagentFails, IInv
  <1> QED  BY <1>1, <1>2, <1>3 DEF SubagentStep

LEMMA DelegatePointers ==
    ASSUME IInv, Pointers, DelegateStep, failures' = 0
    PROVE  PointersNext
  <1>1. TypeOK  BY DEF IInv
  <1>2. ASSUME NEW t \in Targets, NEW r \in Reply, NEW p \in {r, NoParts}, NEW q \in {r, NoParts},
               Resumes(t, r, p, q)
        PROVE  PointersNext
    <2>1. failures = 0 /\ p = r /\ q = r
      BY <1>1, <1>2, NothingFailed DEF Resumes
    <2> DEFINE c == stash[t]
    <2>2. /\ c \in DOMAIN convs /\ c # NoConv /\ \A u \in Targets \ {t} : stash[u] # c
          /\ \A u \in Targets \ {t} : Popped(t)[u] = stash[u]
          /\ Popped(t) \in [Targets -> Conversations \cup {NoConv}]
      BY <1>2, StashedFacts DEF Resumes
    <2>3. /\ convs'[c].step = IF r.step = Entry THEN convs[c].step ELSE r.step
          /\ \A d \in DOMAIN convs : d # c => convs'[d] = convs[d]
      BY <1>1, <1>2, <2>2, HeardStep DEF Resumes
    <2>4. TakeOver(t, c, stashStep[t], Popped(t), p, q)
      BY <1>2 DEF Resumes
    <2>5. \A u \in Targets : stash[u] # NoConv =>
            stash[u] \in DOMAIN convs /\ stashStep[u] \in {Entry, convs[stash[u]].step}
      BY <1>1, <2>1 DEF Pointers, PointerIsItsOwn, TypeOK, Conversations
    <2>6. stashStep[t] \in {Entry, convs[c].step}
      BY <2>2, <2>5
    <2>7. stashStep \in [Targets -> Steps \cup {Entry}]
      BY <1>1 DEF TypeOK
    <2> DEFINE released == "completed" \in p.signals /\ \E d \in handoff : d.auto
    <2>8. /\ subagent' = IF released THEN NoConv ELSE c
          /\ stash' = IF released THEN [Popped(t) EXCEPT ![t] = c] ELSE Popped(t)
          /\ stashStep' = [stashStep EXCEPT ![t] = Entry]
          /\ lastStep' = IF released \/ r.step = Entry THEN stashStep[t] ELSE r.step
      BY <2>1, <2>4 DEF TakeOver
    <2> HIDE DEF c, released
    <2>9. \A u \in Targets \ {t} : stash'[u] = stash[u] /\ stashStep'[u] = stashStep[u]
      BY <2>2, <2>7, <2>8
    <2>10. stashStep'[t] = Entry
      BY <2>7, <2>8
    <2>11. ASSUME NEW u \in Targets, stash'[u] # NoConv
           PROVE  stashStep'[u] \in {Entry, convs'[stash'[u]].step}
      BY <2>2, <2>3, <2>5, <2>9, <2>10, <2>11
    <2>12. subagent' # NoConv => lastStep' \in {Entry, convs'[subagent'].step}
      BY <2>3, <2>6, <2>8
    <2> QED  BY <2>11, <2>12 DEF PointersNext
  <1>3. ASSUME NEW t \in Targets, NEW r \in Reply, NEW p \in {r, NoParts}, NEW q \in {r, NoParts},
               Starts(t, r, p, q)
        PROVE  PointersNext
    <2>1. failures = 0 /\ p = r /\ q = r
      BY <1>1, <1>3, NothingFailed DEF Starts
    <2> DEFINE c == Len(convs) + 1
    <2>2. /\ convs'[c].step = r.step /\ \A d \in DOMAIN convs : convs'[d] = convs[d]
      BY <1>1, <1>3, NewStep DEF Starts
    <2>3. TakeOver(t, c, Entry, stash, p, q)
      BY <1>3 DEF Starts, FreshCursor
    <2>4. \A u \in Targets : stash[u] # NoConv =>
            stash[u] \in DOMAIN convs /\ stashStep[u] \in {Entry, convs[stash[u]].step}
      BY <1>1, <2>1 DEF Pointers, PointerIsItsOwn, TypeOK, Conversations
    <2>5. /\ stashStep \in [Targets -> Steps \cup {Entry}]
          /\ stash \in [Targets -> Conversations \cup {NoConv}]
      BY <1>1 DEF TypeOK
    <2> DEFINE released == "completed" \in p.signals /\ \E d \in handoff : d.auto
    <2>6. /\ subagent' = IF released THEN NoConv ELSE c
          /\ stash' = IF released THEN [stash EXCEPT ![t] = c] ELSE stash
          /\ stashStep' = [stashStep EXCEPT ![t] = Entry]
          /\ lastStep' = IF released \/ r.step = Entry THEN Entry ELSE r.step
      BY <2>1, <2>3 DEF TakeOver
    <2> HIDE DEF c, released
    <2>7. \A u \in Targets \ {t} : stash'[u] = stash[u] /\ stashStep'[u] = stashStep[u]
      BY <2>5, <2>6
    <2>8. stashStep'[t] = Entry
      BY <2>5, <2>6
    <2>9. ASSUME NEW u \in Targets, stash'[u] # NoConv
          PROVE  stashStep'[u] \in {Entry, convs'[stash'[u]].step}
      BY <2>2, <2>4, <2>7, <2>8, <2>9
    <2>10. subagent' # NoConv => lastStep' \in {Entry, convs'[subagent'].step}
      BY <2>2, <2>6
    <2> QED  BY <2>9, <2>10 DEF PointersNext
  <1>4. \A t \in Targets : ~ResumeFails(t) /\ ~StartFails(t)
    BY <1>1, NothingFailed DEF ResumeFails, StartFails
  <1> QED  BY <1>2, <1>3, <1>4 DEF DelegateStep

LEMMA PointersStep == IInv /\ IInv' /\ Pointers /\ [Next]_vars => Pointers'
  <1> SUFFICES ASSUME IInv, IInv', Pointers, [Next]_vars PROVE Pointers'
    OBVIOUS
  <1>1. PointersNext => Pointers'
    BY DEF PointersNext, Pointers, PointerIsItsOwn
  <1>2. CASE failures' # 0
    BY <1>2 DEF Pointers
  <1>3. CASE SubagentStep /\ failures' = 0
    BY <1>1, <1>3, SubagentPointers
  <1>4. CASE DelegateStep /\ failures' = 0
    BY <1>1, <1>4, DelegatePointers
  <1>5. CASE BeginTurn
    BY <1>5, PointersStay DEF BeginTurn
  <1>6. CASE OrchestratorStep /\ failures' = 0
    <2>1. ~OrchestratorFails
      BY <1>6, NothingFailed DEF OrchestratorFails, IInv
    <2> QED  BY <1>6, <2>1, PointersStay
             DEF OrchestratorStep, OrchestratorDelegates, OrchestratorAnswers
  <1>7. CASE UNCHANGED vars
    BY <1>7, PointersStay DEF vars
  <1> QED  BY <1>2, <1>3, <1>4, <1>5, <1>6, <1>7 DEF Next

(* The step a conversation is resumed at is one it signalled, or the entry: *)
(* _run_delegation reads completed_last_step, never what the detour left in *)
(* last_signal_step.                                                        *)
THEOREM PointersAreTheirOwn == Spec => []PointerIsItsOwn
  <1>1. Init => Pointers
    BY DEF Init, Pointers, PointerIsItsOwn
  <1>2. Pointers => PointerIsItsOwn
    BY DEF Pointers, PointerIsItsOwn
  <1>3. IInv /\ [Next]_vars => IInv'
    BY InvariantStep
  <1>4. IInv /\ Pointers /\ [Next]_vars => Pointers'
    BY InvariantStep, PointersStep
  <1>5. Spec => [](IInv /\ Pointers)
    BY <1>1, <1>3, <1>4, InvariantInit, PTL DEF Spec
  <1> QED  BY <1>2, <1>5, PTL

-----------------------------------------------------------------------------
(* A turn that leaves the subagent in control has acted on its signals.     *)

LEMMA KeptSignals ==
    ASSUME IInv, NEW r, NEW p, NEW q, KeepsControl(r, p, q), failures' = 0,
           convs'[subagent].signals # {}
    PROVE  suppressed'
  <1>1. SubagentAnswers(r, p) /\ ~Completes(p) /\ ~AsksHelp(p) /\ FlagPremature(p)
    BY DEF KeepsControl
  <1>2. TypeOK /\ subagent \in DOMAIN convs
    BY <1>1 DEF IInv, Control, SubagentAnswers, TypeOK, Conversations
  <1>3. p = r /\ r \in Reply
    BY <1>1, <1>2, NothingFailed DEF SubagentAnswers, Replies
  <1>4. convs'[subagent].signals = r.signals
    BY <1>1, <1>2, <1>3, HeardStep DEF SubagentAnswers
  <1>5. r.signals \subseteq {"completed", "help"} /\ r.signals # {}
    BY <1>3, <1>4 DEF Reply, Signals
  <1>6. "completed" \in r.signals
    BY <1>1, <1>3, <1>5 DEF AsksHelp, Completes
  <1>7. Premature(p)
    BY <1>1, <1>3, <1>6 DEF Completes
  <1> QED  BY <1>1, <1>2, <1>7 DEF FlagPremature, TypeOK

(* The conversation that takes over is heard in the turn that hands over.   *)
LEMMA TakeOverEntered ==
    ASSUME IInv, DelegateStep, failures' = 0, subagent' # NoConv
    PROVE  convs'[subagent'].entered
  <1>1. TypeOK /\ at = "delegate"
    BY DEF IInv, DelegateStep, Resumes, Starts, ResumeFails, StartFails
  <1>2. ASSUME NEW t \in Targets, NEW r \in Reply, NEW p \in {r, NoParts}, NEW q \in {r, NoParts},
               Resumes(t, r, p, q)
        PROVE  convs'[subagent'].entered
    <2>1. stash[t] \in DOMAIN convs
      BY <1>1, <1>2 DEF Resumes, Resuming, TypeOK, Conversations
    <2>2. convs'[stash[t]].entered = TRUE
      BY <1>1, <1>2, <2>1, HeardStep DEF Resumes
    <2>3. subagent' = stash[t]
      BY <1>2 DEF Resumes, TakeOver
    <2> QED  BY <2>2, <2>3
  <1>3. ASSUME NEW t \in Targets, NEW r \in Reply, NEW p \in {r, NoParts}, NEW q \in {r, NoParts},
               Starts(t, r, p, q)
        PROVE  convs'[subagent'].entered
    <2>1. convs'[Len(convs) + 1].entered = TRUE
      BY <1>1, <1>3, NewStep DEF Starts
    <2>2. subagent' = Len(convs) + 1
      BY <1>3 DEF Starts, TakeOver
    <2> QED  BY <2>1, <2>2
  <1>4. \A t \in Targets : ~ResumeFails(t) /\ ~StartFails(t)
    BY <1>1, NothingFailed DEF ResumeFails, StartFails
  <1> QED  BY <1>2, <1>3, <1>4 DEF DelegateStep

LEMMA SignalsStep ==
    ASSUME IInv, SignalsAreAnswered, [Next]_vars,
           at' = "idle", subagent' # NoConv, failures' = 0, convs'[subagent'].signals # {}
    PROVE  convs'[subagent'].entered \/ suppressed'
  <1>1. CASE SubagentStep
    <2>1. ASSUME NEW r \in Reply, NEW p \in {r, NoParts}, NEW q \in {p, r}, KeepsControl(r, p, q)
          PROVE  suppressed'
      <3>1. subagent' = subagent  BY <2>1 DEF KeepsControl
      <3> QED  BY <2>1, <3>1, KeptSignals
    <2>2. \A r, p : ~ReportsCompletion(r, p) /\ ~RequestsHelp(r, p)
      BY DEF ReportsCompletion, RequestsHelp, StepOut
    <2>3. ~SubagentGone /\ ~SubagentFails
      BY NothingFailed DEF SubagentGone, SubagentFails, IInv
    <2> QED  BY <1>1, <2>1, <2>2, <2>3 DEF SubagentStep
  <1>2. CASE DelegateStep
    BY <1>2, TakeOverEntered
  <1>3. CASE OrchestratorStep
    BY <1>3 DEF IInv, Control, OrchestratorStep, OrchestratorDelegates, OrchestratorAnswers,
                OrchestratorFails
  <1>4. CASE BeginTurn
    BY <1>4 DEF BeginTurn
  <1>5. CASE UNCHANGED vars
    BY <1>5 DEF vars, turnVars, SignalsAreAnswered
  <1> QED  BY <1>1, <1>2, <1>3, <1>4, <1>5 DEF Next

(* Between turns no signal of the active subagent is left unanswered: it    *)
(* was acted on, or its correction is on the way, or the turn that handed   *)
(* control over brought it (send_message scans the parts of the turn).      *)
THEOREM NoSignalIsDropped == Spec => []SignalsAreAnswered
  <1>1. Init => SignalsAreAnswered
    BY DEF Init, SignalsAreAnswered
  <1>2. IInv /\ SignalsAreAnswered /\ [Next]_vars => SignalsAreAnswered'
    BY SignalsStep DEF SignalsAreAnswered
  <1>3. IInv /\ [Next]_vars => IInv'
    BY InvariantStep
  <1> QED  BY <1>1, <1>2, <1>3, InvariantInit, PTL DEF Spec
=============================================================================
