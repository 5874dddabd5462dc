---------------------------- MODULE ChatSession ----------------------------
(***************************************************************************)
(* The agent session behind a conversation of the studio: the session id   *)
(* the chat store keeps (sessionMap), the warm-up of each mounted view      *)
(* (use-chat.ts), and the turn that sendOpenCodeMessage posts, polls and    *)
(* retries (api-client.ts).  A session the server has lost answers 404; a   *)
(* new one knows of the conversation only what is replayed into it.  A turn  *)
(* runs on the model the header shows when it is sent: the conversation's   *)
(* own, or the one last picked anywhere.                                    *)
(***************************************************************************)
EXTENDS Naturals, FiniteSets

CONSTANTS
  MaxTurns,     \* bound on the turns of the conversation
  MaxSessions,  \* bound on the sessions created
  Views,        \* the views whose work may be under way at the same time
  MaxDeaths,    \* bound on sessions the server loses
  MaxFaults,    \* bound on failing requests
  MaxRetries,   \* MAX_RETRIES of sendOpenCodeMessage
  Models,       \* the models the picker may offer
  MaxPicks      \* bound on picked models and changes of the providers

ASSUME SessionBounds ==
  {MaxTurns, MaxSessions, MaxDeaths, MaxFaults, MaxRetries, MaxPicks} \subseteq Nat

NoModel == "none"
ASSUME ModelsExist == Models # {} /\ NoModel \notin Models

VARIABLES
  session,   \* sessionMap: the stored session, 0 for none
  status,    \* sessionStatus: what the banner above the conversation says
  alive,     \* server: the sessions it still has
  knows,     \* server: the turns a session has heard or was replayed
  history,   \* the turns shown in the conversation with an answer
  started,   \* turns begun
  created,   \* sessions created
  shown,     \* the conversation is on display
  view,      \* the view mounted last
  warm,      \* per view, its warm-up
  turn,      \* the request under way; pc "none" when the lock is free, and
             \* asked, a history: what the header showed when it was sent
  choice,    \* the conversation's model, the default, and the models on offer
  spent,     \* how much of each bound is used
  lost,      \* history: a session was replaced without a replay
  crossed    \* history: a warm-up rebuilt the session beside another view or
             \* beside a request that did not wait for it

server == <<alive, knows, created>>
vars == <<session, status, alive, knows, history, started, created, shown, view,
          warm, turn, choice, spent, lost, crossed>>

Sessions == 1 .. MaxSessions

(* Outcomes of a request: the provider's refusal and a busy session leave   *)
(* the session as it is; a lost session and a server error rebuild it with  *)
(* a replay; a network or gateway error rebuilds it; others end the turn.   *)
Keeps     == {"refused"}
Replays   == {"gone", "error"}
Resets    == {"network", "gateway"}
Outcomes  == {"refused", "error", "network", "gateway", "timeout"}

NoWarm == [pc |-> "none", session |-> 0, cancelled |-> FALSE]
NoTurn == [pc |-> "none", n |-> 0, view |-> CHOOSE v \in Views : TRUE, session |-> 0, attempt |-> 0,
           says |-> "none", retry |-> FALSE, model |-> NoModel, asked |-> NoModel]

Fault == spent.faults < MaxFaults /\ spent' = [spent EXCEPT !.faults = @ + 1]

(* The type invariant.                                                      *)
Turns       == 1 .. MaxTurns
SomeSession == {0} \union Sessions
SomeModel   == Models \union {NoModel}

WarmType == [pc : {"none", "verify", "create", "replay"}, session : SomeSession,
             cancelled : BOOLEAN]
TurnType == [pc : {"none", "warmup", "session", "create", "replay", "post", "fetch"},
             n : {0} \union Turns, view : Views, session : SomeSession, attempt : Nat,
             says : {"none", "connected", "rebuilt"}, retry : BOOLEAN, model : SomeModel, asked : SomeModel]
ChoiceType == [pin : SomeModel, default : Models, enabled : SUBSET Models,
               connected : SUBSET Models, observed : SUBSET Models]

TypeOK ==
  /\ session \in SomeSession
  /\ status \in {"unknown", "connected", "reconnecting", "restored", "rebuilt"}
  /\ alive \in SUBSET Sessions /\ knows \in [Sessions -> SUBSET Turns]
  /\ history \in SUBSET Turns /\ started \in {0} \union Turns
  /\ created \in SomeSession
  /\ shown \in BOOLEAN /\ view \in Views
  /\ warm \in [Views -> WarmType] /\ turn \in TurnType
  /\ choice \in ChoiceType
  /\ spent \in [faults : Nat, deaths : Nat, picks : Nat]
  /\ lost \in BOOLEAN /\ crossed \in BOOLEAN

Init ==
  /\ session = 0 /\ status = "unknown"
  /\ alive = {} /\ knows = [s \in Sessions |-> {}]
  /\ history = {} /\ started = 0 /\ created = 0
  /\ shown = TRUE /\ view \in Views
  /\ warm = [v \in Views |-> NoWarm]
  /\ turn = NoTurn
  /\ LET m == CHOOSE m \in Models : TRUE
     IN  choice \in [pin : {m, NoModel}, default : {m}, enabled : {Models},
                     connected : {Models}, observed : {Models}]
  /\ spent = [faults |-> 0, deaths |-> 0, picks |-> 0]
  /\ lost = FALSE /\ crossed = FALSE

-----------------------------------------------------------------------------
(* POST /agent/session.                                                     *)
NewSession(s) ==
  /\ s \in Sessions /\ s = created + 1
  /\ created' = s /\ alive' = alive \union {s} /\ UNCHANGED knows

(* The context replay: a summary of the conversation's answered turns.      *)
Replayed(s) == knows' = IF s \in alive THEN [knows EXCEPT ![s] = @ \union history] ELSE knows

SessionDies(s) ==
  /\ s \in alive
  /\ spent.deaths < MaxDeaths
  /\ spent' = [spent EXCEPT !.deaths = @ + 1]
  /\ alive' = alive \ {s}
  /\ UNCHANGED <<session, status, knows, history, started, created, choice, shown, view, warm,
                 turn, lost, crossed>>

-----------------------------------------------------------------------------
(* A view is mounted: it warms the stored session up, unless a request of   *)
(* the conversation is running or there is nothing to warm.                 *)
Warms == turn.pc = "none" /\ session # 0 /\ started > 0

Leave ==
  /\ shown
  /\ shown' = FALSE
  /\ warm' = [warm EXCEPT ![view].cancelled = (warm[view].pc # "none")]
  /\ UNCHANGED <<session, status, server, history, started, view, turn, choice, spent, lost,
                 crossed>>

(* Somebody is replacing the session and telling the new one the context.   *)
Rebuilds(v) == warm[v].pc \in {"create", "replay"}
Rebuilding  == \E v \in Views : Rebuilds(v)

Awaits(v) == turn.pc = "warmup" /\ turn.view = v
Gone(v)   == warm[v].pc = "none" /\ ~Awaits(v)

Enter ==
  /\ ~shown
  /\ shown' = TRUE
  /\ \E v \in Views :
       /\ Gone(v)
       /\ view' = v
       /\ warm' = IF Warms THEN [warm EXCEPT ![v].pc = "verify", ![v].session = session]
                           ELSE warm
  /\ crossed' = (crossed \/ Rebuilding)
  /\ UNCHANGED <<session, status, server, history, started, turn, choice, spent, lost>>

StatusUnless(v, s) == status' = IF warm[v].cancelled THEN status ELSE s
WarmTo(v, pc) == warm' = [warm EXCEPT ![v].pc = pc]
WarmEnds(v)   == warm' = [warm EXCEPT ![v] = NoWarm]

(* The stored session still answers, or is given up; a view that has gone   *)
(* gives nothing up.                                                        *)
Verify(v) ==
  /\ warm[v].pc = "verify"
  /\ \/ /\ warm[v].session \in alive
        /\ WarmEnds(v) /\ StatusUnless(v, "connected") /\ UNCHANGED <<session, spent, crossed>>
     \/ /\ \/ warm[v].session \notin alive /\ UNCHANGED spent
           \/ warm[v].session \in alive /\ Fault
        /\ IF warm[v].cancelled
             THEN WarmEnds(v) /\ UNCHANGED <<session, status, crossed>>
             ELSE /\ WarmTo(v, "create") /\ session' = 0 /\ status' = "reconnecting"
                  /\ crossed' = (crossed \/ ~(turn.pc = "none" \/ Awaits(v)))
  /\ UNCHANGED <<server, history, started, choice, shown, view, turn, lost>>

(* The new session is stored whether or not the view is still there.        *)
WarmCreate(v) ==
  /\ warm[v].pc = "create"
  /\ \E s \in Sessions : NewSession(s) /\ session' = s
       /\ warm' = [warm EXCEPT ![v].pc = "replay", ![v].session = s]
  /\ UNCHANGED <<status, history, started, choice, shown, view, turn, spent, lost, crossed>>

(* A refused replay is logged, and "restored" all the same.                 *)
WarmReplay(v) ==
  /\ warm[v].pc = "replay"
  /\ \/ Replayed(warm[v].session) /\ UNCHANGED <<spent, lost>>
     \/ UNCHANGED knows /\ Fault /\ lost' = TRUE
  /\ WarmEnds(v) /\ StatusUnless(v, "restored")
  /\ UNCHANGED <<session, alive, created, history, started, choice, shown, view, turn, crossed>>

WarmFails(v) ==
  /\ warm[v].pc \in {"create", "replay"}
  /\ Fault
  /\ WarmEnds(v)
  /\ session' = IF warm[v].cancelled THEN session ELSE 0
  /\ StatusUnless(v, "unknown")
  /\ lost' = TRUE
  /\ UNCHANGED <<server, history, started, choice, shown, view, turn, crossed>>

WarmStep(v) == Verify(v) \/ WarmCreate(v) \/ WarmReplay(v) \/ WarmFails(v)

-----------------------------------------------------------------------------
(* The header's picker: the conversation's model, or the default.           *)
Header == IF choice.pin # NoModel THEN choice.pin ELSE choice.default

Picks == spent.picks < MaxPicks /\ spent' = [spent EXCEPT !.picks = @ + 1]

(* The models on offer are those of enabled providers that are connected;   *)
(* with none known to be connected, of all enabled ones.                    *)
Usable == IF choice.connected = {} THEN choice.enabled
          ELSE choice.enabled \intersect choice.connected

Chooses == UNCHANGED <<session, status, server, history, started, shown, view, warm, turn,
                       lost, crossed>>

(* handleModelChange: the conversation's model and the default for others.  *)
PickModel ==
  /\ Picks
  /\ \E m \in Usable : choice' = [choice EXCEPT !.pin = IF shown THEN m ELSE @, !.default = m]
  /\ Chooses

(* The user switches a provider of the settings page on or off; the         *)
(* selection is kept.                                                       *)
Toggled(m) ==
  IF m \in choice.enabled THEN choice.enabled \ {m} ELSE choice.enabled \union {m}

ToggleProvider ==
  /\ Picks
  /\ \E m \in Models : choice' = [choice EXCEPT !.enabled = Toggled(m)]
  /\ Chooses

(* The agent server is asked for its providers: one that is seen connected  *)
(* for the first time is enabled (enableNewlyConnected).                    *)
NewlyConnected(on) == on \ choice.observed

FetchProviders ==
  /\ Picks
  /\ \E on \in SUBSET Models :
       choice' = [choice EXCEPT !.connected = on, !.observed = @ \union on,
                                !.enabled = @ \union NewlyConnected(on)]
  /\ Chooses

-----------------------------------------------------------------------------
TurnTo(pc) == turn' = [turn EXCEPT !.pc = pc]

(* One request at a time, from the page, the sidebar or the queue of ended   *)
(* jobs.  The page sends nothing on a model that is not on offer, unless     *)
(* nothing is known to be; the sidebar and the queue are not held back.  The *)
(* model is resolved, and becomes the conversation's, first of all.         *)
Blocked == Usable # {} /\ Header \notin Usable

Starts(pc) ==
  /\ turn.pc = "none" /\ started < MaxTurns
  /\ started' = started + 1
  /\ turn' = [NoTurn EXCEPT !.pc = pc, !.n = started + 1, !.view = view,
                            !.model = Header, !.asked = Header]
  /\ choice' = [choice EXCEPT !.pin = Header]

(* sendMessage: it waits for the warm-up of its view. *)
Begin(onPage) ==
  /\ shown
  /\ onPage => ~Blocked
  /\ Starts("warmup")
  /\ UNCHANGED <<session, status, server, history, shown, view, warm, spent, lost, crossed>>

(* processJobNotifyQueue: a job of the conversation has ended.  The queue    *)
(* outlives its view and does not wait for any warm-up.                     *)
BeginForJob ==
  /\ started > 0
  /\ Starts("session")
  /\ crossed' = (crossed \/ Rebuilding)
  /\ UNCHANGED <<session, status, server, history, shown, view, warm, spent, lost>>

(* The view's own warm-up is awaited.                                       *)
(* Mutant: the turn does not wait for the warm-up. *)
NoAwait(v) == TRUE
(* Mutant: the turn waits for a session instead of the warm-up. *)
AwaitsSession(v) == warm[v].pc = "none" /\ session # 0
WarmedUp(v) == warm[v].pc = "none"

(* The model that is sent.                                                  *)
(* Mutant: it is resolved after the wait. *)
SentLate == Header
Sent     == turn.model

AwaitWarmup ==
  /\ turn.pc = "warmup" /\ WarmedUp(turn.view)
  /\ turn' = [turn EXCEPT !.pc = "session", !.model = Sent,
                          !.says = IF session = 0 /\ turn.n > 1 THEN "rebuilt" ELSE "connected"]
  /\ UNCHANGED <<session, status, server, history, started, choice, shown, view, warm, 
                 spent, lost, crossed>>

(* getOrCreateSession; after a retry with replay the summary goes first.    *)
AfterSession == IF turn.retry THEN "replay" ELSE "post"

GetSession ==
  /\ turn.pc = "session"
  /\ turn' = IF session # 0 THEN [turn EXCEPT !.pc = AfterSession, !.session = session]
                            ELSE [turn EXCEPT !.pc = "create"]
  /\ UNCHANGED <<session, status, server, history, started, choice, shown, view, warm, 
                 spent, lost, crossed>>

CreateSession ==
  /\ turn.pc = "create"
  /\ \E s \in Sessions : /\ NewSession(s)
                         /\ session' = s
                         /\ turn' = [turn EXCEPT !.pc = AfterSession, !.session = s]
  /\ UNCHANGED <<status, history, started, choice, shown, view, warm, spent, lost, crossed>>

ReplayContext ==
  /\ turn.pc = "replay"
  /\ \/ Replayed(turn.session) /\ UNCHANGED <<spent, lost>>
     \/ UNCHANGED knows /\ Fault /\ lost' = TRUE
  /\ status' = "restored"
  /\ turn' = [turn EXCEPT !.pc = "post", !.retry = FALSE]
  /\ UNCHANGED <<session, alive, created, history, started, choice, shown, view, warm, crossed>>

Runs == knows' = [knows EXCEPT ![turn.session] = @ \union {turn.n}]

(* The turn runs and its result is polled.                                  *)
PostOk ==
  /\ turn.pc = "post" /\ turn.session \in alive
  /\ Runs /\ TurnTo("fetch")
  /\ UNCHANGED <<session, status, alive, history, started, created, choice, shown, view, warm,
                 spent, lost, crossed>>

(* What a failed attempt does: begin anew in a new session, with or without *)
(* the context, or end the turn, with or without the session.  (The session *)
(* made after a last network error, and dropped at once, is left out.)      *)
Retries(o) == o \in Replays \union Resets /\ turn.attempt < MaxRetries

(* Mutant: the context is not replayed into the new session. *)
NeverReplays(o) == FALSE
ReplaysNext(o)  == Retries(o) /\ o \in Replays
KeepsSession(o) == ~Retries(o) /\ o \in Keeps

Attempted(o) ==
  /\ turn' = IF Retries(o) THEN [turn EXCEPT !.pc = "session", !.attempt = @ + 1,
                                             !.retry = ReplaysNext(o)]
                           ELSE NoTurn
  /\ session' = IF KeepsSession(o) THEN session ELSE 0
  /\ status' = IF Retries(o) /\ o \in Replays THEN "reconnecting" ELSE status
  /\ lost' = (lost \/ ~(KeepsSession(o) \/ (Retries(o) /\ o \in Replays)))

(* The attempt fails, and the session may have run the turn all the same.   *)
PostFails ==
  /\ turn.pc = "post"
  /\ \/ turn.session \notin alive /\ Attempted("gone") /\ UNCHANGED <<spent, knows>>
     \/ /\ turn.session \in alive /\ Fault
        /\ \E o \in Outcomes : Attempted(o)
        /\ UNCHANGED knows \/ Runs
  /\ UNCHANGED <<alive, history, started, created, choice, shown, view, warm, crossed>>

(* Creating a session fails: the turn ends with no session stored.          *)
CreateFails ==
  /\ turn.pc = "create" /\ Fault
  /\ turn' = NoTurn
  /\ lost' = TRUE
  /\ UNCHANGED <<session, status, server, history, started, choice, shown, view, warm, crossed>>

(* The tools of the turn are fetched from the stored session, the answer is *)
(* shown, and the banner says "rebuilt" when there was a history but no     *)
(* session to send to; a turn for an ended job leaves it as it is.          *)
Finish ==
  /\ turn.pc = "fetch"
  /\ history' = history \union {turn.n}
  /\ status' = IF turn.says = "none" THEN status ELSE turn.says
  /\ turn' = NoTurn
  /\ UNCHANGED <<session, server, started, choice, shown, view, warm, spent, lost, crossed>>

TurnStep == \/ AwaitWarmup \/ GetSession \/ CreateSession \/ ReplayContext
            \/ PostOk \/ PostFails \/ CreateFails \/ Finish

Next == \/ \E onPage \in BOOLEAN : Begin(onPage)
        \/ BeginForJob
        \/ PickModel \/ ToggleProvider \/ FetchProviders
        \/ TurnStep \/ Leave \/ Enter
        \/ \E v \in Views : WarmStep(v)
        \/ \E s \in Sessions : SessionDies(s)

Spec == Init /\ [][Next]_vars

(* Requests are bounded by timeouts.                                        *)
FairSpec == Spec /\ WF_vars(TurnStep) /\ \A v \in Views : WF_vars(WarmStep(v))
=============================================================================
