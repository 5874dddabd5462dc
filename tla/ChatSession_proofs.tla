------------------------- MODULE ChatSession_proofs -------------------------
(***************************************************************************)
(* The session behind a conversation, for any number of turns, sessions,    *)
(* views, retries, failures and models.                                    *)
(***************************************************************************)
EXTENDS MCChatSession, TLAPS

-----------------------------------------------------------------------------
(* Type correctness.                                                        *)

LEMMA NoTurnTyped == ASSUME TypeOK PROVE NoTurn \in TurnType
  <1>1. (CHOOSE v \in Views : TRUE) \in Views
    BY DEF TypeOK
  <1> QED
    BY <1>1 DEF NoTurn, TurnType, SomeSession, SomeModel

LEMMA NoWarmTyped == NoWarm \in WarmType
  BY DEF NoWarm, WarmType, SomeSession

LEMMA InitTyped == Init => TypeOK
  <1> SUFFICES ASSUME Init PROVE TypeOK
    OBVIOUS
  <1>1. view \in Views /\ shown \in BOOLEAN /\ lost \in BOOLEAN /\ crossed \in BOOLEAN
    BY DEF Init
  <1>2. turn \in TurnType
    <2>1. (CHOOSE v \in Views : TRUE) \in Views
      BY <1>1
    <2> QED
      BY <2>1 DEF Init, NoTurn, TurnType, SomeSession, SomeModel
  <1>3. warm \in [Views -> WarmType]
    BY NoWarmTyped DEF Init
  <1>4. choice \in ChoiceType
    <2>1. (CHOOSE m \in Models : TRUE) \in Models
      BY ModelsExist
    <2> QED
      BY <2>1 DEF Init, ChoiceType, SomeModel
  <1>5. spent \in [faults : Nat, deaths : Nat, picks : Nat]
    BY DEF Init
  <1>6. /\ session \in SomeSession /\ created \in SomeSession /\ started \in {0} \union Turns
        /\ alive \in SUBSET Sessions /\ history \in SUBSET Turns
        /\ knows \in [Sessions -> SUBSET Turns]
    BY DEF Init, SomeSession
  <1>7. status \in {"unknown", "connected", "reconnecting", "restored", "rebuilt"}
    BY DEF Init
  <1> QED
    BY <1>1, <1>2, <1>3, <1>4, <1>5, <1>6, <1>7 DEF TypeOK

LEMMA FaultTyped ==
    ASSUME TypeOK, Fault PROVE spent' \in [faults : Nat, deaths : Nat, picks : Nat]
  BY DEF TypeOK, Fault

LEMMA WarmTyped ==
    ASSUME TypeOK, NEW v \in Views, WarmEnds(v) \/ WarmTo(v, "create")
    PROVE  warm' \in [Views -> WarmType]
  BY NoWarmTyped DEF TypeOK, WarmEnds, WarmTo, WarmType

LEMMA ReplayTyped ==
    ASSUME TypeOK, NEW s \in SomeSession, Replayed(s)
    PROVE  knows' \in [Sessions -> SUBSET Turns]
  BY DEF TypeOK, Replayed

LEMMA RunsTyped ==
    ASSUME TypeOK, turn.n \in Turns, Runs
    PROVE  knows' \in [Sessions -> SUBSET Turns]
  BY DEF TypeOK, Runs

Statuses == {"unknown", "connected", "reconnecting", "restored", "rebuilt"}

LEMMA WarmStepTyped ==
    ASSUME TypeOK, NEW v \in Views, WarmStep(v) PROVE TypeOK'
  <1> USE DEF server
  <1>1. CASE Verify(v)
    <2>1. warm' \in [Views -> WarmType]
      BY <1>1, WarmTyped DEF Verify
    <2>2. session' \in SomeSession /\ status' \in Statuses
      BY <1>1 DEF Verify, TypeOK, SomeSession, StatusUnless, Statuses
    <2>3. spent' \in [faults : Nat, deaths : Nat, picks : Nat]
      BY <1>1, FaultTyped DEF Verify, TypeOK
    <2>4. crossed' \in BOOLEAN
      BY <1>1 DEF Verify, TypeOK, Awaits
    <2> QED
      BY <1>1, <2>1, <2>2, <2>3, <2>4 DEF Verify, TypeOK, Statuses
  <1>2. CASE WarmCreate(v)
    <2>1. PICK s \in Sessions : /\ NewSession(s) /\ session' = s
                                /\ warm' = [warm EXCEPT ![v].pc = "replay", ![v].session = s]
      BY <1>2 DEF WarmCreate
    <2>2. /\ warm' \in [Views -> WarmType] /\ session' \in SomeSession
          /\ created' \in SomeSession /\ alive' \in SUBSET Sessions
          /\ UNCHANGED knows
      BY <2>1 DEF TypeOK, WarmType, SomeSession, NewSession
    <2> QED
      BY <1>2, <2>2 DEF WarmCreate, TypeOK
  <1>3. CASE WarmReplay(v)
    <2>1. warm[v].session \in SomeSession
      BY DEF TypeOK, WarmType
    <2>2. warm' \in [Views -> WarmType] /\ knows' \in [Sessions -> SUBSET Turns]
      BY <1>3, <2>1, WarmTyped, ReplayTyped DEF WarmReplay, TypeOK
    <2>3. status' \in Statuses /\ lost' \in BOOLEAN
      BY <1>3 DEF WarmReplay, TypeOK, StatusUnless, Statuses
    <2>4. spent' \in [faults : Nat, deaths : Nat, picks : Nat]
      BY <1>3, FaultTyped DEF WarmReplay, TypeOK
    <2> QED
      BY <1>3, <2>2, <2>3, <2>4 DEF WarmReplay, TypeOK, Statuses
  <1>4. CASE WarmFails(v)
    <2>1. warm' \in [Views -> WarmType]
      BY <1>4, WarmTyped DEF WarmFails
    <2>2. session' \in SomeSession /\ status' \in Statuses
      BY <1>4 DEF WarmFails, TypeOK, SomeSession, StatusUnless, Statuses
    <2>3. spent' \in [faults : Nat, deaths : Nat, picks : Nat]
      BY <1>4, FaultTyped DEF WarmFails
    <2> QED
      BY <1>4, <2>1, <2>2, <2>3 DEF WarmFails, TypeOK, Statuses
  <1> QED
    BY <1>1, <1>2, <1>3, <1>4 DEF WarmStep

LEMMA ChoiceTyped ==
    ASSUME TypeOK, PickModel \/ ToggleProvider \/ FetchProviders PROVE TypeOK'
  <1>1. spent' \in [faults : Nat, deaths : Nat, picks : Nat]
    <2>1. Picks
      BY DEF PickModel, ToggleProvider, FetchProviders
    <2> QED
      BY <2>1 DEF TypeOK, Picks
  <1>2. choice' \in ChoiceType
    <2>1. CASE PickModel
      <3>1. PICK m \in Usable :
              choice' = [choice EXCEPT !.pin = IF shown THEN m ELSE @, !.default = m]
        BY <2>1 DEF PickModel
      <3>2. m \in Models
        BY <3>1 DEF Usable, TypeOK, ChoiceType
      <3> QED
        BY <3>1, <3>2 DEF TypeOK, ChoiceType, SomeModel
    <2>2. CASE ToggleProvider
      BY <2>2 DEF ToggleProvider, Toggled, TypeOK, ChoiceType
    <2>3. CASE FetchProviders
      BY <2>3 DEF FetchProviders, NewlyConnected, TypeOK, ChoiceType
    <2> QED
      BY <2>1, <2>2, <2>3
  <1> QED
    BY <1>1, <1>2
    DEF TypeOK, PickModel, ToggleProvider, FetchProviders, Chooses, server

LEMMA ViewTyped ==
    ASSUME TypeOK, Leave \/ Enter PROVE TypeOK'
  <1> USE DEF server
  <1>1. CASE Leave
    <2>1. (warm[view].pc # "none") \in BOOLEAN
      OBVIOUS
    <2>2. warm' \in [Views -> WarmType]
      BY <1>1, <2>1 DEF Leave, TypeOK, WarmType
    <2> QED
      BY <1>1, <2>2 DEF Leave, TypeOK
  <1>2. CASE Enter
    <2>1. Rebuilding \in BOOLEAN
      BY DEF Rebuilding
    <2>2. crossed' \in BOOLEAN
      BY <1>2, <2>1 DEF Enter, TypeOK
    <2>3. PICK v \in Views :
            /\ view' = v
            /\ warm' = IF Warms THEN [warm EXCEPT ![v].pc = "verify", ![v].session = session]
                                ELSE warm
      BY <1>2 DEF Enter
    <2>4. warm' \in [Views -> WarmType]
      BY <2>3 DEF TypeOK, WarmType
    <2> QED
      BY <1>2, <2>2, <2>3, <2>4 DEF Enter, TypeOK
  <1> QED
    BY <1>1, <1>2

LEMMA TurnMoves ==
    ASSUME TypeOK, NEW pc \in {"none", "warmup", "session", "create", "replay", "post", "fetch"},
           NEW s \in SomeSession,
           \/ turn' = [turn EXCEPT !.pc = pc]
           \/ turn' = [turn EXCEPT !.pc = pc, !.session = s]
           \/ turn' = [turn EXCEPT !.pc = pc, !.retry = FALSE]
           \/ turn' = NoTurn
    PROVE  turn' \in TurnType
  <1>1. turn \in TurnType
    BY DEF TypeOK
  <1> QED
    BY <1>1, NoTurnTyped DEF TurnType

LEMMA HeaderTyped == ASSUME TypeOK PROVE Header \in Models
  BY DEF TypeOK, ChoiceType, SomeModel, Header

LEMMA StartTyped ==
    ASSUME TypeOK, NEW pc \in {"warmup", "session"}, Starts(pc)
    PROVE  turn' \in TurnType /\ choice' \in ChoiceType /\ started' \in Turns
  <1>1. started + 1 \in Turns
    BY SessionBounds DEF Starts, TypeOK, Turns
  <1>2. turn' \in TurnType
    <2>1. NoTurn \in TurnType /\ Header \in SomeModel
      BY NoTurnTyped, HeaderTyped DEF SomeModel
    <2> QED
      BY <1>1, <2>1 DEF Starts, TypeOK, TurnType
  <1>3. choice' \in ChoiceType
    BY HeaderTyped DEF Starts, TypeOK, ChoiceType, SomeModel
  <1> QED
    BY <1>1, <1>2, <1>3 DEF Starts

LEMMA BeginTyped ==
    ASSUME TypeOK, (\E onPage \in BOOLEAN : Begin(onPage)) \/ BeginForJob PROVE TypeOK'
  <1>1. PICK pc \in {"warmup", "session"} : Starts(pc)
    BY DEF Begin, BeginForJob
  <1>2. turn' \in TurnType /\ choice' \in ChoiceType /\ started' \in Turns
    BY <1>1, StartTyped
  <1>3. crossed' \in BOOLEAN
    BY DEF Begin, BeginForJob, Rebuilding, TypeOK
  <1> QED
    BY <1>2, <1>3 DEF Begin, BeginForJob, TypeOK, server

LEMMA AttemptTyped ==
    ASSUME TypeOK, NEW o, Attempted(o)
    PROVE  /\ turn' \in TurnType /\ session' \in SomeSession
           /\ status' \in Statuses /\ lost' \in BOOLEAN
  <1>1. turn' \in TurnType
    <2>1. CASE turn' = NoTurn
      BY <2>1, NoTurnTyped
    <2>2. CASE turn' = [turn EXCEPT !.pc = "session", !.attempt = @ + 1, !.retry = ReplaysNext(o)]
      <3>1. ReplaysNext(o) \in BOOLEAN
        BY DEF ReplaysNext, Retries
      <3>2. turn \in TurnType /\ turn.attempt + 1 \in Nat
        BY DEF TypeOK, TurnType
      <3> QED
        BY <2>2, <3>1, <3>2 DEF TurnType
    <2> QED
      BY <2>1, <2>2 DEF Attempted
  <1>2. session' \in SomeSession /\ status' \in Statuses
    BY DEF Attempted, TypeOK, SomeSession, Statuses
  <1>3. lost' \in BOOLEAN
    BY DEF Attempted, TypeOK, KeepsSession, Retries
  <1> QED
    BY <1>1, <1>2, <1>3

LEMMA TurnStepTyped ==
    ASSUME TypeOK, turn.pc # "none" => turn.n \in Turns, TurnStep PROVE TypeOK'
  <1> USE DEF server
  <1>0. turn \in TurnType /\ session \in SomeSession /\ NoTurn \in TurnType
    BY NoTurnTyped DEF TypeOK
  <1>1. CASE AwaitWarmup
    <2>1. PICK says \in {"rebuilt", "connected"} :
            turn' = [turn EXCEPT !.pc = "session", !.model = turn.model, !.says = says]
      BY <1>1 DEF AwaitWarmup, Sent
    <2>3. turn' \in TurnType
      BY <1>0, <2>1 DEF TurnType
    <2> QED
      BY <1>1, <2>3 DEF AwaitWarmup, TypeOK
  <1>2. CASE GetSession
    <2>1. turn' \in TurnType
      BY <1>0, <1>2 DEF GetSession, TurnType, AfterSession
    <2> QED
      BY <1>2, <2>1 DEF GetSession, TypeOK
  <1>3. CASE CreateSession
    <2>1. PICK s \in Sessions : /\ NewSession(s) /\ session' = s
                                /\ turn' = [turn EXCEPT !.pc = AfterSession, !.session = s]
      BY <1>3 DEF CreateSession
    <2>2. turn' \in TurnType
      BY <1>0, <2>1 DEF TurnType, AfterSession, SomeSession
    <2>3. /\ session' \in SomeSession /\ created' \in SomeSession
          /\ alive' \in SUBSET Sessions /\ UNCHANGED knows
      BY <2>1 DEF TypeOK, SomeSession, NewSession
    <2> QED
      BY <1>3, <2>2, <2>3 DEF CreateSession, TypeOK
  <1>4. CASE ReplayContext
    <2>1. turn' \in TurnType
      BY <1>0, <1>4, TurnMoves DEF ReplayContext
    <2>2. turn.session \in SomeSession
      BY <1>0 DEF TurnType
    <2>3. knows' \in [Sessions -> SUBSET Turns]
      BY <1>4, <2>2, ReplayTyped DEF ReplayContext, TypeOK
    <2>4. spent' \in [faults : Nat, deaths : Nat, picks : Nat] /\ lost' \in BOOLEAN
      BY <1>4, FaultTyped DEF ReplayContext, TypeOK
    <2> QED
      BY <1>4, <2>1, <2>3, <2>4 DEF ReplayContext, TypeOK
  <1>5. CASE PostOk
    <2>1. turn' \in TurnType
      BY <1>0, <1>5, TurnMoves DEF PostOk, TurnTo
    <2>2. knows' \in [Sessions -> SUBSET Turns]
      BY <1>5, RunsTyped DEF PostOk
    <2> QED
      BY <1>5, <2>1, <2>2 DEF PostOk, TypeOK
  <1>6. CASE PostFails
    <2>1. PICK o \in Outcomes \union {"gone"} : Attempted(o)
      BY <1>6 DEF PostFails
    <2>2. knows' \in [Sessions -> SUBSET Turns]
      BY <1>6, RunsTyped DEF PostFails, TypeOK
    <2>3. spent' \in [faults : Nat, deaths : Nat, picks : Nat]
      BY <1>6, FaultTyped DEF PostFails, TypeOK
    <2> QED
      BY <1>6, <2>1, <2>2, <2>3, AttemptTyped DEF PostFails, TypeOK, Statuses
  <1>7. CASE CreateFails
    <2>1. spent' \in [faults : Nat, deaths : Nat, picks : Nat]
      BY <1>7, FaultTyped DEF CreateFails
    <2> QED
      BY <1>0, <1>7, <2>1 DEF CreateFails, TypeOK
  <1>8. CASE Finish
    <2>1. history' \in SUBSET Turns
      BY <1>8 DEF Finish, TypeOK
    <2>2. status' \in Statuses
      BY <1>0, <1>8 DEF Finish, TypeOK, TurnType, Statuses
    <2> QED
      BY <1>0, <1>8, <2>1, <2>2 DEF Finish, TypeOK, Statuses
  <1> QED
    BY <1>1, <1>2, <1>3, <1>4, <1>5, <1>6, <1>7, <1>8 DEF TurnStep

LEMMA DeathTyped ==
    ASSUME TypeOK, NEW s \in Sessions, SessionDies(s) PROVE TypeOK'
  BY DEF TypeOK, SessionDies

-----------------------------------------------------------------------------
(* Where a turn's messages come from.  As long as no warm-up rebuilds the    *)
(* session beside another view or beside a request that does not wait for    *)
(* it, at most one is rebuilding it, that of the latest view, and the turn   *)
(* that waits, waits for it; none does once the turn goes on, so that nobody *)
(* replaces the session the turn has found or made.                         *)

AtWork == {"session", "create", "replay", "post", "fetch"}

Numbered   == turn.pc # "none" => turn.n \in Turns
RetryFirst == turn.retry => turn.pc \in {"session", "create", "replay"}
Addressed  == turn.pc \in {"replay", "post", "fetch"} => turn.session \in Sessions
Heard      == turn.pc = "fetch" => turn.n \in knows[turn.session]

(* A warm-up that goes on is that of the view on display.                    *)
GoesOn(v)  == warm[v].pc # "none" /\ ~warm[v].cancelled
WarmIsShown == \A v \in Views : GoesOn(v) => shown /\ v = view

RebuildsLatest == \A v \in Views : Rebuilds(v) => v = view
RebuildsForTurn == turn.pc # "none" => \A v \in Views : Rebuilds(v) => Awaits(v)
SentToStored == turn.pc \in {"replay", "post", "fetch"} => session = turn.session
MadeIfNone   == turn.pc = "create" => session = 0
WarmsStored  == \A v \in Views : warm[v].pc = "replay" =>
                  warm[v].session = session /\ session \in Sessions

Route == ~crossed => /\ RebuildsLatest /\ RebuildsForTurn
                     /\ SentToStored /\ MadeIfNone /\ WarmsStored

TurnInv == TypeOK /\ Numbered /\ RetryFirst /\ Addressed /\ Heard /\ WarmIsShown /\ Route

(* What the stored session knows.  With no session stored, or one that has   *)
(* yet to be told, somebody is about to tell it.                            *)

NoneStored == session = 0 =>
  history = {} \/ turn.retry \/ \E v \in Views : warm[v].pc = "create"
StoredKnows == session \in alive =>
  history \subseteq knows[session] \/ turn.retry \/ \E v \in Views : warm[v].pc = "replay"

Told == ~crossed /\ ~lost => NoneStored /\ StoredKnows

LEMMA ZeroIsNone == 0 \notin Sessions
  BY SessionBounds DEF Sessions

(* A warm-up touches neither the turn nor, while a turn is at work, the      *)
(* stored session.                                                          *)
LEMMA WarmKeepsRoute ==
    ASSUME TurnInv, NEW v \in Views, WarmStep(v) PROVE TurnInv'
  <1>0. TypeOK' /\ TypeOK
    BY WarmStepTyped DEF TurnInv
  <1>1. /\ warm[v].pc # "none" /\ UNCHANGED <<turn, view, shown>> /\ (~crossed' => ~crossed)
    BY <1>0 DEF WarmStep, Verify, WarmCreate, WarmReplay, WarmFails, server, TypeOK
  <1>2. \A w \in Views \ {v} : warm'[w] = warm[w]
    BY <1>0 DEF WarmStep, Verify, WarmCreate, WarmReplay, WarmFails, WarmEnds, WarmTo, TypeOK
  <1>3. \A s \in Sessions : knows[s] \subseteq knows'[s]
    BY <1>0 DEF WarmStep, Verify, WarmCreate, WarmReplay, WarmFails, NewSession, Replayed,
                TypeOK, server
  <1>4. Numbered' /\ RetryFirst' /\ Addressed' /\ Heard'
    BY <1>1, <1>3 DEF TurnInv, Numbered, RetryFirst, Addressed, Heard
  <1>a. GoesOn(v)' => GoesOn(v)
    <2>1. \/ warm'[v] = NoWarm
          \/ warm'[v].cancelled = warm[v].cancelled
      BY <1>0 DEF WarmStep, Verify, WarmCreate, WarmReplay, WarmFails, WarmEnds, WarmTo, TypeOK,
                  WarmType
    <2> QED
      BY <1>1, <2>1 DEF GoesOn, NoWarm
  <1>b. WarmIsShown'
    <2>1. ASSUME NEW w \in Views, GoesOn(w)' PROVE shown' /\ w = view'
      <3>1. GoesOn(w)
        BY <1>2, <1>a, <2>1 DEF GoesOn
      <3> QED
        BY <1>1, <3>1 DEF TurnInv, WarmIsShown
    <2> QED
      BY <2>1 DEF WarmIsShown
  <1>5. CASE Verify(v) /\ WarmEnds(v)
    <2>1. warm'[v].pc = "none" /\ UNCHANGED <<session, crossed>>
      <3>1. warm'[v].pc = "none"
        BY <1>0, <1>5 DEF WarmEnds, NoWarm, TypeOK
      <3>2. ~WarmTo(v, "create")
        BY <1>0, <3>1 DEF WarmTo, TypeOK, WarmType
      <3> QED
        BY <1>5, <3>1, <3>2 DEF Verify
    <2>2. \A w \in Views : Rebuilds(w)' => Rebuilds(w) /\ warm'[w] = warm[w]
      BY <1>2, <2>1 DEF Rebuilds
    <2>3. Route'
      BY <1>1, <2>1, <2>2 DEF TurnInv, Route, RebuildsLatest, RebuildsForTurn, SentToStored,
                              MadeIfNone, WarmsStored, Rebuilds, Awaits
    <2> QED
      BY <1>0, <1>4, <1>b, <2>3 DEF TurnInv
  <1>6. CASE ~(Verify(v) /\ WarmEnds(v))
    <2> SUFFICES ASSUME ~crossed' PROVE Route'
      BY <1>0, <1>4, <1>b DEF TurnInv, Route
    <2>1. v = view /\ (turn.pc = "none" \/ Awaits(v))
      <3>1. CASE Rebuilds(v)
        BY <1>1, <3>1 DEF TurnInv, Route, RebuildsLatest, RebuildsForTurn
      <3>2. CASE ~Rebuilds(v)
        <4>1. ~warm[v].cancelled /\ crossed' = (crossed \/ ~(turn.pc = "none" \/ Awaits(v)))
          BY <1>6, <3>2 DEF WarmStep, Verify, WarmCreate, WarmReplay, WarmFails, Rebuilds
        <4> QED
          BY <1>1, <4>1 DEF TurnInv, WarmIsShown, GoesOn
      <3> QED
        BY <3>1, <3>2
    <2>2. \A w \in Views \ {v} : ~Rebuilds(w) /\ ~Rebuilds(w)'
      BY <1>1, <1>2, <2>1 DEF TurnInv, Route, RebuildsLatest, Rebuilds
    <2>3. turn.pc \notin AtWork
      BY <2>1 DEF AtWork, Awaits
    <2>4. RebuildsLatest' /\ RebuildsForTurn'
      BY <1>1, <2>1, <2>2 DEF RebuildsLatest, RebuildsForTurn, Awaits
    <2>5. SentToStored' /\ MadeIfNone'
      BY <1>1, <2>3 DEF SentToStored, MadeIfNone, AtWork
    <2>6. warm'[v].pc = "replay" => warm'[v].session = session' /\ session' \in Sessions
      <3>1. CASE WarmCreate(v)
        BY <1>0, <3>1 DEF WarmCreate, TypeOK, WarmType
      <3>2. CASE Verify(v) \/ WarmReplay(v) \/ WarmFails(v)
        BY <1>0, <3>2 DEF Verify, WarmReplay, WarmFails, WarmEnds, WarmTo, NoWarm, TypeOK, WarmType
      <3> QED
        BY <3>1, <3>2 DEF WarmStep
    <2>7. WarmsStored'
      BY <2>2, <2>6 DEF WarmsStored, Rebuilds
    <2> QED
      BY <2>4, <2>5, <2>7 DEF Route
  <1> QED
    BY <1>5, <1>6

(* A view that is mounted beside no rebuilding may begin a warm-up, if no    *)
(* turn is under way.                                                       *)
LEMMA ViewKeepsRoute ==
    ASSUME TurnInv, Leave \/ Enter PROVE TurnInv'
  <1>0. TypeOK' /\ TypeOK
    BY ViewTyped DEF TurnInv
  <1>1. UNCHANGED <<turn, session, knows>>
    BY DEF Leave, Enter, server
  <1>2. Numbered' /\ RetryFirst' /\ Addressed' /\ Heard'
    BY <1>1 DEF TurnInv, Numbered, RetryFirst, Addressed, Heard
  <1>3. CASE Leave
    <2>1. /\ UNCHANGED <<view, crossed>>
          /\ \A v \in Views : warm'[v].pc = warm[v].pc /\ warm'[v].session = warm[v].session
      BY <1>0, <1>3 DEF Leave, TypeOK, WarmType
    <2>2. Route'
      BY <1>1, <2>1 DEF TurnInv, Route, RebuildsLatest, RebuildsForTurn, SentToStored, MadeIfNone,
                        WarmsStored, Rebuilds, Awaits
    <2>3. \A v \in Views : ~GoesOn(v)'
      <3>1. ASSUME NEW v \in Views, v # view PROVE warm'[v] = warm[v] /\ ~GoesOn(v)
        BY <1>0, <1>3, <3>1 DEF Leave, TypeOK, TurnInv, WarmIsShown
      <3>2. ~GoesOn(view)'
        <4>1. warm'[view].cancelled = (warm[view].pc # "none") /\ warm'[view].pc = warm[view].pc
          BY <1>0, <1>3 DEF Leave, TypeOK, WarmType
        <4> QED
          BY <1>3, <4>1 DEF Leave, GoesOn
      <3> QED
        BY <1>3, <2>1, <3>1, <3>2 DEF GoesOn
    <2> QED
      BY <1>0, <1>2, <2>2, <2>3 DEF TurnInv, WarmIsShown
  <1>4. CASE Enter
    <2>1. PICK v \in Views :
            /\ view' = v
            /\ warm' = IF Warms THEN [warm EXCEPT ![v].pc = "verify", ![v].session = session]
                                ELSE warm
      BY <1>4 DEF Enter
    <2>2. \A w \in Views : warm'[w] = warm[w] \/ (w = v /\ warm'[w].pc = "verify")
      BY <1>0, <2>1 DEF TypeOK, WarmType
    <2>3. WarmIsShown'
      <3>1. \A w \in Views : ~GoesOn(w)
        BY <1>4 DEF Enter, TurnInv, WarmIsShown
      <3> QED
        BY <1>4, <2>1, <2>2, <3>1 DEF Enter, WarmIsShown, GoesOn
    <2>4. ASSUME ~crossed' PROVE Route'
      <3>1. ~crossed /\ \A w \in Views : ~Rebuilds(w)
        BY <1>4, <2>4 DEF Enter, Rebuilding
      <3>2. \A w \in Views : ~Rebuilds(w)'
        BY <2>2, <3>1 DEF Rebuilds
      <3> QED
        BY <1>1, <3>1, <3>2
        DEF TurnInv, Route, RebuildsLatest, RebuildsForTurn, SentToStored, MadeIfNone,
            WarmsStored, Rebuilds
    <2> QED
      BY <1>0, <1>2, <2>3, <2>4 DEF TurnInv, Route
  <1> QED
    BY <1>3, <1>4

(* The user's turn waits for the warm-up of the latest view; the turn for a  *)
(* job begins beside no rebuilding, or is beside one from then on.          *)
LEMMA BeginKeepsRoute ==
    ASSUME TurnInv, (\E onPage \in BOOLEAN : Begin(onPage)) \/ BeginForJob PROVE TurnInv'
  <1>0. TypeOK' /\ TypeOK
    BY BeginTyped DEF TurnInv
  <1>1. UNCHANGED <<session, warm, view, shown, knows>> /\ (~crossed' => ~crossed)
    BY <1>0 DEF Begin, BeginForJob, server, TypeOK
  <1>2. /\ turn'.pc \in {"warmup", "session"} /\ turn'.n = started + 1 /\ turn'.view = view
        /\ turn'.retry = FALSE
    BY DEF Begin, BeginForJob, Starts, NoTurn
  <1>3. turn'.n \in Turns
    BY <1>0, <1>2, SessionBounds DEF Begin, BeginForJob, Starts, TypeOK, Turns
  <1>4. Numbered' /\ RetryFirst' /\ Addressed' /\ Heard' /\ WarmIsShown'
    BY <1>1, <1>2, <1>3 DEF Numbered, RetryFirst, Addressed, Heard, TurnInv, WarmIsShown, GoesOn
  <1>5. ASSUME ~crossed' PROVE Route'
    <2>1. \A v \in Views : Rebuilds(v)' <=> Rebuilds(v)
      BY <1>1 DEF Rebuilds
    <2>2. RebuildsLatest' /\ WarmsStored'
      BY <1>1, <1>5, <2>1 DEF TurnInv, Route, RebuildsLatest, WarmsStored
    <2>3. SentToStored' /\ MadeIfNone'
      BY <1>2 DEF SentToStored, MadeIfNone
    <2>4. RebuildsForTurn'
      <3>1. CASE BeginForJob
        <4>1. \A v \in Views : ~Rebuilds(v)
          BY <1>5, <3>1 DEF BeginForJob, Rebuilding
        <4> QED
          BY <2>1, <4>1 DEF RebuildsForTurn
      <3>2. CASE \E onPage \in BOOLEAN : Begin(onPage)
        <4>1. turn'.pc = "warmup"
          BY <3>2 DEF Begin, Starts, NoTurn
        <4>2. \A v \in Views : Rebuilds(v) => v = view
          BY <1>1, <1>5 DEF TurnInv, Route, RebuildsLatest
        <4> QED
          BY <1>2, <2>1, <4>1, <4>2 DEF RebuildsForTurn, Awaits
      <3> QED
        BY <3>1, <3>2
    <2> QED
      BY <2>2, <2>3, <2>4 DEF Route
  <1> QED
    BY <1>0, <1>4, <1>5 DEF TurnInv, Route

(* A failed attempt ends the turn or sends it back to look for a session.   *)
LEMMA AttemptEnds ==
    ASSUME TypeOK, NEW o, Attempted(o)
    PROVE  \/ turn' = NoTurn /\ turn'.pc = "none" /\ turn'.retry = FALSE
           \/ /\ turn'.pc = "session" /\ turn'.n = turn.n /\ turn'.view = turn.view
              /\ turn'.retry = ReplaysNext(o) /\ session' = 0
  <1>1. CASE turn' = NoTurn
    BY <1>1 DEF NoTurn
  <1>2. CASE Retries(o) /\ turn' = [turn EXCEPT !.pc = "session", !.attempt = @ + 1,
                                                !.retry = ReplaysNext(o)]
    BY <1>2 DEF TypeOK, TurnType, Attempted, KeepsSession
  <1> QED
    BY <1>1, <1>2 DEF Attempted

LEMMA TurnKeepsRoute ==
    ASSUME TurnInv, TurnStep PROVE TurnInv'
  <1> USE DEF server
  <1>0. TypeOK' /\ TypeOK /\ turn \in TurnType
    BY TurnStepTyped DEF TurnInv, Numbered, TypeOK
  <1>1. UNCHANGED <<warm, view, shown, crossed>>
    BY DEF TurnStep, AwaitWarmup, GetSession, CreateSession, ReplayContext, PostOk, PostFails,
           CreateFails, Finish
  <1>2. (\A v \in Views : Rebuilds(v)' <=> Rebuilds(v)) /\ WarmIsShown'
    BY <1>1 DEF Rebuilds, TurnInv, WarmIsShown, GoesOn
  <1> DEFINE Stays == turn'.pc = "none" \/ (turn'.n = turn.n /\ turn'.view = turn.view)
             Own   == Numbered' /\ RetryFirst' /\ Addressed' /\ Heard'
             Gets  == ~crossed => SentToStored' /\ MadeIfNone'
  <1>3. CASE AwaitWarmup
    <2>1. turn'.pc = "session" /\ Stays /\ turn'.retry = turn.retry
      BY <1>0, <1>3 DEF AwaitWarmup, TurnType
    <2>2. ~crossed => \A v \in Views : ~Rebuilds(v)
      BY <1>3 DEF AwaitWarmup, WarmedUp, Rebuilds, TurnInv, Route, RebuildsForTurn, Awaits
    <2>3. Own /\ Gets
      BY <1>3, <2>1 DEF TurnInv, AwaitWarmup, Numbered, RetryFirst, Addressed, Heard, SentToStored,
                        MadeIfNone
    <2> QED
      BY <1>0, <1>1, <1>2, <1>3, <2>1, <2>2, <2>3
      DEF TurnInv, Route, RebuildsLatest, RebuildsForTurn, WarmsStored, AwaitWarmup
  <1>4. ASSUME turn.pc \in AtWork, Stays, Own, Gets PROVE TurnInv'
    <2>1. ~crossed => \A v \in Views : ~Rebuilds(v) /\ ~Rebuilds(v)'
      BY <1>2, <1>4 DEF TurnInv, Route, RebuildsForTurn, Awaits, AtWork
    <2>2. ASSUME ~crossed PROVE RebuildsLatest' /\ RebuildsForTurn' /\ WarmsStored'
      BY <2>1, <2>2 DEF RebuildsLatest, RebuildsForTurn, WarmsStored, Rebuilds
    <2> QED
      BY <1>0, <1>1, <1>2, <1>4, <2>2 DEF TurnInv, Route
  <1>5. CASE GetSession
    <2>1. Stays /\ turn'.retry = turn.retry /\ turn.pc = "session"
      BY <1>0, <1>5 DEF GetSession, TurnType
    <2>2. \/ /\ session # 0 /\ turn'.session = session /\ turn'.pc \in {"replay", "post"}
             /\ turn.retry => turn'.pc = "replay"
          \/ session = 0 /\ turn'.pc = "create"
      BY <1>0, <1>5 DEF GetSession, TurnType, AfterSession
    <2>3. Own /\ Gets
      BY <1>0, <1>5, <2>1, <2>2, ZeroIsNone
      DEF TurnInv, GetSession, Numbered, RetryFirst, Addressed, Heard, SentToStored, MadeIfNone,
          TypeOK, SomeSession
    <2> QED
      BY <1>4, <2>1, <2>3 DEF AtWork
  <1>6. CASE CreateSession
    <2>1. PICK s \in Sessions : session' = s /\ turn' = [turn EXCEPT !.pc = AfterSession, !.session = s]
      BY <1>6 DEF CreateSession
    <2>2. /\ Stays /\ turn'.retry = turn.retry /\ turn.pc = "create" /\ turn'.session = s
          /\ turn'.pc \in {"replay", "post"} /\ (turn.retry => turn'.pc = "replay")
      BY <1>0, <1>6, <2>1 DEF CreateSession, TurnType, AfterSession
    <2>3. Own /\ Gets
      BY <2>1, <2>2 DEF TurnInv, Numbered, RetryFirst, Addressed, Heard, SentToStored, MadeIfNone
    <2> QED
      BY <1>4, <2>2, <2>3 DEF AtWork
  <1>7. CASE ReplayContext
    <2>1. /\ Stays /\ turn'.retry = FALSE /\ turn.pc = "replay" /\ turn'.pc = "post"
          /\ turn'.session = turn.session /\ UNCHANGED session
      BY <1>0, <1>7 DEF ReplayContext, TurnType
    <2>2. Own /\ Gets
      BY <2>1 DEF TurnInv, Route, Numbered, RetryFirst, Addressed, Heard, SentToStored, MadeIfNone
    <2> QED
      BY <1>4, <2>1, <2>2 DEF AtWork
  <1>8. CASE PostOk
    <2>1. /\ Stays /\ turn'.retry = turn.retry /\ turn.pc = "post" /\ turn'.pc = "fetch"
          /\ turn'.session = turn.session /\ turn'.n = turn.n /\ UNCHANGED session
      BY <1>0, <1>8 DEF PostOk, TurnTo, TurnType
    <2>2. turn.n \in knows'[turn.session]
      BY <1>0, <1>8 DEF PostOk, Runs, TypeOK
    <2>3. Own /\ Gets
      BY <2>1, <2>2 DEF TurnInv, Route, Numbered, RetryFirst, Addressed, Heard, SentToStored,
                        MadeIfNone
    <2> QED
      BY <1>4, <2>1, <2>3 DEF AtWork
  <1>9. CASE PostFails
    <2>1. PICK o \in Outcomes \union {"gone"} : Attempted(o)
      BY <1>9 DEF PostFails
    <2>2. Stays /\ turn'.pc \in {"none", "session"} /\ (turn'.retry => turn'.pc = "session")
      BY <1>0, <2>1, AttemptEnds
    <2>3. turn'.pc # "none" => turn'.n \in Turns
      BY <1>9, <2>2 DEF TurnInv, Numbered, PostFails
    <2>4. Own
      BY <2>2, <2>3 DEF Numbered, RetryFirst, Addressed, Heard
    <2>5. Gets
      BY <2>2 DEF SentToStored, MadeIfNone
    <2> QED
      BY <1>4, <1>9, <2>2, <2>4, <2>5 DEF PostFails, AtWork
  <1>10. CASE CreateFails \/ Finish
    <2>1. turn'.pc = "none" /\ turn'.retry = FALSE /\ turn.pc \in AtWork
      BY <1>10 DEF CreateFails, Finish, NoTurn, AtWork
    <2>2. Stays /\ Own /\ Gets
      BY <2>1 DEF Numbered, RetryFirst, Addressed, Heard, SentToStored, MadeIfNone
    <2> QED
      BY <1>4, <2>1, <2>2
  <1> QED
    BY <1>3, <1>5, <1>6, <1>7, <1>8, <1>9, <1>10 DEF TurnStep

LEMMA OthersKeepRoute ==
    ASSUME TurnInv, TypeOK', UNCHANGED <<session, warm, view, shown, turn, crossed, knows>>
    PROVE  TurnInv'
  <1>1. Numbered' /\ RetryFirst' /\ Addressed' /\ Heard' /\ WarmIsShown'
    BY DEF TurnInv, Numbered, RetryFirst, Addressed, Heard, WarmIsShown, GoesOn
  <1>2. Route'
    BY DEF TurnInv, Route, RebuildsLatest, RebuildsForTurn, SentToStored, MadeIfNone,
           WarmsStored, Rebuilds, Awaits
  <1> QED
    BY <1>1, <1>2 DEF TurnInv

LEMMA StepKeepsRoute == TurnInv /\ [Next]_vars => TurnInv'
  <1> SUFFICES ASSUME TurnInv, [Next]_vars PROVE TurnInv'
    OBVIOUS
  <1>0. TypeOK
    BY DEF TurnInv
  <1>1. CASE (\E onPage \in BOOLEAN : Begin(onPage)) \/ BeginForJob
    BY <1>1, BeginKeepsRoute
  <1>2. CASE PickModel \/ ToggleProvider \/ FetchProviders
    <2>1. UNCHANGED <<session, warm, view, shown, turn, crossed, knows>>
      BY <1>2 DEF PickModel, ToggleProvider, FetchProviders, Chooses, server
    <2> QED
      BY <1>0, <1>2, <2>1, ChoiceTyped, OthersKeepRoute
  <1>3. CASE TurnStep
    BY <1>3, TurnKeepsRoute
  <1>4. CASE Leave \/ Enter
    BY <1>4, ViewKeepsRoute
  <1>5. ASSUME NEW v \in Views, WarmStep(v) PROVE TurnInv'
    BY <1>5, WarmKeepsRoute
  <1>6. ASSUME NEW s \in Sessions, SessionDies(s) PROVE TurnInv'
    BY <1>0, <1>6, DeathTyped, OthersKeepRoute DEF SessionDies
  <1>7. CASE UNCHANGED vars
    BY <1>0, <1>7, OthersKeepRoute DEF vars, TypeOK
  <1> QED
    BY <1>1, <1>2, <1>3, <1>4, <1>5, <1>6, <1>7 DEF Next

LEMMA RouteInvariant == Spec => []TurnInv
  <1>1. Init => TurnInv
    <2> SUFFICES ASSUME Init PROVE TurnInv
      OBVIOUS
    <2>1. turn.pc = "none" /\ turn.retry = FALSE /\ \A v \in Views : warm[v].pc = "none"
      BY DEF Init, NoTurn, NoWarm
    <2> QED
      BY <2>1, InitTyped
      DEF TurnInv, Numbered, RetryFirst, Addressed, Heard, WarmIsShown, GoesOn, Route,
          RebuildsLatest, RebuildsForTurn, SentToStored, MadeIfNone, WarmsStored, Rebuilds
  <1> QED
    BY <1>1, StepKeepsRoute, PTL DEF Spec

(* Every variable keeps its type, for any bounds.                           *)
THEOREM TypeCorrect == Spec => []TypeOK
  <1>1. TurnInv => TypeOK
    BY DEF TurnInv
  <1> QED
    BY <1>1, RouteInvariant, PTL

(* The messages of a turn are fetched from the session that ran it, however *)
(* often it was sent again and whatever warm-ups replaced sessions before,   *)
(* also for a turn that does not wait for them, until one rebuilds the       *)
(* session beside it (sendOpenCodeMessage and warmupPromiseRef).            *)
THEOREM TurnsAreFetchedWhereTheyRan == Spec => []AnsweredByStored
  <1>1. TurnInv => AnsweredByStored
    BY DEF TurnInv, Route, SentToStored, AnsweredByStored
  <1> QED
    BY <1>1, RouteInvariant, PTL
-----------------------------------------------------------------------------
(* What the stored session is told.                                         *)

LEMMA WarmKeepsTold ==
    ASSUME TurnInv, Told, NEW v \in Views, WarmStep(v) PROVE Told'
  <1> SUFFICES ASSUME ~crossed', ~lost' PROVE NoneStored' /\ StoredKnows'
    BY DEF Told
  <1> USE DEF server
  <1>0. TypeOK /\ TypeOK'
    BY WarmStepTyped DEF TurnInv
  <1>1. ~crossed /\ ~lost /\ NoneStored /\ StoredKnows
    BY <1>0 DEF WarmStep, Verify, WarmCreate, WarmReplay, WarmFails, Told, TypeOK
  <1>2. \A w \in Views \ {v} : warm'[w] = warm[w]
    BY <1>0 DEF WarmStep, Verify, WarmCreate, WarmReplay, WarmFails, WarmEnds, WarmTo, TypeOK
  <1>3. UNCHANGED <<history, turn>>
    BY DEF WarmStep, Verify, WarmCreate, WarmReplay, WarmFails
  <1>4. 0 \notin alive'
    BY <1>0, ZeroIsNone DEF TypeOK
  <1>5. CASE Verify(v) /\ UNCHANGED session
    <2>1. UNCHANGED <<alive, knows>> /\ warm[v].pc = "verify"
      BY <1>5 DEF Verify
    <2>2. \A w \in Views : Rebuilds(w) => warm'[w] = warm[w]
      BY <1>2, <2>1 DEF Rebuilds
    <2> QED
      BY <1>1, <1>3, <1>5, <2>1, <2>2 DEF NoneStored, StoredKnows, Rebuilds
  <1>6. CASE Verify(v) /\ session' # session
    <2>1. session' = 0 /\ WarmTo(v, "create")
      BY <1>6 DEF Verify
    <2>2. warm'[v].pc = "create"
      BY <1>0, <2>1 DEF WarmTo, TypeOK, WarmType
    <2> QED
      BY <1>4, <2>1, <2>2 DEF NoneStored, StoredKnows
  <1>7. CASE WarmCreate(v)
    <2>1. session' \in Sessions /\ warm'[v].pc = "replay"
      BY <1>0, <1>7 DEF WarmCreate, TypeOK, WarmType
    <2> QED
      BY <2>1, ZeroIsNone DEF NoneStored, StoredKnows
  <1>8. CASE WarmReplay(v)
    <2>1. /\ warm[v].session = session /\ session \in Sessions /\ UNCHANGED <<session, alive>>
          /\ Replayed(warm[v].session)
      BY <1>1, <1>8 DEF WarmReplay, TurnInv, Route, WarmsStored
    <2>2. session \in alive => history \subseteq knows'[session]
      BY <1>0, <1>8, <2>1 DEF WarmReplay, Replayed, TypeOK
    <2> QED
      BY <1>3, <2>1, <2>2, ZeroIsNone DEF NoneStored, StoredKnows
  <1>9. CASE WarmFails(v)
    BY <1>9 DEF WarmFails
  <1> QED
    BY <1>5, <1>6, <1>7, <1>8, <1>9 DEF WarmStep

LEMMA TurnKeepsTold ==
    ASSUME TurnInv, Told, TurnStep PROVE Told'
  <1> SUFFICES ASSUME ~crossed', ~lost' PROVE NoneStored' /\ StoredKnows'
    BY DEF Told
  <1> USE DEF server
  <1>0. TypeOK /\ TypeOK' /\ turn \in TurnType
    BY TurnStepTyped DEF TurnInv, Numbered, TypeOK
  <1>1. UNCHANGED <<warm, crossed>>
    BY DEF TurnStep, AwaitWarmup, GetSession, CreateSession, ReplayContext, PostOk, PostFails,
           CreateFails, Finish
  <1>2. ~lost
    BY <1>0 DEF TurnStep, AwaitWarmup, GetSession, CreateSession, ReplayContext, PostOk, PostFails,
                CreateFails, Finish, Attempted, TypeOK
  <1>3. NoneStored /\ StoredKnows
    BY <1>1, <1>2 DEF Told
  <1>4. 0 \notin alive'
    BY <1>0, ZeroIsNone DEF TypeOK
  <1>5. turn.pc \in AtWork => \A v \in Views : ~Rebuilds(v)
    BY <1>1 DEF TurnInv, Route, RebuildsForTurn, Awaits, AtWork
  <1>6. turn.pc \in {"post", "fetch"} => ~turn.retry
    BY DEF TurnInv, RetryFirst
  <1>7. turn.pc \in {"replay", "post", "fetch"} => session = turn.session /\ session \in Sessions
    BY <1>1 DEF TurnInv, Route, SentToStored, Addressed
  <1>8. CASE AwaitWarmup \/ GetSession
    <2>1. turn'.retry = turn.retry
      BY <1>0, <1>8 DEF AwaitWarmup, GetSession, TurnType
    <2> QED
      BY <1>1, <1>3, <1>8, <2>1 DEF AwaitWarmup, GetSession, NoneStored, StoredKnows
  <1>9. CASE CreateSession
    <2>1. /\ session' \in Sessions /\ UNCHANGED <<history, knows>>
          /\ turn'.retry = turn.retry /\ session = 0 /\ turn.pc = "create"
      BY <1>0, <1>1, <1>9 DEF CreateSession, NewSession, TurnType, TurnInv, Route, MadeIfNone
    <2>2. history = {} \/ turn.retry
      BY <1>3, <1>5, <2>1 DEF NoneStored, AtWork, Rebuilds
    <2> QED
      BY <2>1, <2>2, ZeroIsNone DEF NoneStored, StoredKnows
  <1>10. CASE ReplayContext
    <2>1. /\ Replayed(turn.session) /\ UNCHANGED <<session, alive, history>>
          /\ session = turn.session /\ session \in Sessions
      BY <1>7, <1>10 DEF ReplayContext
    <2>2. session \in alive => history \subseteq knows'[session]
      BY <1>0, <2>1 DEF Replayed, TypeOK
    <2> QED
      BY <2>1, <2>2, ZeroIsNone DEF NoneStored, StoredKnows
  <1>11. CASE PostOk
    <2>1. /\ UNCHANGED <<session, alive, history>> /\ session \in Sessions
          /\ \A v \in Views : ~Rebuilds(v)
          /\ ~turn.retry
      BY <1>5, <1>6, <1>7, <1>11 DEF PostOk, AtWork
    <2>2. knows[session] \subseteq knows'[session]
      BY <1>0, <1>11, <2>1 DEF PostOk, Runs, TypeOK
    <2> QED
      BY <1>3, <2>1, <2>2, ZeroIsNone DEF NoneStored, StoredKnows, Rebuilds
  <1>12. CASE PostFails
    <2>1. PICK o \in Outcomes \union {"gone"} : Attempted(o)
      BY <1>12 DEF PostFails
    <2>2. CASE KeepsSession(o)
      <3>1. /\ UNCHANGED <<session, alive, history>> /\ session \in Sessions
            /\ \A v \in Views : ~Rebuilds(v)
            /\ ~turn.retry
        BY <1>5, <1>6, <1>7, <1>12, <2>1, <2>2 DEF PostFails, AtWork, Attempted
      <3>2. knows[session] \subseteq knows'[session]
        BY <1>0, <1>12, <3>1 DEF PostFails, Runs, TypeOK
      <3> QED
        BY <1>3, <3>1, <3>2, ZeroIsNone DEF NoneStored, StoredKnows, Rebuilds
    <2>3. CASE Retries(o) /\ o \in Replays
      <3>1. session' = 0
        BY <2>1, <2>3 DEF Attempted, KeepsSession
      <3>2. turn'.retry
        BY <1>0, <2>1, <2>3 DEF Attempted, ReplaysNext, TurnType
      <3> QED
        BY <1>4, <3>1, <3>2 DEF NoneStored, StoredKnows
    <2> QED
      BY <2>1, <2>2, <2>3 DEF Attempted
  <1>13. CASE CreateFails
    BY <1>13 DEF CreateFails
  <1>14. CASE Finish
    <2>1. /\ UNCHANGED <<session, alive, knows>> /\ history' = history \union {turn.n}
          /\ session = turn.session /\ session \in Sessions
          /\ \A v \in Views : ~Rebuilds(v)
          /\ ~turn.retry /\ turn.n \in knows[turn.session]
      BY <1>5, <1>6, <1>7, <1>14 DEF Finish, AtWork, TurnInv, Heard
    <2> QED
      BY <1>3, <2>1, ZeroIsNone DEF NoneStored, StoredKnows, Rebuilds
  <1> QED
    BY <1>8, <1>9, <1>10, <1>11, <1>12, <1>13, <1>14 DEF TurnStep

LEMMA StepKeepsTold == TurnInv /\ Told /\ [Next]_vars => Told'
  <1> SUFFICES ASSUME TurnInv, Told, [Next]_vars PROVE Told'
    OBVIOUS
  <1> USE DEF server
  <1>0. TypeOK
    BY DEF TurnInv
  <1>1. CASE (\E onPage \in BOOLEAN : Begin(onPage)) \/ BeginForJob
    <2>1. turn.retry = FALSE
      BY <1>0, <1>1 DEF Begin, BeginForJob, Starts, TurnInv, RetryFirst, TypeOK, TurnType
    <2>2. UNCHANGED <<session, alive, knows, history, warm, lost>> /\ (~crossed' => ~crossed)
      BY <1>0, <1>1, BeginTyped DEF Begin, BeginForJob, TypeOK
    <2> QED
      BY <2>1, <2>2 DEF Told, NoneStored, StoredKnows
  <1>2. CASE PickModel \/ ToggleProvider \/ FetchProviders
    <2>1. UNCHANGED <<session, alive, knows, history, turn, warm, lost, crossed>>
      BY <1>2 DEF PickModel, ToggleProvider, FetchProviders, Chooses
    <2> QED
      BY <2>1 DEF Told, NoneStored, StoredKnows
  <1>3. CASE TurnStep
    BY <1>3, TurnKeepsTold
  <1>4. CASE Leave
    <2>1. \A v \in Views : warm'[v].pc = warm[v].pc
      BY <1>0, <1>4 DEF Leave, TypeOK, WarmType
    <2> QED
      BY <1>4, <2>1 DEF Leave, Told, NoneStored, StoredKnows
  <1>5. CASE Enter
    <2>1. UNCHANGED <<session, alive, knows, history, turn, lost>>
      BY <1>5 DEF Enter
    <2>2. ~crossed' => ~crossed /\ \A v \in Views : ~Rebuilds(v)
      BY <1>5 DEF Enter, Rebuilding
    <2> QED
      BY <2>1, <2>2 DEF Told, NoneStored, StoredKnows, Rebuilds
  <1>6. ASSUME NEW v \in Views, WarmStep(v) PROVE Told'
    BY <1>6, WarmKeepsTold
  <1>7. ASSUME NEW s \in Sessions, SessionDies(s) PROVE Told'
    BY <1>7 DEF SessionDies, Told, NoneStored, StoredKnows
  <1>8. CASE UNCHANGED vars
    BY <1>8 DEF vars, Told, NoneStored, StoredKnows
  <1> QED
    BY <1>1, <1>2, <1>3, <1>4, <1>5, <1>6, <1>7, <1>8 DEF Next

(* With nothing under way the stored session has heard, or was told, every  *)
(* answered turn, whatever sessions were lost or answered with an error and *)
(* however often a turn was sent again: warmUpSession and the retries of    *)
(* sendOpenCodeMessage replay the conversation into each new session, unless *)
(* a replay is refused or two of them make one at the same time.            *)
THEOREM ContextIsKept == Spec => []ContextSurvives
  <1>1. Init => Told
    BY DEF Init, Told, NoneStored, StoredKnows
  <1>2. TurnInv /\ Told => ContextSurvives
    <2> SUFFICES ASSUME TurnInv, Told PROVE ContextSurvives
      OBVIOUS
    <2>1. AtRest => ~turn.retry
      BY DEF AtRest, TurnInv, RetryFirst
    <2> QED
      BY <2>1 DEF ContextSurvives, AtRest, Told, StoredKnows
  <1> QED
    BY <1>1, <1>2, RouteInvariant, StepKeepsTold, PTL DEF Spec
-----------------------------------------------------------------------------
(* The model of a turn.  It is fixed when the turn is sent, before the      *)
(* warm-up is awaited, and no later step of the turn, of a warm-up or of    *)
(* the header touches it.                                                   *)

ModelFixed == turn.pc # "none" => turn.model = turn.asked

LEMMA TurnKeepsModel ==
    ASSUME TypeOK, ModelFixed, TurnStep PROVE ModelFixed'
  <1>0. turn \in TurnType
    BY DEF TypeOK
  <1>1. CASE turn' = NoTurn
    BY <1>1 DEF ModelFixed, NoTurn
  <1>2. CASE AwaitWarmup \/ GetSession \/ CreateSession \/ ReplayContext \/ PostOk
    <2>1. turn'.model = turn.model /\ turn'.asked = turn.asked
      BY <1>0, <1>2
      DEF AwaitWarmup, Sent, GetSession, CreateSession, ReplayContext, PostOk, TurnTo, TurnType
    <2>2. turn.pc # "none"
      BY <1>2 DEF AwaitWarmup, GetSession, CreateSession, ReplayContext, PostOk
    <2> QED
      BY <2>1, <2>2 DEF ModelFixed
  <1>3. CASE PostFails
    <2>1. PICK o \in Outcomes \union {"gone"} : Attempted(o)
      BY <1>3 DEF PostFails
    <2>2. CASE turn' = [turn EXCEPT !.pc = "session", !.attempt = @ + 1, !.retry = ReplaysNext(o)]
      BY <1>0, <1>3, <2>2 DEF PostFails, ModelFixed, TurnType
    <2> QED
      BY <1>1, <2>1, <2>2 DEF Attempted
  <1>4. CASE CreateFails \/ Finish
    BY <1>1, <1>4 DEF CreateFails, Finish
  <1> QED
    BY <1>2, <1>3, <1>4 DEF TurnStep

LEMMA StepKeepsModel == TypeOK /\ ModelFixed /\ [Next]_vars => ModelFixed'
  <1> SUFFICES ASSUME TypeOK, ModelFixed, [Next]_vars PROVE ModelFixed'
    OBVIOUS
  <1>1. CASE (\E onPage \in BOOLEAN : Begin(onPage)) \/ BeginForJob
    BY <1>1 DEF Begin, BeginForJob, Starts, ModelFixed, NoTurn
  <1>2. CASE TurnStep
    BY <1>2, TurnKeepsModel
  <1>3. ASSUME UNCHANGED turn PROVE ModelFixed'
    BY <1>3 DEF ModelFixed
  <1>4. CASE \/ PickModel \/ ToggleProvider \/ FetchProviders \/ Leave \/ Enter
             \/ (\E v \in Views : WarmStep(v)) \/ (\E s \in Sessions : SessionDies(s))
             \/ UNCHANGED vars
    BY <1>3, <1>4
    DEF PickModel, ToggleProvider, FetchProviders, Chooses, Leave, Enter, WarmStep, Verify,
        WarmCreate, WarmReplay, WarmFails, SessionDies, vars
  <1> QED
    BY <1>1, <1>2, <1>4 DEF Next

(* A turn is sent, and sent again after each failure, on the model the      *)
(* header showed when the user sent it, whatever is picked and whichever    *)
(* providers come and go meanwhile (resolveAndPinModel in use-chat.ts).     *)
THEOREM ModelIsKept == Spec => []TurnKeepsItsModel
  <1>1. Init => ModelFixed
    BY DEF Init, ModelFixed, NoTurn
  <1>2. ModelFixed => TurnKeepsItsModel
    BY DEF ModelFixed, TurnKeepsItsModel
  <1> QED
    BY <1>1, <1>2, TypeCorrect, StepKeepsModel, PTL DEF Spec
=============================================================================
