--------------------------- MODULE MCChatSession ---------------------------
(* The properties of a conversation's session.                              *)
EXTENDS ChatSession

(* The session that ran a turn is the stored one when the turn's messages   *)
(* are fetched from it, as long as no warm-up rebuilt the session beside     *)
(* another view or beside a request that did not wait for it.               *)
AnsweredByStored == turn.pc = "fetch" /\ ~crossed => session = turn.session

AtRest == turn.pc = "none" /\ \A v \in Views : warm[v].pc = "none"

(* A lost session does not lose the conversation: with nothing under way    *)
(* the stored session has heard, or was replayed, every answered turn,      *)
(* whatever sessions died, were refused by the provider or answered with an *)
(* error, unless the code replaced one without a replay, or two of its parts *)
(* replaced one at the same time (see the README).                          *)
ContextSurvives ==
  AtRest /\ session \in alive /\ ~lost /\ ~crossed => history \subseteq knows[session]

(* No warm-up touches the stored session in the middle of a turn (use-chat.ts *)
(* of the warm-up: "A detached request already owns its session; returning   *)
(* to that chat must not rebuild it mid-turn").  The turn for an ended job    *)
(* breaks it: it starts beside a warm-up and does not wait for it.          *)
NotRebuiltMidTurn ==
  [][ \A v \in Views : WarmStep(v) /\ session' # session =>
        turn.pc = "none" \/ Awaits(v) ]_vars

(* A turn runs on the model the header showed when it was sent: a model      *)
(* picked, here or elsewhere, while the warm-up is awaited or the turn is   *)
(* sent again, and providers that come and go, do not change it             *)
(* (resolveAndPinModel).                                                    *)
TurnKeepsItsModel ==
  turn.pc \in {"session", "create", "post", "replay", "fetch"} => turn.model = turn.asked

(* A turn ends: retries, warm-ups and rebuilt sessions do not keep the      *)
(* conversation locked.                                                     *)
TurnEnds == turn.pc # "none" ~> turn.pc = "none"
=============================================================================
