---------------------------- MODULE MCChatTurns ----------------------------
(* The properties of a conversation's turns.                                *)
EXTENDS ChatTurns

(* Of the turns, which take the lock, one runs at a time, from whichever    *)
(* view, and the lock is held exactly while it does: it is neither leaked   *)
(* nor freed early.  A deletion may free it under a turn, which no other    *)
(* one then joins.  The notice of a rejection is no turn: it takes no lock, *)
(* and a turn may begin while it is under way.                              *)
OneTurn == /\ Cardinality(turns) <= 1
           /\ lock => turns # {}
           /\ turns # {} => lock \/ gone

(* A conversation on display with no request under way does not end in an   *)
(* empty answer: a turn lost to a reload reads as interrupted.              *)
NoOrphanAtTheEnd == shown /\ turns = {} => ~Tail_("hole")

(* A job's end wakes Morty once, however many views saw it, and though the  *)
(* conversation is deleted with what it knew of told jobs, unless a request *)
(* failed or the page was reloaded while it was told.                       *)
ToldOnce == spent.faults = 0 /\ spent.reloads = 0 => \A j \in Jobs : told[j] <= 1

(* A proposed job makes one job on the server, whichever views confirm it:  *)
(* what was proposed is pending, under way, submitted or withdrawn.  Only   *)
(* where the reply to a submission is lost, by a failing request or a       *)
(* reload, does its card stay for one submission more.                      *)
CardSubmitsOnce ==
  spent.submits + Cardinality(CardsAt) <= spent.cards + spent.cut + Cardinality(Replying)

(* No step tells one job from another: what holds of one holds of each.     *)
SomeJob == CHOOSE j \in Jobs : TRUE

(* While the conversation is on display, a job that has ended and has a      *)
(* monitor card in it is reported, with a continuation or the fallback       *)
(* message, unless the user leaves or skips its monitoring, a proposed job   *)
(* waits for the user, or failures have emptied the queue.                   *)
EndIsReported ==
  job[SomeJob] = "done" /\ shown /\ SomeJob \in carded \ skipped ~>
    \/ SomeJob \in reported \/ ~shown \/ SomeJob \in skipped
    \/ Tail_("card") \/ spent.faults > 0
=============================================================================
