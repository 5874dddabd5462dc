----------------------------- MODULE QueryCache -----------------------------
(***************************************************************************)
(* One query of the studio's shared cache (React Query, providers.tsx): the *)
(* data it has, whether the last fetch failed, whether it was invalidated,  *)
(* and the fetch under way.  A fetch is asked for, answered by the server   *)
(* at some instant, and arrives later: what arrives may be out of date.     *)
(***************************************************************************)
CONSTANT NoData     \* the query has never had an answer

NoFetch == [at |-> "idle", got |-> NoData]
Fresh   == [data |-> NoData, failed |-> FALSE, stale |-> FALSE, fetch |-> NoFetch]

Idle(q)    == q.fetch.at = "idle"
Loading(q) == q.data = NoData /\ ~Idle(q)

(* A poll, a mount or a focus joins the fetch under way, if there is one.    *)
(* A query without data is no longer failed once it is asked again.         *)
Asks(q) ==
  IF Idle(q) THEN [q EXCEPT !.fetch.at = "asked",
                            !.failed = @ /\ q.data # NoData]
             ELSE q

(* An invalidation marks the query; if a component uses it, it is fetched    *)
(* anew, and a fetch under way is discarded - except on the first load,      *)
(* which is joined whatever the server had already read for it.             *)
Invalidated(q, used) ==
  LET marked == [q EXCEPT !.stale = TRUE]
  IN  IF ~used THEN marked
      ELSE IF q.data = NoData THEN Asks(marked)
      ELSE Asks([marked EXCEPT !.fetch = NoFetch])

Reads(q, data) == [q EXCEPT !.fetch = [at |-> "read", got |-> data]]
Arrives(q)     == [Fresh EXCEPT !.data = q.fetch.got]
Fails(q)       == [q EXCEPT !.failed = TRUE, !.fetch = NoFetch]
Dropped(q)     == [q EXCEPT !.fetch = NoFetch]       \* cancelQueries
=============================================================================
