--------------------------- MODULE CredentialSync ---------------------------
(***************************************************************************)
(* What the gateway's reconciler promises about saved credentials, seen    *)
(* from outside: while it is busy it looks at the saved set as often as it *)
(* likes, and it may only come to rest once it has looked after the last   *)
(* change it accepted, or has left an error for the user to see.  Changes  *)
(* are counted, so a set is known by the number of changes it includes.    *)
(***************************************************************************)
EXTENDS Naturals

VARIABLES
  saved,     \* changes written to the credential Secret
  accepted,  \* of them, how many were written when a change was last accepted
  seen,      \* how many the reconciler's latest reading included
  busy,      \* a reconciler is at work
  failed     \* it came to rest with an error

vars == <<saved, accepted, seen, busy, failed>>

Init == /\ saved = 0 /\ accepted = 0 /\ seen = 0
        /\ busy = FALSE /\ failed = FALSE

Save == /\ saved' = saved + 1
        /\ UNCHANGED <<accepted, seen, busy, failed>>

Accept == /\ accepted' = saved
          /\ busy' = TRUE
          /\ failed' = FALSE
          /\ UNCHANGED <<saved, seen>>

Look == /\ busy
        /\ seen' = saved
        /\ UNCHANGED <<saved, accepted, busy, failed>>

Rest == /\ busy
        /\ busy' = FALSE
        /\ failed' \in BOOLEAN
        /\ failed' \/ seen >= accepted
        /\ UNCHANGED <<saved, accepted, seen>>

(* The gateway's process dies: nothing is at work, and the promise of the  *)
(* lost reconciler with it.                                                *)
Forget == /\ busy' = FALSE
          /\ accepted' = 0
          /\ failed' = FALSE
          /\ UNCHANGED <<saved, seen>>

Next == Save \/ Accept \/ Look \/ Rest \/ Forget

Spec == Init /\ [][Next]_vars
=============================================================================
