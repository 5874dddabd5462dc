----------------------------- MODULE MCGateway -----------------------------
(* The properties of the gateway, and its model values.                     *)
EXTENDS Gateway

(* What the driver promises about saved changes: Gateway implements it.     *)
Sync == INSTANCE CredentialSync WITH
  saved  <- secret.rev,
  seen   <- driver.rev,
  busy   <- (driver.pc # "idle"),
  failed <- (driver.pc = "idle" /\ driver.erred)

(* Every answered save and removal is in the Secret, and nothing else: two  *)
(* requests that read, merge and replace the whole set do not lose one      *)
(* another's provider (withProviderLock).                                   *)
SavesAreKept == secret.data = asked

Quiet == /\ driver.pc = "idle" /\ queue = <<>>
         /\ \A b \in Boots : boot[b].pc = "idle"

(* What the claim below excepts: a failed cluster call, a replaced gateway,  *)
(* an attempt of ensureUserStack that overlapped a change (see the README), *)
(* and a server that dies under a stack found without any credential: its   *)
(* page shows the form, what is saved there is for the attempt that         *)
(* Continue starts, and that one does not restart a server that is up again.*)
Untroubled == /\ ~overlap /\ spent.faults = 0 /\ spent.restarts = 0
              /\ Preset # {} \/ spent.crashes = 0

(* The sandbox a credential set calls for.                                  *)
BoxOf(set) == IF set = NoCred THEN NoBox ELSE set

(* With nothing at work and the server up, the running server's env and the *)
(* sandbox carry the saved credentials, however the rounds of the driver    *)
(* coalesced (startReconcile, ensureUserStack).                             *)
QuietStackIsCurrent ==
  Quiet /\ server.up /\ Untroubled =>
    server.env = ServerEnv(secret.data) /\ box = BoxOf(secret.data)

(* The splash page does not spin for ever: whatever fails or restarts, the  *)
(* entry it polls settles, and the page shows the studio, the form or the   *)
(* error with its Retry button.                                             *)
PageSettles == page = "polling" ~> page # "polling"

(* startReconcile implements CredentialSync: it never comes to rest with an *)
(* accepted change it has not read, unless it leaves an error.              *)
SyncKept == Sync!Spec
=============================================================================
