----------------------------- MODULE MCWebhooks -----------------------------
(***************************************************************************)
(* A limit of one row stands for MAX_WEBHOOKS = 10, one retry for five; a  *)
(* third row is there for a limit that two registrations would not keep.   *)
(* It subscribes to an event that is never dispatched.                     *)
(***************************************************************************)
EXTENDS Webhooks

OneJob == {"j"}
ThreeHooks == {"h1", "h2", "h3"}
Subscriptions ==
  [h \in ThreeHooks |-> CASE h = "h1" -> Events
                          [] h = "h2" -> {"job.completed"}
                          [] h = "h3" -> {}]
TwoRequests == {"r1", "r2"}
=============================================================================
