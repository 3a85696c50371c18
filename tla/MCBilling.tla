------------------------------ MODULE MCBilling ------------------------------
(***************************************************************************)
(* An owner buys pro and then, or at the same time, business.              *)
(***************************************************************************)
EXTENDS Billing

TwoCheckouts == {"first", "second"}
TwoPlans == [first |-> "pro", second |-> "business"]
TwoHandlers == {"h1", "h2"}
=============================================================================
