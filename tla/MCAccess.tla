------------------------------ MODULE MCAccess ------------------------------
(***************************************************************************)
(* One manager, whom another one may remove, with two keys, one of which   *)
(* is not active, and one session that begins again and again.             *)
(***************************************************************************)
EXTENDS Access

JustAnn == {"ann"}
KeyOf(user, active) == [user |-> user, active |-> active, deleted |-> FALSE, expired |-> FALSE]
TwoKeys == [a |-> KeyOf("ann", TRUE), b |-> KeyOf("ann", FALSE)]
=============================================================================
