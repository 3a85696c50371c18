----------------------------- MODULE MCAccounts -----------------------------
(***************************************************************************)
(* Two addresses and two slugs: ann wants both slugs, bob one of them, or  *)
(* joins by invitation.  Three tokens for registrations and resets.        *)
(***************************************************************************)
EXTENDS Accounts

TwoEmails == {"ann", "bob"}
BobJoins == {"bob"}
TwoSlugs == {"red", "blue"}
ThreeWishes == {<<"ann", "red">>, <<"ann", "blue">>, <<"bob", "red">>}
=============================================================================
