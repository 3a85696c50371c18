------------------------------- MODULE MCTeam -------------------------------
(***************************************************************************)
(* Two organisations with an owner each, and an address nobody has         *)
(* registered: invited, it makes a second manager, or a second owner.      *)
(***************************************************************************)
EXTENDS Team, TLC

Row(state, org, role) == [state |-> state, org |-> org, role |-> role]

TwoOrgs == {"red", "blue"}
ThreePeople == {"ann", "cy", "new"}
ThreeUsers == [ann |-> Row("live", "red", "owner"),
               cy  |-> Row("live", "blue", "owner"),
               new |-> Row("absent", "red", "member")]

OneInvite == {"i1"}
\* Requests differ in nothing but their names.
RequestSymmetry == Permutations(Requests)
=============================================================================
