SPECIFICATION Spec
CONSTANTS
  Orgs <- TwoOrgs
  People <- ThreePeople
  InitialUsers <- ThreeUsers
  Invites <- OneInvite
  Requests = {r1, r2}
  Assigned = {"owner", "admin"}
  Operations = {"invite", "role", "remove", "accept"}
INVARIANT TypeOK
PROPERTIES
  JoinsByInvitation
  InviteUsedOnce
  RemovalKeepsOwner
  TenantIsolation
SYMMETRY RequestSymmetry
\* The story ends when no invitation is left and no live manager.
CHECK_DEADLOCK FALSE
