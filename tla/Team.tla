-------------------------------- MODULE Team --------------------------------
(***************************************************************************)
(* Members, roles and invitations: app/routers/team.py behind the          *)
(* dependencies get_current_user, require_role and get_current_org.        *)
(*                                                                         *)
(* A request reads the acting user first, then the rows it is about, each  *)
(* with a query of its own, and commits what it changed at the end; other  *)
(* requests commit in between.  A request that answers an error leaves no  *)
(* row behind and is back at Idle.  (Superadmins, who pass require_role    *)
(* with any role, and suspended organisations are left out.)               *)
(***************************************************************************)
EXTENDS Naturals, FiniteSets

CONSTANTS
  Orgs,          \* organisations
  People,        \* e-mail addresses; each names at most one user row
  InitialUsers,  \* [People -> User]: the rows the story begins with
  Invites,       \* bound: the invitation rows that can be created
  Requests,      \* requests served at the same time
  Operations,    \* the endpoints in use
  Assigned       \* the roles that invitations and role changes name

Roles == {"owner", "admin", "member"}
Managers == {"owner", "admin"}
User == [state : {"absent", "live", "deleted"}, org : Orgs, role : Roles]
Invite == [email : People, org : Orgs, role : Roles,
           state : {"pending", "expired", "accepted"}]
Endpoints == {"invite", "role", "remove", "accept"}

ASSUME TeamAssumption ==
  /\ InitialUsers \in [People -> User]
  /\ Operations \subseteq Endpoints
  /\ Assigned \subseteq Roles /\ "admin" \in Assigned

VARIABLES
  users,    \* users: the row of each address
  invites,  \* invitations: the rows created so far
  req,      \* what each request has read
  uses,     \* how often each invitation was accepted (an observer)
  stale     \* the requests during which another one has committed (an observer)

vars == <<users, invites, req, uses, stale>>

Idle == [op |-> "none", at |-> "idle"]
NoRow == [state |-> "absent"]

TypeOK ==
  /\ users \in [People -> User]
  /\ DOMAIN invites \subseteq Invites
  /\ \A i \in DOMAIN invites : invites[i] \in Invite
  /\ \A r \in Requests : req[r].op \in Operations \cup {"none"}
  /\ uses \in [Invites -> Nat]
  /\ stale \subseteq {r \in Requests : req[r] # Idle}

Init ==
  /\ users = InitialUsers
  /\ invites = [i \in {} |-> NoRow]
  /\ req = [r \in Requests |-> Idle]
  /\ uses = [i \in Invites |-> 0]
  /\ stale = {}

Live(u) == users[u].state = "live"
Owners(o) == {u \in People : Live(u) /\ users[u].org = o /\ users[u].role = "owner"}
Becomes(r, state) == req' = [req EXCEPT ![r] = state]

----------------------------------------------------------------------------
(* Reads *)

\* get_current_user and require_role("owner", "admin"), then the first checks
\* of the endpoint: an admin may not assign the owner role.  (A removal names
\* no role: "admin" stands for none.)
Authorised(op, actor, role) ==
  /\ Live(actor) /\ users[actor].role \in Managers
  /\ (op = "role" /\ role = "owner") => users[actor].role = "owner"
  /\ op = "remove" => role = "admin"

Authenticate(r) ==
  \E op \in Operations \ {"accept"}, actor \in People, target \in People, role \in Assigned :
    /\ req[r] = Idle
    /\ Authorised(op, actor, role)
    /\ Becomes(r, [op |-> op, at |-> "authorised", org |-> users[actor].org,
                   target |-> target, role |-> role, row |-> NoRow])
    /\ UNCHANGED <<users, invites, uses>>

\* The target is looked up within the organisation; deleted rows are found.
\* (First, by its id alone.)
FindTargetAnywhere(r) ==
  /\ req[r].at = "authorised" /\ req[r].op \in {"role", "remove"}
  /\ LET row == users[req[r].target] IN
       IF row.state # "absent"
       THEN Becomes(r, [req[r] EXCEPT !.at = "found", !.row = row])
       ELSE Becomes(r, Idle)
  /\ UNCHANGED <<users, invites, uses>>
FindTarget(r) ==
  /\ req[r].at = "authorised" /\ req[r].op \in {"role", "remove"}
  /\ LET row == users[req[r].target] IN
       IF row.state # "absent" /\ row.org = req[r].org
       THEN Becomes(r, [req[r] EXCEPT !.at = "found", !.row = row])
       ELSE Becomes(r, Idle)
  /\ UNCHANGED <<users, invites, uses>>

\* "Prevent removing the last owner".  (First, off by one.)
CountOwnersLoosely(r) ==
  /\ req[r].at = "found" /\ req[r].op = "remove" /\ req[r].row.role = "owner"
  /\ IF Cardinality(Owners(req[r].org)) < 1
     THEN Becomes(r, Idle)
     ELSE Becomes(r, [req[r] EXCEPT !.at = "counted"])
  /\ UNCHANGED <<users, invites, uses>>
CountOwners(r) ==
  /\ req[r].at = "found" /\ req[r].op = "remove" /\ req[r].row.role = "owner"
  /\ IF Cardinality(Owners(req[r].org)) <= 1
     THEN Becomes(r, Idle)
     ELSE Becomes(r, [req[r] EXCEPT !.at = "counted"])
  /\ UNCHANGED <<users, invites, uses>>

\* accept_invite needs no login: it reads the unused invitation, then the
\* user of its address, deleted or not.
OpenInvite(r) ==
  /\ "accept" \in Operations
  /\ req[r] = Idle
  /\ \E i \in DOMAIN invites :
       /\ invites[i].state = "pending"
       /\ Becomes(r, [op |-> "accept", at |-> "opened", invite |-> i, row |-> NoRow])
  /\ UNCHANGED <<users, invites, uses>>

FindInvitee(r) ==
  /\ req[r].at = "opened"
  /\ Becomes(r, [req[r] EXCEPT !.at = "found",
                                !.row = users[invites[req[r].invite].email]])
  /\ UNCHANGED <<users, invites, uses>>

----------------------------------------------------------------------------
(* Commits *)

\* The ORM writes a column only when it differs from what the request read.
Written(read, left, current) ==
  [column \in DOMAIN current |->
     IF left[column] = read[column] THEN current[column] ELSE left[column]]

CommitInvite(r) ==
  /\ req[r].at = "authorised" /\ req[r].op = "invite"
  /\ \E i \in Invites \ DOMAIN invites :
       invites' = [j \in DOMAIN invites \cup {i} |->
                     IF j = i THEN [email |-> req[r].target, org |-> req[r].org,
                                    role |-> req[r].role, state |-> "pending"]
                     ELSE invites[j]]
  /\ Becomes(r, Idle)
  /\ UNCHANGED <<users, uses>>

\* (First, without the check that the body names one of the roles; then
\* writing the row back as it was read.)
CommitRoleUnvalidated(r) ==
  /\ req[r].at = "found" /\ req[r].op = "role"
  /\ \E role \in {req[r].role, "missing"} :
       users' = [users EXCEPT ![req[r].target] =
                   Written(req[r].row, [req[r].row EXCEPT !.role = role], @)]
  /\ Becomes(r, Idle)
  /\ UNCHANGED <<invites, uses>>
CommitRoleWhole(r) ==
  /\ req[r].at = "found" /\ req[r].op = "role"
  /\ users' = [users EXCEPT ![req[r].target] = [req[r].row EXCEPT !.role = req[r].role]]
  /\ Becomes(r, Idle)
  /\ UNCHANGED <<invites, uses>>
CommitRole(r) ==
  /\ req[r].at = "found" /\ req[r].op = "role"
  /\ users' = [users EXCEPT ![req[r].target] =
                 Written(req[r].row, [req[r].row EXCEPT !.role = req[r].role], @)]
  /\ Becomes(r, Idle)
  /\ UNCHANGED <<invites, uses>>

CommitRemoval(r) ==
  /\ req[r].op = "remove"
  /\ \/ req[r].at = "counted"
     \/ req[r].at = "found" /\ req[r].row.role # "owner"
  /\ users' = [users EXCEPT ![req[r].target].state = "deleted"]
  /\ Becomes(r, Idle)
  /\ UNCHANGED <<invites, uses>>

\* An existing user is moved, a missing one is inserted; the unique index on
\* the address refuses an insert that comes second.  (First, without marking
\* the invitation.)
CommitAcceptUnmarked(r) ==
  /\ req[r].at = "found" /\ req[r].op = "accept"
  /\ LET i == req[r].invite
         joined == [req[r].row EXCEPT !.org = invites[i].org, !.role = invites[i].role,
                                      !.state = "live"] IN
       /\ users' = [users EXCEPT ![invites[i].email] = joined]
       /\ uses' = [uses EXCEPT ![i] = @ + 1]
  /\ Becomes(r, Idle)
  /\ UNCHANGED invites
CommitAccept(r) ==
  /\ req[r].at = "found" /\ req[r].op = "accept"
  /\ LET i == req[r].invite
         row == req[r].row
         joined == [row EXCEPT !.org = invites[i].org, !.role = invites[i].role] IN
       /\ \/ /\ row.state # "absent"
             /\ users' = [users EXCEPT ![invites[i].email] = Written(row, joined, @)]
          \/ /\ row.state = "absent" /\ users[invites[i].email].state = "absent"
             /\ users' = [users EXCEPT ![invites[i].email] = [joined EXCEPT !.state = "live"]]
       /\ invites' = [invites EXCEPT ![i].state = "accepted"]
       /\ uses' = [uses EXCEPT ![i] = @ + 1]
  /\ Becomes(r, Idle)

\* The insert of a user somebody else has inserted meanwhile is rolled back.
RefuseAccept(r) ==
  /\ req[r].at = "found" /\ req[r].op = "accept"
  /\ req[r].row.state = "absent"
  /\ users[invites[req[r].invite].email].state # "absent"
  /\ Becomes(r, Idle)
  /\ UNCHANGED <<users, invites, uses>>

\* 48 hours pass.
Expire(i) ==
  /\ i \in DOMAIN invites /\ invites[i].state = "pending"
  /\ invites' = [invites EXCEPT ![i].state = "expired"]
  /\ UNCHANGED <<users, req, uses>>

Step(r) ==
  \/ Authenticate(r) \/ FindTarget(r) \/ CountOwners(r) \/ OpenInvite(r) \/ FindInvitee(r)
  \/ CommitInvite(r) \/ CommitRole(r) \/ CommitRemoval(r) \/ CommitAccept(r) \/ RefuseAccept(r)

\* What a request has read is stale once another one has committed a change.
Observe(r) ==
  LET overtaken == IF UNCHANGED <<users, invites>> THEN {} ELSE Requests \ {r}
  IN  stale' = {q \in stale \cup overtaken : req'[q] # Idle}

Next ==
  \/ \E r \in Requests : Step(r) /\ Observe(r)
  \/ \E i \in Invites : Expire(i) /\ UNCHANGED stale

Spec == Init /\ [][Next]_vars

----------------------------------------------------------------------------
(* Properties *)

\* Only an accepted invitation brings anybody into an organisation: whatever
\* overlaps, a step that moves a user, or lets one in who was not live, is the
\* acceptance of an invitation of this address to that organisation.  (A
\* request that wrote back what it read would undo a move or a removal.)
JoinsByInvitation ==
  [][\A u \in People :
       users'[u].org # users[u].org \/ (users'[u].state = "live" /\ ~Live(u)) =>
         \E i \in DOMAIN invites :
           /\ uses'[i] > uses[i]
           /\ invites[i].email = u /\ invites[i].org = users'[u].org]_vars

\* "Prevent removing the last owner": only a removal that was overtaken by
\* another commit takes an organisation's last live owner away.  (Two owners
\* removed at the same time both count two.  A role change counts nobody, and
\* takes the last owner away without any overlap.)
RemovalKeepsOwner ==
  [][\A o \in Orgs, r \in Requests \ stale :
       req[r].op = "remove" /\ Owners(o) # {} /\ Owners(o)' = {} => req'[r] = req[r]]_vars

\* A manager changes the rows of the own organisation only: when a role is
\* set or a member is removed, the target is still in it, unless another commit
\* has moved the target since the look-up.
TenantIsolation ==
  [][\A r \in Requests \ stale :
       req[r].op \in {"role", "remove"} /\ req'[r] # req[r] /\ users' # users =>
         users[req[r].target].org = req[r].org]_vars

\* "Invalid or already-used invitation": only a request that was overtaken by
\* another one accepts an invitation a second time.
InviteUsedOnce ==
  [][\A i \in Invites : uses'[i] > uses[i] /\ uses[i] > 0 =>
       \E r \in stale : req'[r] # req[r] /\ req[r].invite = i]_vars
=============================================================================
