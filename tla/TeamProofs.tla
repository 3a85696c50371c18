----------------------------- MODULE TeamProofs -----------------------------
(***************************************************************************)
(* What overlapping requests of managers and invitees may never do, for    *)
(* any number of organisations, addresses, invitations and requests.       *)
(***************************************************************************)
EXTENDS Team, FiniteSetTheorems, TLAPS

\* What a request keeps on its way through the endpoints.
Manager(ops, at, rows) ==
  [op : Operations \cap ops, at : {at}, org : Orgs, target : People, role : Roles, row : rows]
Invitee(at, rows) ==
  [op : Operations \cap {"accept"}, at : {at}, invite : Invites, row : rows]
Request ==
  Manager({"invite", "role", "remove"}, "authorised", {NoRow})
  \cup Manager({"role", "remove"}, "found", User) \cup Manager({"remove"}, "counted", User)
  \cup Invitee("opened", {NoRow}) \cup Invitee("found", User)

RequestsTyped ==
  /\ req \in [Requests -> Request \cup {Idle}]
  /\ \A r \in Requests : req[r].op = "accept" => req[r].invite \in DOMAIN invites

Holds(q) == q.op \in {"role", "remove"} /\ q.at \in {"found", "counted"}

\* A target is found in the organisation of who looks it up.
TargetsInside == \A r \in Requests : Holds(req[r]) => req[r].row.org = req[r].org

\* An invitation that was used says so.
UsedIsAccepted ==
  /\ invites \in [DOMAIN invites -> Invite]
  /\ \A i \in Invites : uses[i] > 0 => i \in DOMAIN invites /\ invites[i].state = "accepted"

\* Nobody but a request that was overtaken goes by a row, a count of owners or
\* an invitation that has changed since.
Current(r) ==
  /\ Holds(req[r]) => req[r].row = users[req[r].target]
  /\ req[r].at = "counted" => ~(Owners(req[r].org) \subseteq {req[r].target})
  /\ req[r].op = "accept" => invites[req[r].invite].state # "accepted"
ReadingsCurrent == \A r \in Requests \ stale : Current(r)

TeamInv == TypeOK /\ RequestsTyped /\ TargetsInside /\ UsedIsAccepted /\ ReadingsCurrent

\* The record of a request tells what it is.
LEMMA RequestKinds ==
  ASSUME NEW q \in Request \cup {Idle}
  PROVE  /\ q = Idle \/ q \in Request
         /\ q.op = "none" <=> q = Idle
         /\ q.at = "idle" <=> q = Idle
         /\ q.op \in Operations \cup {"none"}
         /\ q.at = "authorised" <=> q \in Manager({"invite", "role", "remove"}, "authorised", {NoRow})
         /\ Holds(q) => /\ q.org \in Orgs /\ q.target \in People /\ q.role \in Roles
                        /\ q.row \in User
         /\ q.op = "accept" => q.invite \in Invites /\ q.at \in {"opened", "found"}
         /\ q.op = "accept" /\ q.at = "found" => q.row \in User
         /\ q.at = "opened" <=> q \in Invitee("opened", {NoRow})
         /\ q.at = "counted" => q.op = "remove"
BY DEF Request, Idle, Manager, Invitee, Holds

\* At first there is nothing to read.
LEMMA TeamInit == Init => TeamInv
<1> SUFFICES ASSUME Init PROVE TeamInv
  OBVIOUS
<1>1. Idle.op = "none" /\ Idle.at = "idle"
  BY DEF Idle
<1>2. DOMAIN invites = {} /\ invites \in [DOMAIN invites -> Invite]
  BY DEF Init
<1>3. TypeOK
  BY <1>1, <1>2, TeamAssumption DEF Init, TypeOK
<1>4. QED
  BY <1>1, <1>2, <1>3
  DEF Init, TeamInv, RequestsTyped, TargetsInside, UsedIsAccepted, ReadingsCurrent, Current, Holds

\* The readings of the others stay current, or the others are stale.
LEMMA OthersObserve ==
  ASSUME TeamInv, NEW r \in Requests, Observe(r), NEW to \in Request \cup {Idle},
         req' = [req EXCEPT ![r] = to], NEW q \in Requests \ {r}
  PROVE  /\ req'[q] = req[q]
         /\ q \notin stale' /\ req[q] # Idle =>
              q \notin stale /\ users' = users /\ invites' = invites
<1>1. req'[q] = req[q]
  BY DEF TeamInv, RequestsTyped
<1>2. ASSUME q \notin stale', req[q] # Idle
      PROVE  q \notin stale /\ UNCHANGED <<users, invites>>
  BY <1>1, <1>2 DEF Observe
<1>3. QED
  BY <1>1, <1>2

\* A request reads, or gives up.
LEMMA Moves ==
  ASSUME TeamInv, NEW r \in Requests, Observe(r), UNCHANGED <<users, invites, uses>>,
         NEW to \in Request \cup {Idle}, req' = [req EXCEPT ![r] = to],
         to.op = "accept" => to.invite \in DOMAIN invites,
         Holds(to) => to.row.org = to.org,
         req[r] = Idle \/ r \notin stale =>
           /\ Holds(to) => to.row = users[to.target]
           /\ to.at = "counted" => ~(Owners(to.org) \subseteq {to.target})
           /\ to.op = "accept" => invites[to.invite].state # "accepted"
  PROVE  TeamInv'
<1>1. \A q \in Requests : req'[q] = IF q = r THEN to ELSE req[q]
  BY DEF TeamInv, RequestsTyped
<1>2. RequestsTyped'
  BY <1>1 DEF TeamInv, RequestsTyped
<1>3. TypeOK'
  <2>1. stale' \subseteq {q \in Requests : req'[q] # Idle}
    BY DEF Observe, TeamInv, TypeOK
  <2>2. \A q \in Requests : req'[q].op \in Operations \cup {"none"}
    BY <1>2, RequestKinds DEF RequestsTyped
  <2>3. QED
    BY <2>1, <2>2 DEF TeamInv, TypeOK
<1>4. TargetsInside' /\ UsedIsAccepted'
  BY <1>1 DEF TeamInv, TargetsInside, UsedIsAccepted
<1>5. ReadingsCurrent'
  <2>1. ASSUME NEW q \in Requests, q \notin stale' PROVE Current(q)'
    <3>1. CASE q = r /\ to # Idle
      <4>1. r \notin stale
        BY <1>1, <2>1, <3>1 DEF Observe
      <4>2. QED
        BY <1>1, <3>1, <4>1 DEF Current, Owners, Live
    <3>2. CASE req'[q] = Idle
      BY <3>2 DEF Current, Holds, Idle
    <3>3. CASE q # r /\ req[q] # Idle
      <4>1. q \notin stale
        BY <2>1, <3>3, OthersObserve
      <4>2. QED
        BY <1>1, <3>3, <4>1 DEF TeamInv, ReadingsCurrent, Current, Owners, Live
    <3>4. QED
      BY <1>1, <3>1, <3>2, <3>3
  <2>2. QED
    BY <2>1 DEF ReadingsCurrent
<1>6. QED
  BY <1>2, <1>3, <1>4, <1>5 DEF TeamInv

\* A request commits and ends.
LEMMA Commits ==
  ASSUME TeamInv, NEW r \in Requests, Observe(r), req' = [req EXCEPT ![r] = Idle],
         users' \in [People -> User], DOMAIN invites \subseteq DOMAIN invites',
         DOMAIN invites' \subseteq Invites, uses' \in [Invites -> Nat], UsedIsAccepted'
  PROVE  TeamInv'
<1>1. \A q \in Requests : req'[q] = IF q = r THEN Idle ELSE req[q]
  BY DEF TeamInv, RequestsTyped
<1>2. Idle.op = "none" /\ Idle.at = "idle"
  BY DEF Idle
<1>3. RequestsTyped' /\ TargetsInside'
  BY <1>1, <1>2 DEF TeamInv, RequestsTyped, TargetsInside, Holds
<1>4. TypeOK'
  <2>1. stale' \subseteq {q \in Requests : req'[q] # Idle}
    BY DEF Observe, TeamInv, TypeOK
  <2>2. \A q \in Requests : req'[q].op \in Operations \cup {"none"}
    BY <1>3, RequestKinds DEF RequestsTyped
  <2>3. \A i \in DOMAIN invites' : invites'[i] \in Invite
    BY DEF UsedIsAccepted
  <2>4. QED
    BY <2>1, <2>2, <2>3 DEF TypeOK
<1>5. ReadingsCurrent'
  <2>1. ASSUME NEW q \in Requests, q \notin stale' PROVE Current(q)'
    <3>1. CASE req'[q] = Idle
      BY <1>2, <3>1 DEF Current, Holds
    <3>2. CASE q # r /\ req[q] # Idle
      <4>1. q \notin stale /\ users' = users /\ invites' = invites /\ req'[q] = req[q]
        BY <2>1, <3>2, OthersObserve
      <4>2. QED
        BY <3>2, <4>1 DEF TeamInv, ReadingsCurrent, Current, Owners, Live
    <3>3. QED
      BY <1>1, <3>1, <3>2
  <2>2. QED
    BY <2>1 DEF ReadingsCurrent
<1>6. QED
  BY <1>3, <1>4, <1>5 DEF TeamInv

----------------------------------------------------------------------------
(* The steps *)

\* What a request is when it has been authorised, has found a row, or holds an
\* invitation.
LEMMA Reading ==
  ASSUME TeamInv, NEW r \in Requests
  PROVE  /\ req[r] \in Request \cup {Idle}
         /\ r \notin stale => Current(r)
         /\ Holds(req[r]) => req[r].row.org = req[r].org
         /\ req[r].op = "accept" => req[r].invite \in DOMAIN invites
         /\ req[r] = Idle => r \notin stale
BY DEF TeamInv, TypeOK, RequestsTyped, TargetsInside, ReadingsCurrent

\* A request that reads, and writes no user.
LEMMA ReadStep ==
  ASSUME TeamInv, NEW r \in Requests, Observe(r),
         \/ Authenticate(r) \/ FindTarget(r) \/ CountOwners(r)
         \/ OpenInvite(r) \/ FindInvitee(r) \/ RefuseAccept(r)
  PROVE  TeamInv'
<1> USE DEF Becomes
<1>1. ASSUME req' = [req EXCEPT ![r] = Idle], UNCHANGED <<users, invites, uses>> PROVE TeamInv'
  <2>1. Idle.op = "none" /\ Idle.at = "idle"
    BY DEF Idle
  <2>2. QED
    BY <1>1, <2>1, Moves DEF Holds
<1>2. CASE Authenticate(r)
  <2>1. PICK op \in Operations \ {"accept"}, actor \in People, target \in People,
             role \in Assigned :
          /\ Live(actor)
          /\ req' = [req EXCEPT ![r] = [op |-> op, at |-> "authorised",
                       org |-> users[actor].org, target |-> target, role |-> role,
                       row |-> NoRow]]
          /\ UNCHANGED <<users, invites, uses>>
    BY <1>2 DEF Authenticate, Authorised
  <2> DEFINE to == [op |-> op, at |-> "authorised", org |-> users[actor].org,
                    target |-> target, role |-> role, row |-> NoRow]
  <2>2. users[actor].org \in Orgs /\ role \in Roles /\ op \in {"invite", "role", "remove"}
    BY TeamAssumption DEF TeamInv, TypeOK, User, Endpoints
  <2>3. to \in Request /\ to.op = op /\ to.at = "authorised"
    BY <2>2 DEF Request, Manager
  <2> HIDE DEF to
  <2>4. req' = [req EXCEPT ![r] = to]
    BY <2>1 DEF to
  <2>5. QED
    BY <2>1, <2>3, <2>4, Moves DEF Holds
<1>3. CASE FindTarget(r)
  <2> DEFINE row == users[req[r].target]
             to == [req[r] EXCEPT !.at = "found", !.row = row]
  <2>1. /\ req[r] \in Manager({"invite", "role", "remove"}, "authorised", {NoRow})
        /\ req[r].op \in {"role", "remove"} /\ req[r] # Idle
    BY <1>3, Reading, RequestKinds DEF FindTarget
  <2>2. row \in User
    BY <2>1 DEF Manager, TeamInv, TypeOK
  <2>3. /\ to \in Manager({"role", "remove"}, "found", User) /\ to.row = row
        /\ to.op = req[r].op /\ to.at = "found" /\ to.org = req[r].org
        /\ to.target = req[r].target
    BY <2>1, <2>2 DEF Manager
  <2>4. CASE req' = [req EXCEPT ![r] = to] /\ row.org = req[r].org
    <3> HIDE DEF to
    <3>1. to \in Request \cup {Idle} /\ UNCHANGED <<users, invites, uses>>
      BY <1>3, <2>3 DEF Request, FindTarget
    <3>2. QED
      BY <2>1, <2>3, <2>4, <3>1, Moves
  <2>5. QED
    BY <1>1, <1>3, <2>4 DEF FindTarget
<1>4. CASE CountOwners(r)
  <2> DEFINE to == [req[r] EXCEPT !.at = "counted"]
  <2>1. req[r] \in Manager({"role", "remove"}, "found", User) /\ req[r].op = "remove"
    BY <1>4, Reading DEF CountOwners, Request, Idle, Manager, Invitee
  <2>2. /\ to \in Manager({"remove"}, "counted", User)
        /\ to.op = "remove" /\ to.at = "counted" /\ to.org = req[r].org
        /\ to.target = req[r].target /\ to.row = req[r].row /\ req[r].at = "found"
    BY <2>1 DEF Manager
  <2>3. CASE req' = [req EXCEPT ![r] = to] /\ ~(Cardinality(Owners(req[r].org)) <= 1)
    <3>1. ~(Owners(to.org) \subseteq {to.target})
      <4>1. Cardinality({}) = 0 /\ Cardinality({to.target}) = 1
        BY FS_EmptySet, FS_Singleton
      <4>2. Owners(req[r].org) # {} /\ Owners(req[r].org) # {to.target}
        BY <2>3, <4>1
      <4>3. QED
        BY <2>2, <4>2
    <3> HIDE DEF to
    <3>2. /\ to \in Request \cup {Idle} /\ UNCHANGED <<users, invites, uses>>
          /\ Holds(req[r]) /\ Holds(to) /\ req[r] # Idle
      BY <1>4, <2>1, <2>2 DEF Request, CountOwners, Holds, Idle
    <3>3. req[r].row.org = req[r].org /\ (r \notin stale => req[r].row = users[req[r].target])
      BY <3>2, Reading DEF Current
    <3>4. QED
      BY <2>2, <2>3, <3>1, <3>2, <3>3, Moves
  <2>4. QED
    BY <1>1, <1>4, <2>3 DEF CountOwners
<1>5. CASE OpenInvite(r)
  <2>1. PICK i \in DOMAIN invites :
          /\ "accept" \in Operations /\ invites[i].state = "pending"
          /\ req' = [req EXCEPT ![r] = [op |-> "accept", at |-> "opened",
                                        invite |-> i, row |-> NoRow]]
          /\ UNCHANGED <<users, invites, uses>>
    BY <1>5 DEF OpenInvite
  <2> DEFINE to == [op |-> "accept", at |-> "opened", invite |-> i, row |-> NoRow]
  <2>2. /\ to \in Request /\ to.op = "accept" /\ to.at = "opened" /\ to.invite = i
    BY <2>1 DEF Request, Invitee, TeamInv, TypeOK
  <2> HIDE DEF to
  <2>3. req' = [req EXCEPT ![r] = to]
    BY <2>1 DEF to
  <2>4. QED
    BY <2>1, <2>2, <2>3, Moves DEF Holds
<1>6. CASE FindInvitee(r)
  <2> DEFINE row == users[invites[req[r].invite].email]
             to == [req[r] EXCEPT !.at = "found", !.row = row]
  <2>1. req[r] \in Invitee("opened", {NoRow}) /\ req[r] # Idle
    BY <1>6, Reading, RequestKinds DEF FindInvitee
  <2>2. req[r].op = "accept" /\ req[r].invite \in DOMAIN invites
    BY <2>1, Reading DEF Invitee
  <2>3. row \in User
    BY <2>2 DEF TeamInv, TypeOK, Invite
  <2>4. /\ to \in Invitee("found", User)
        /\ to.op = "accept" /\ to.at = "found" /\ to.invite = req[r].invite
    BY <2>1, <2>2, <2>3 DEF Invitee
  <2> HIDE DEF to
  <2>5. /\ to \in Request \cup {Idle} /\ req' = [req EXCEPT ![r] = to]
        /\ UNCHANGED <<users, invites, uses>>
    BY <1>6, <2>4 DEF Request, FindInvitee, to
  <2>6. QED
    BY <2>1, <2>2, <2>4, <2>5, Reading, Moves DEF Holds, Current
<1>7. CASE RefuseAccept(r)
  BY <1>1, <1>7 DEF RefuseAccept
<1>8. QED
  BY <1>2, <1>3, <1>4, <1>5, <1>6, <1>7

\* What the columns of a row become.
LEMMA WrittenColumns ==
  ASSUME NEW read \in User, NEW left \in User, NEW current \in User
  PROVE  /\ Written(read, left, current) \in User
         /\ Written(read, left, current).org
              = IF left.org = read.org THEN current.org ELSE left.org
         /\ Written(read, left, current).state
              = IF left.state = read.state THEN current.state ELSE left.state
<1> DEFINE w == Written(read, left, current)
<1>1. DOMAIN current = {"state", "org", "role"}
  BY DEF User
<1>2. w = [state |-> w["state"], org |-> w["org"], role |-> w["role"]]
  BY <1>1 DEF Written
<1>3. /\ w["state"] = IF left.state = read.state THEN current.state ELSE left.state
      /\ w["org"] = IF left.org = read.org THEN current.org ELSE left.org
      /\ w["role"] = IF left.role = read.role THEN current.role ELSE left.role
  BY <1>1 DEF Written
<1>4. [state |-> w["state"], org |-> w["org"], role |-> w["role"]] \in User
  BY <1>3 DEF User
<1>5. QED
  BY <1>2, <1>3, <1>4

\* A manager's commit changes the target, who neither moves nor comes to life.
LEMMA ManagerWrites ==
  ASSUME TeamInv, NEW r \in Requests, CommitRole(r) \/ CommitRemoval(r)
  PROVE  /\ Holds(req[r]) /\ req[r] # Idle /\ req[r].target \in People
         /\ req' = [req EXCEPT ![r] = Idle] /\ UNCHANGED <<invites, uses>>
         /\ \E row \in User :
              /\ users' = [users EXCEPT ![req[r].target] = row]
              /\ row.org = users[req[r].target].org
              /\ row.state \in {users[req[r].target].state, "deleted"}
<1>1. Holds(req[r]) /\ req[r] # Idle
  BY Reading, RequestKinds DEF CommitRole, CommitRemoval, Holds, Idle
<1>2. req[r].target \in People /\ req[r].role \in Roles /\ req[r].row \in User
  BY <1>1, Reading, RequestKinds
<1>3. users[req[r].target] \in User
  BY <1>2 DEF TeamInv, TypeOK
<1>4. CASE CommitRole(r)
  <2> DEFINE left == [req[r].row EXCEPT !.role = req[r].role]
             row == Written(req[r].row, left, users[req[r].target])
  <2>1. left \in User /\ left.org = req[r].row.org /\ left.state = req[r].row.state
    BY <1>2 DEF User
  <2> HIDE DEF left
  <2>2. /\ row \in User /\ row.org = users[req[r].target].org
        /\ row.state = users[req[r].target].state
    BY <1>2, <1>3, <2>1, WrittenColumns
  <2>3. /\ req' = [req EXCEPT ![r] = Idle] /\ UNCHANGED <<invites, uses>>
        /\ users' = [users EXCEPT ![req[r].target] = row]
    BY <1>4 DEF CommitRole, Becomes, left
  <2> HIDE DEF row
  <2>4. QED
    BY <1>1, <1>2, <2>2, <2>3
<1>5. CASE CommitRemoval(r)
  <2> DEFINE row == [users[req[r].target] EXCEPT !.state = "deleted"]
  <2>1. row \in User /\ row.org = users[req[r].target].org /\ row.state = "deleted"
    BY <1>3 DEF User
  <2>2. /\ req' = [req EXCEPT ![r] = Idle] /\ UNCHANGED <<invites, uses>>
        /\ users' = [users EXCEPT ![req[r].target] = row]
    BY <1>5 DEF CommitRemoval, Becomes
  <2>3. QED
    BY <1>1, <1>2, <2>1, <2>2
<1>6. QED
  BY <1>4, <1>5

\* An acceptance changes the user of the invitation, who is then where it says
\* or where he was, and comes to life only in the organisation it names.
LEMMA AcceptanceWrites ==
  ASSUME TeamInv, NEW r \in Requests, CommitAccept(r)
  PROVE  LET i == req[r].invite
             mail == invites[i].email IN
         /\ req[r].op = "accept" /\ req[r] # Idle /\ i \in DOMAIN invites /\ mail \in People
         /\ req' = [req EXCEPT ![r] = Idle]
         /\ uses' = [uses EXCEPT ![i] = @ + 1]
         /\ invites' = [invites EXCEPT ![i].state = "accepted"]
         /\ \E row \in User :
              /\ users' = [users EXCEPT ![mail] = row]
              /\ row.org \in {users[mail].org, invites[i].org}
              /\ row.state = users[mail].state \/ row.org = invites[i].org
<1> DEFINE i == req[r].invite
           mail == invites[i].email
           read == req[r].row
           joined == [read EXCEPT !.org = invites[i].org, !.role = invites[i].role]
<1>1. req[r].op = "accept" /\ req[r].at = "found"
  BY DEF CommitAccept
<1>2. req[r] # Idle /\ i \in DOMAIN invites /\ read \in User
  BY <1>1, Reading, RequestKinds DEF Idle
<1>3. mail \in People /\ invites[i].org \in Orgs /\ invites[i].role \in Roles
  BY <1>2 DEF TeamInv, TypeOK, Invite
<1>4. users[mail] \in User
  BY <1>3 DEF TeamInv, TypeOK
<1>5. joined \in User /\ joined.org = invites[i].org /\ joined.state = read.state
  BY <1>2, <1>3 DEF User
<1>6. /\ req' = [req EXCEPT ![r] = Idle]
      /\ uses' = [uses EXCEPT ![i] = @ + 1]
      /\ invites' = [invites EXCEPT ![i].state = "accepted"]
      /\ \/ users' = [users EXCEPT ![mail] = Written(read, joined, users[mail])]
         \/ users' = [users EXCEPT ![mail] = [joined EXCEPT !.state = "live"]]
  BY DEF CommitAccept, Becomes
<1>7. CASE users' = [users EXCEPT ![mail] = Written(read, joined, users[mail])]
  <2> DEFINE row == Written(read, joined, users[mail])
  <2> HIDE DEF joined, read, mail
  <2>1. /\ row \in User /\ row.org \in {users[mail].org, invites[i].org}
        /\ row.state = users[mail].state
    BY <1>2, <1>4, <1>5, WrittenColumns
  <2> HIDE DEF row
  <2>2. users' = [users EXCEPT ![mail] = row]
    BY <1>7 DEF row
  <2>3. QED
    BY <1>1, <1>2, <1>3, <1>6, <2>1, <2>2 DEF mail
<1>8. CASE users' = [users EXCEPT ![mail] = [joined EXCEPT !.state = "live"]]
  <2> DEFINE row == [joined EXCEPT !.state = "live"]
  <2>1. row \in User /\ row.org = invites[i].org
    BY <1>5 DEF User
  <2>2. QED
    BY <1>1, <1>2, <1>3, <1>6, <1>8, <2>1
<1>9. QED
  BY <1>6, <1>7, <1>8

\* A request that commits the row it has changed.
LEMMA CommitStep ==
  ASSUME TeamInv, NEW r \in Requests, Observe(r),
         CommitInvite(r) \/ CommitRole(r) \/ CommitRemoval(r) \/ CommitAccept(r)
  PROVE  TeamInv'
<1>1. CASE CommitRole(r) \/ CommitRemoval(r)
  <2>1. PICK row \in User : users' = [users EXCEPT ![req[r].target] = row]
    BY <1>1, ManagerWrites
  <2>2. req' = [req EXCEPT ![r] = Idle] /\ UNCHANGED <<invites, uses>>
    BY <1>1, ManagerWrites
  <2>3. QED
    BY <2>1, <2>2, Commits DEF TeamInv, TypeOK, UsedIsAccepted
<1>2. CASE CommitAccept(r)
  <2> DEFINE i == req[r].invite
  <2>1. PICK row \in User : users' = [users EXCEPT ![invites[i].email] = row]
    BY <1>2, AcceptanceWrites
  <2>2. /\ req' = [req EXCEPT ![r] = Idle] /\ uses' = [uses EXCEPT ![i] = @ + 1]
        /\ invites' = [invites EXCEPT ![i].state = "accepted"] /\ i \in DOMAIN invites
    BY <1>2, AcceptanceWrites
  <2> HIDE DEF i
  <2>3. /\ DOMAIN invites' = DOMAIN invites /\ DOMAIN invites \subseteq Invites
        /\ \A j \in DOMAIN invites : invites'[j] \in Invite
        /\ invites'[i].state = "accepted"
        /\ \A j \in DOMAIN invites : j # i => invites'[j] = invites[j]
    BY <2>2 DEF TeamInv, TypeOK, UsedIsAccepted, Invite
  <2>4. invites' \in [DOMAIN invites' -> Invite]
    BY <2>2, <2>3
  <2>5. uses' \in [Invites -> Nat] /\ \A j \in Invites : j # i => uses'[j] = uses[j]
    BY <2>2 DEF TeamInv, TypeOK
  <2>6. UsedIsAccepted'
    BY <2>2, <2>3, <2>4, <2>5 DEF TeamInv, UsedIsAccepted
  <2>7. users' \in [People -> User]
    BY <2>1 DEF TeamInv, TypeOK
  <2>8. QED
    BY <2>2, <2>3, <2>5, <2>6, <2>7, Commits
<1>3. CASE CommitInvite(r)
  <2> DEFINE row == [email |-> req[r].target, org |-> req[r].org, role |-> req[r].role,
                     state |-> "pending"]
  <2>1. req[r] \in Manager({"invite", "role", "remove"}, "authorised", {NoRow})
    BY <1>3, Reading, RequestKinds DEF CommitInvite
  <2>2. row \in Invite
    BY <2>1 DEF Manager, Invite
  <2> HIDE DEF row
  <2>3. PICK i \in Invites \ DOMAIN invites :
          invites' = [j \in DOMAIN invites \cup {i} |-> IF j = i THEN row ELSE invites[j]]
    BY <1>3 DEF CommitInvite, row
  <2>4. req' = [req EXCEPT ![r] = Idle] /\ UNCHANGED <<users, uses>>
    BY <1>3 DEF CommitInvite, Becomes
  <2>5. /\ DOMAIN invites' = DOMAIN invites \cup {i}
        /\ \A j \in DOMAIN invites : invites'[j] = invites[j]
    BY <2>3
  <2>6. invites' \in [DOMAIN invites' -> Invite]
    BY <2>2, <2>3 DEF TeamInv, UsedIsAccepted
  <2>7. QED
    BY <2>3, <2>4, <2>5, <2>6, Commits DEF TeamInv, TypeOK, UsedIsAccepted
<1>4. QED
  BY <1>1, <1>2, <1>3

\* Every step, then, keeps requests typed, targets inside and readings current.
LEMMA TeamStep == TeamInv /\ [Next]_vars => TeamInv'
<1> SUFFICES ASSUME TeamInv, [Next]_vars PROVE TeamInv'
  OBVIOUS
<1>1. ASSUME NEW r \in Requests, Step(r), Observe(r) PROVE TeamInv'
  BY <1>1, ReadStep, CommitStep DEF Step
<1>2. ASSUME NEW i \in Invites, Expire(i), UNCHANGED stale PROVE TeamInv'
  <2>1. /\ i \in DOMAIN invites /\ invites[i].state = "pending"
        /\ invites' = [invites EXCEPT ![i].state = "expired"]
        /\ UNCHANGED <<users, req, uses, stale>>
    BY <1>2 DEF Expire
  <2>2. /\ DOMAIN invites' = DOMAIN invites
        /\ \A j \in DOMAIN invites : invites'[j] \in Invite
        /\ invites'[i].state = "expired"
        /\ \A j \in DOMAIN invites : j # i => invites'[j] = invites[j]
    BY <2>1 DEF TeamInv, TypeOK, UsedIsAccepted, Invite
  <2>3. invites' \in [DOMAIN invites' -> Invite]
    BY <2>1, <2>2
  <2>4. TypeOK' /\ RequestsTyped' /\ TargetsInside' /\ UsedIsAccepted'
    BY <2>1, <2>2, <2>3 DEF TeamInv, TypeOK, RequestsTyped, TargetsInside, UsedIsAccepted
  <2>5. ReadingsCurrent'
    BY <2>1, <2>2 DEF TeamInv, RequestsTyped, ReadingsCurrent, Current, Owners, Live
  <2>6. QED
    BY <2>4, <2>5 DEF TeamInv
<1>3. CASE UNCHANGED vars
  BY <1>3 DEF vars, TeamInv, TypeOK, RequestsTyped, TargetsInside, UsedIsAccepted,
              ReadingsCurrent, Current, Owners, Live
<1>4. QED
  BY <1>1, <1>2, <1>3 DEF Next

\* So they are in every reachable state.
LEMMA TeamInvariant == Spec => []TeamInv
BY TeamInit, TeamStep, PTL DEF Spec

----------------------------------------------------------------------------
(* What the steps write *)

\* A request that moves takes a step of its own; one that only reads, or opens
\* an invitation, writes no user and uses no invitation.
LEMMA OwnStep ==
  ASSUME TeamInv, [Next]_vars, NEW r \in Requests, req'[r] # req[r]
  PROVE  Step(r)
<1>1. PICK q \in Requests : Step(q) /\ Observe(q)
  BY DEF Next, Expire, vars
<1>2. \E to : req' = [req EXCEPT ![q] = to]
  BY <1>1 DEF Step, Authenticate, FindTarget, CountOwners, OpenInvite, FindInvitee,
              CommitInvite, CommitRole, CommitRemoval, CommitAccept, RefuseAccept, Becomes
<1>3. QED
  BY <1>1, <1>2 DEF TeamInv, RequestsTyped

\* Only the three commits write a user or use an invitation.
LEMMA WritingStep ==
  ASSUME NEW r \in Requests, Step(r)
  PROVE  CommitRole(r) \/ CommitRemoval(r) \/ CommitAccept(r) \/ UNCHANGED <<users, uses>>
BY DEF Step, Authenticate, FindTarget, CountOwners, OpenInvite, FindInvitee, CommitInvite,
       RefuseAccept

\* A step that writes a user or uses an invitation is one of the three commits.
LEMMA Writers ==
  ASSUME [Next]_vars, users' # users \/ uses' # uses
  PROVE  \E r \in Requests : CommitRole(r) \/ CommitRemoval(r) \/ CommitAccept(r)
BY WritingStep DEF Next, Expire, vars

----------------------------------------------------------------------------
(* Theorems *)

\* Every user row stays well formed, and only requests under way are stale.
THEOREM TeamTypeCorrect == Spec => []TypeOK
<1>1. TeamInv => TypeOK
  BY DEF TeamInv
<1>2. QED
  BY <1>1, TeamInvariant, PTL

\* No overlap of role changes, removals and acceptances brings anybody into an
\* organisation, or back to life, but through an invitation to that address.
THEOREM JoinsByInvitationCorrect == Spec => JoinsByInvitation
<1> DEFINE Invited(u) == \E i \in DOMAIN invites :
             /\ uses'[i] > uses[i]
             /\ invites[i].email = u /\ invites[i].org = users'[u].org
           Joins(u) == users'[u].org # users[u].org \/ (users'[u].state = "live" /\ ~Live(u))
           Body == \A u \in People : Joins(u) => Invited(u)
<1>1. TeamInv /\ [Next]_vars => [Body]_vars
  <2> SUFFICES ASSUME TeamInv, [Next]_vars, NEW u \in People, Joins(u) PROVE Invited(u)
    OBVIOUS
  <2>1. users \in [People -> User] /\ users' # users
    BY DEF TeamInv, TypeOK, Live
  <2>2. PICK r \in Requests : CommitRole(r) \/ CommitRemoval(r) \/ CommitAccept(r)
    BY <2>1, Writers
  <2>3. ~(CommitRole(r) \/ CommitRemoval(r))
    <3> SUFFICES ASSUME CommitRole(r) \/ CommitRemoval(r) PROVE FALSE
      OBVIOUS
    <3>1. PICK row \in User :
            /\ users' = [users EXCEPT ![req[r].target] = row]
            /\ row.org = users[req[r].target].org
            /\ row.state \in {users[req[r].target].state, "deleted"}
      BY ManagerWrites
    <3>2. QED
      BY <2>1, <3>1 DEF Live
  <2>4. CommitAccept(r)
    BY <2>2, <2>3
  <2> DEFINE i == req[r].invite
             mail == invites[i].email
  <2>5. /\ i \in DOMAIN invites /\ mail \in People
        /\ uses' = [uses EXCEPT ![i] = @ + 1]
    BY <2>4, AcceptanceWrites
  <2>6. PICK row \in User :
          /\ users' = [users EXCEPT ![mail] = row]
          /\ row.org \in {users[mail].org, invites[i].org}
          /\ row.state = users[mail].state \/ row.org = invites[i].org
    BY <2>4, AcceptanceWrites
  <2>7. uses'[i] > uses[i]
    BY <2>5 DEF TeamInv, TypeOK
  <2> HIDE DEF i, mail
  <2>8. u = mail /\ invites[i].org = users'[u].org
    BY <2>1, <2>5, <2>6 DEF Live
  <2>9. QED
    BY <2>5, <2>7, <2>8 DEF mail
<1>2. QED
  BY <1>1, TeamInvariant, PTL DEF Spec, JoinsByInvitation

\* A removal that nobody overtook leaves an owner behind, whatever else the
\* other requests are about.
THEOREM RemovalKeepsOwnerCorrect == Spec => RemovalKeepsOwner
<1> DEFINE Body == \A o \in Orgs, r \in Requests \ stale :
             req[r].op = "remove" /\ Owners(o) # {} /\ Owners(o)' = {} => req'[r] = req[r]
<1>1. TeamInv /\ [Next]_vars => [Body]_vars
  <2> SUFFICES ASSUME TeamInv, [Next]_vars, NEW o \in Orgs, NEW r \in Requests \ stale,
                      req[r].op = "remove", Owners(o) # {}, Owners(o)' = {},
                      req'[r] # req[r]
               PROVE  FALSE
    OBVIOUS
  <2>1. users' # users
    BY DEF Owners, Live
  <2>2. CommitRemoval(r)
    BY <2>1, OwnStep, WritingStep DEF CommitRole, CommitAccept
  <2>3. Holds(req[r]) /\ req[r].target \in People
    BY <2>2, ManagerWrites
  <2>4. /\ req[r].row = users[req[r].target] /\ req[r].row.org = req[r].org
        /\ req[r].at = "counted" => ~(Owners(req[r].org) \subseteq {req[r].target})
    BY <2>3, Reading DEF Current
  <2>5. PICK w \in Owners(o) : TRUE
    OBVIOUS
  <2>6. ASSUME NEW v \in Owners(o) PROVE v = req[r].target
    <3>1. users' = [users EXCEPT ![req[r].target].state = "deleted"]
      BY <2>2 DEF CommitRemoval
    <3>2. v # req[r].target => v \in Owners(o)'
      BY <3>1 DEF TeamInv, TypeOK, Owners, Live
    <3>3. QED
      BY <3>2
  <2>7. users[req[r].target].org = o /\ users[req[r].target].role = "owner"
    BY <2>5, <2>6 DEF Owners
  <2>8. req[r].at = "counted"
    BY <2>2, <2>4, <2>7 DEF CommitRemoval
  <2>9. QED
    BY <2>4, <2>6, <2>7, <2>8
<1>2. QED
  BY <1>1, TeamInvariant, PTL DEF Spec, RemovalKeepsOwner

\* A manager's change that nobody overtook is made to a row of the manager's
\* own organisation.
THEOREM TenantIsolationCorrect == Spec => TenantIsolation
<1> DEFINE Body == \A r \in Requests \ stale :
             req[r].op \in {"role", "remove"} /\ req'[r] # req[r] /\ users' # users =>
               users[req[r].target].org = req[r].org
<1>1. TeamInv /\ [Next]_vars => [Body]_vars
  <2> SUFFICES ASSUME TeamInv, [Next]_vars, NEW r \in Requests \ stale,
                      req[r].op \in {"role", "remove"}, req'[r] # req[r], users' # users
               PROVE  users[req[r].target].org = req[r].org
    OBVIOUS
  <2>1. CommitRole(r) \/ CommitRemoval(r)
    BY OwnStep, WritingStep DEF CommitAccept
  <2>2. Holds(req[r])
    BY <2>1, ManagerWrites
  <2>3. QED
    BY <2>2, Reading DEF Current
<1>2. QED
  BY <1>1, TeamInvariant, PTL DEF Spec, TenantIsolation

\* An invitation is accepted again only by a request that another one overtook.
THEOREM InviteUsedOnceCorrect == Spec => InviteUsedOnce
<1> DEFINE Body == \A i \in Invites : uses'[i] > uses[i] /\ uses[i] > 0 =>
             \E r \in stale : req'[r] # req[r] /\ req[r].invite = i
<1>1. TeamInv /\ [Next]_vars => [Body]_vars
  <2> SUFFICES ASSUME TeamInv, [Next]_vars, NEW i \in Invites,
                      uses'[i] > uses[i], uses[i] > 0
               PROVE  \E r \in stale : req'[r] # req[r] /\ req[r].invite = i
    OBVIOUS
  <2>1. uses \in [Invites -> Nat] /\ uses' # uses
    BY DEF TeamInv, TypeOK
  <2>2. PICK r \in Requests : CommitRole(r) \/ CommitRemoval(r) \/ CommitAccept(r)
    BY <2>1, Writers
  <2>3. CommitAccept(r)
    BY <2>1, <2>2, ManagerWrites
  <2>4. /\ req[r].op = "accept" /\ req[r] # Idle /\ req' = [req EXCEPT ![r] = Idle]
        /\ uses' = [uses EXCEPT ![req[r].invite] = @ + 1]
    BY <2>3, AcceptanceWrites
  <2>5. req[r].invite = i
    BY <2>1, <2>4
  <2>6. invites[i].state = "accepted"
    BY DEF TeamInv, UsedIsAccepted
  <2>7. r \in stale
    BY <2>4, <2>5, <2>6, Reading DEF Current
  <2>8. req'[r] # req[r]
    BY <2>4 DEF TeamInv, RequestsTyped
  <2>9. QED
    BY <2>5, <2>7, <2>8
<1>2. QED
  BY <1>1, TeamInvariant, PTL DEF Spec, InviteUsedOnce
=============================================================================
