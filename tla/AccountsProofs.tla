--------------------------- MODULE AccountsProofs ---------------------------
(***************************************************************************)
(* Registration is all or nothing, for any number of requests, addresses   *)
(* and slugs.                                                              *)
(***************************************************************************)
EXTENDS Accounts, TLAPS

\* A registration that has flushed its organisation holds a slug nobody has
\* committed or holds; one that has flushed its user holds such an address.
Founding(r) == req[r].op = "register" /\ req[r].at \in {"founding", "mailing", "committing"}
Entering(r) == req[r].op = "register" /\ req[r].at \in {"mailing", "committing"}
SlugsHeldOnce ==
  \A r \in Requests : Founding(r) =>
    /\ req[r].slug \notin orgs
    /\ \A q \in Requests \ {r} : Founding(q) => req[q].slug # req[r].slug
EmailsHeldOnce ==
  \A r \in Requests : Entering(r) =>
    /\ ~Present(req[r].email)
    /\ \A q \in Requests \ {r} : Entering(q) => req[q].email # req[r].email

\* A registration begins without a row and names a slug; any other request
\* has found a row and names none.
RequestsKnowTheirRow ==
  \A r \in Requests : req[r] # Idle =>
    /\ req[r].op = "register" => req[r].slug \in Slugs /\ req[r].row = Absent
    /\ req[r].op # "register" =>
         /\ req[r].slug = NoOrg /\ Present(req[r].email) /\ req[r].row.state # "absent"

AbsentRowsAreEmpty == \A e \in Emails : ~Present(e) => users[e] = Absent

WholeInv ==
  /\ TypeOK /\ AccountIsWhole
  /\ SlugsHeldOnce /\ EmailsHeldOnce /\ RequestsKnowTheirRow /\ AbsentRowsAreEmpty

----------------------------------------------------------------------------
(* The row a request leaves *)

\* The unit of work writes a column from the request or leaves the committed
\* one, so the row keeps its type.
LEMMA WrittenType ==
  ASSUME NEW read \in User, NEW left \in User, NEW current \in User
  PROVE  Written(read, left, current) \in User
<1> DEFINE w == Written(read, left, current)
<1>1. DOMAIN current = {"state", "founded", "password", "verified", "vtoken", "rtoken"}
  BY DEF User
<1>2. w = [state |-> w["state"], founded |-> w["founded"], password |-> w["password"],
           verified |-> w["verified"], vtoken |-> w["vtoken"], rtoken |-> w["rtoken"]]
  BY <1>1 DEF Written
<1>3. /\ w["state"] \in {"absent", "live", "deleted"} /\ w["founded"] \in Slugs \cup {NoOrg}
      /\ w["password"] \in 0 .. MaxTokens /\ w["verified"] \in BOOLEAN
      /\ w["vtoken"] \in 0 .. MaxTokens /\ w["rtoken"] \in 0 .. MaxTokens
  BY <1>1 DEF Written, User
<1>4. [state |-> w["state"], founded |-> w["founded"], password |-> w["password"],
       verified |-> w["verified"], vtoken |-> w["vtoken"], rtoken |-> w["rtoken"]] \in User
  BY <1>3 DEF User
<1>5. QED
  BY <1>2, <1>4

\* A column the request has not changed keeps what is committed.
LEMMA WrittenKeeps ==
  ASSUME NEW read \in User, NEW left \in User, NEW current \in User,
         left.state = read.state, left.founded = read.founded
  PROVE  /\ Written(read, left, current).state = current.state
         /\ Written(read, left, current).founded = current.founded
<1>1. DOMAIN current = {"state", "founded", "password", "verified", "vtoken", "rtoken"}
  BY DEF User
<1>2. QED
  BY <1>1 DEF Written, User

\* A row inserted is the one the request has made.
LEMMA WrittenInserts ==
  ASSUME NEW left \in User
  PROVE  /\ Written(Absent, left, Absent).state = left.state
         /\ Written(Absent, left, Absent).founded = left.founded
<1>1. DOMAIN Absent = {"state", "founded", "password", "verified", "vtoken", "rtoken"}
  BY DEF Absent
<1>2. QED
  BY <1>1 DEF Written, Absent, User

\* An address without an account has a row of the right type.
LEMMA AbsentType == Absent \in User
BY AccountsAssumption DEF Absent, User, NoToken

\* What each operation leaves is a row; only a registration changes whether
\* there is one and what it has founded.
LEMMA LeavesType ==
  ASSUME TypeOK, RequestsKnowTheirRow, NEW r \in Requests, req[r] # Idle
  PROVE  /\ Leaves(r) \in User
         /\ req[r].op = "register" => Leaves(r).state = "live" /\ Leaves(r).founded = req[r].slug
         /\ req[r].op # "register" =>
              Leaves(r).state = req[r].row.state /\ Leaves(r).founded = req[r].row.founded
<1>1. req[r] \in Request
  BY DEF TypeOK
<1>2. NoToken \in 0 .. MaxTokens /\ req[r].token \in 0 .. MaxTokens
  BY <1>1, AccountsAssumption DEF NoToken, Request, Tokens
<1>3. CASE req[r].op = "register"
  BY <1>1, <1>2, <1>3, AbsentType DEF Leaves, User, Absent, Request
<1>4. CASE req[r].op = "verify"
  BY <1>1, <1>2, <1>4 DEF Leaves, User, Request
<1>5. CASE req[r].op = "forgot"
  BY <1>1, <1>2, <1>5 DEF Leaves, User, Request
<1>6. CASE req[r].op = "reset"
  BY <1>1, <1>2, <1>6 DEF Leaves, User, Request
<1>7. QED
  BY <1>1, <1>3, <1>4, <1>5, <1>6 DEF Request

----------------------------------------------------------------------------
(* Steps *)

\* A request that goes on, with what has been read and is held unchanged.
LEMMA Moves ==
  ASSUME WholeInv, TypeOK', UNCHANGED <<users, orgs>>,
         NEW r \in Requests, NEW to \in Request \cup {Idle}, req' = [req EXCEPT ![r] = to],
         to # Idle =>
           /\ to.op = "register" => to.slug \in Slugs /\ to.row = Absent
           /\ to.op # "register" =>
                to.slug = NoOrg /\ Present(to.email) /\ to.row.state # "absent",
         to.op = "register" /\ to.at \in {"founding", "mailing", "committing"} =>
           to.slug \notin orgs /\ \A q \in Requests \ {r} : Founding(q) => req[q].slug # to.slug,
         to.op = "register" /\ to.at \in {"mailing", "committing"} =>
           ~Present(to.email) /\ \A q \in Requests \ {r} : Entering(q) => req[q].email # to.email
  PROVE  WholeInv'
<1>1. \A q \in Requests : req'[q] = IF q = r THEN to ELSE req[q]
  BY DEF WholeInv, TypeOK
<1>2. SlugsHeldOnce'
  BY <1>1 DEF WholeInv, SlugsHeldOnce, Founding
<1>3. EmailsHeldOnce'
  BY <1>1 DEF WholeInv, EmailsHeldOnce, Entering, Present
<1>4. RequestsKnowTheirRow'
  BY <1>1 DEF WholeInv, RequestsKnowTheirRow, Present
<1>5. AccountIsWhole' /\ AbsentRowsAreEmpty'
  BY DEF WholeInv, AccountIsWhole, AbsentRowsAreEmpty, Present
<1>6. QED
  BY <1>2, <1>3, <1>4, <1>5 DEF WholeInv

\* Requests may end, and rows change, as long as what is founded stays and a new
\* row takes no address that a registration holds.
LEMMA Rests ==
  ASSUME WholeInv, TypeOK', UNCHANGED orgs,
         \A q \in Requests : req'[q] = req[q] \/ req'[q] = Idle,
         \A e \in Emails : users'[e].founded = users[e].founded,
         \A e \in Emails : Present(e) => Present(e)',
         \A e \in Emails : ~Present(e)' => users'[e] = users[e],
         \A e \in Emails : Present(e)' /\ ~Present(e) =>
           \A q \in Requests : Entering(q) => req[q].email # e
  PROVE  WholeInv'
<1>1. \A q \in Requests : Idle.op # "register" /\ (req[q] # Idle => req[q].email \in Emails)
  BY DEF WholeInv, TypeOK, Request, Idle
<1>2. SlugsHeldOnce'
  BY <1>1 DEF WholeInv, SlugsHeldOnce, Founding
<1>3. EmailsHeldOnce'
  <2> SUFFICES ASSUME NEW r \in Requests, Entering(r)'
               PROVE  /\ ~Present(req[r].email)'
                      /\ \A q \in Requests \ {r} : Entering(q)' => req'[q].email # req'[r].email
    BY <1>1 DEF EmailsHeldOnce, Entering, Present
  <2>1. req'[r] = req[r] /\ Entering(r) /\ req[r].email \in Emails
    BY <1>1 DEF Entering, Idle
  <2>2. ~Present(req[r].email)
    BY <2>1 DEF WholeInv, EmailsHeldOnce
  <2>3. ~Present(req[r].email)'
    BY <2>1, <2>2 DEF Present
  <2>4. QED
    BY <1>1, <2>1, <2>3 DEF WholeInv, EmailsHeldOnce, Entering
<1>4. RequestsKnowTheirRow'
  BY <1>1 DEF WholeInv, RequestsKnowTheirRow, Present
<1>5. AccountIsWhole'
  BY DEF WholeInv, AccountIsWhole
<1>6. AbsentRowsAreEmpty'
  BY DEF WholeInv, AbsentRowsAreEmpty
<1>7. QED
  BY <1>2, <1>3, <1>4, <1>5, <1>6 DEF WholeInv

\* A registration puts its founder and its organisation there together.
LEMMA Founds ==
  ASSUME WholeInv, TypeOK', NEW r \in Requests, Founding(r), Entering(r),
         NEW row \in User, row.state = "live", row.founded = req[r].slug,
         users' = [users EXCEPT ![req[r].email] = row],
         orgs' = orgs \cup {req[r].slug}, req' = [req EXCEPT ![r] = Idle]
  PROVE  WholeInv'
<1> DEFINE mail == req[r].email
           slug == req[r].slug
<1>0. Idle.op # "register"
  BY DEF Idle
<1>1. /\ mail \in Emails /\ slug \in Slugs /\ slug # NoOrg /\ slug \notin orgs
      /\ ~Present(mail) /\ users[mail] = Absent
  <2>1. req[r] # Idle /\ req[r].op = "register"
    BY <1>0 DEF Founding
  <2>2. mail \in Emails /\ slug \in Slugs
    BY <2>1 DEF WholeInv, TypeOK, Request, RequestsKnowTheirRow
  <2>3. slug \notin orgs /\ ~Present(mail)
    BY DEF WholeInv, SlugsHeldOnce, EmailsHeldOnce
  <2>4. QED
    BY <2>2, <2>3, AccountsAssumption DEF WholeInv, AbsentRowsAreEmpty
<1>2. \A e \in Emails : users'[e] = IF e = mail THEN row ELSE users[e]
  BY DEF WholeInv, TypeOK
<1>3. \A q \in Requests : req'[q] = IF q = r THEN Idle ELSE req[q]
  BY DEF WholeInv, TypeOK
<1>4. Absent.founded = NoOrg /\ NoOrg \notin orgs
  BY AccountsAssumption DEF WholeInv, TypeOK, Absent
<1>5. AccountIsWhole'
  <2>1. ASSUME NEW t \in orgs'
        PROVE  \E e \in Emails : \A d \in Emails : users'[d].founded = t <=> d = e
    <3>1. CASE t = slug
      <4>1. \A d \in Emails \ {mail} : users[d].founded # slug
        BY <1>1 DEF WholeInv, AccountIsWhole
      <4>2. \A d \in Emails : users'[d].founded = t <=> d = mail
        BY <1>2, <3>1, <4>1
      <4>3. QED
        BY <1>1, <4>2
    <3>2. CASE t # slug
      <4>1. PICK e \in Emails : \A d \in Emails : users[d].founded = t <=> d = e
        BY <2>1, <3>2 DEF WholeInv, AccountIsWhole
      <4>2. t # NoOrg /\ e # mail
        BY <1>1, <1>4, <2>1, <3>2, <4>1
      <4>3. \A d \in Emails : users'[d].founded = t <=> d = e
        BY <1>2, <3>2, <4>1, <4>2
      <4>4. QED
        BY <4>3
    <3>3. QED
      BY <3>1, <3>2
  <2>2. \A e \in Emails : users'[e].founded \in orgs' \cup {NoOrg}
    BY <1>2 DEF WholeInv, AccountIsWhole
  <2>3. QED
    BY <2>1, <2>2 DEF AccountIsWhole
<1>6. SlugsHeldOnce'
  <2>1. \A q \in Requests : Founding(q)' => Founding(q) /\ q # r /\ req'[q] = req[q]
    BY <1>0, <1>3 DEF Founding
  <2>2. \A q \in Requests : Founding(q) /\ q # r => req[q].slug \notin orgs \cup {slug}
    BY DEF WholeInv, SlugsHeldOnce
  <2>3. QED
    BY <2>1, <2>2 DEF WholeInv, SlugsHeldOnce
<1>7. EmailsHeldOnce'
  <2>1. \A q \in Requests : Entering(q)' => Entering(q) /\ q # r /\ req'[q] = req[q]
    BY <1>0, <1>3 DEF Entering
  <2>2. \A q \in Requests : Entering(q) => req[q].email \in Emails
    <3>1. \A q \in Requests : Entering(q) => req[q] # Idle
      BY <1>0 DEF Entering
    <3>2. QED
      BY <3>1 DEF WholeInv, TypeOK, Request
  <2>3. \A q \in Requests : Entering(q) /\ q # r =>
          req[q].email # mail /\ ~Present(req[q].email)
    BY DEF WholeInv, EmailsHeldOnce
  <2>4. \A e \in Emails \ {mail} : Present(e)' <=> Present(e)
    BY <1>2 DEF Present
  <2>5. \A q \in Requests : Entering(q) /\ q # r => ~(users'[req[q].email].state # "absent")
    BY <2>2, <2>3, <2>4 DEF Present
  <2>6. QED
    BY <2>1, <2>5 DEF WholeInv, EmailsHeldOnce, Present
<1>8. RequestsKnowTheirRow'
  <2>1. \A e \in Emails : Present(e) => Present(e)'
    BY <1>2 DEF Present
  <2>2. \A q \in Requests : req[q] # Idle => req[q].email \in Emails
    BY DEF WholeInv, TypeOK, Request
  <2>3. \A q \in Requests : req'[q] # Idle => req'[q] = req[q]
    BY <1>3
  <2>4. QED
    BY <2>1, <2>2, <2>3 DEF WholeInv, RequestsKnowTheirRow, Present
<1>9. AbsentRowsAreEmpty'
  BY <1>2 DEF WholeInv, AbsentRowsAreEmpty, Present
<1>10. QED
  BY <1>5, <1>6, <1>7, <1>8, <1>9 DEF WholeInv

----------------------------------------------------------------------------
(* The invariant *)

\* What a request that goes on is: itself, at another point.
LEMMA Proceeds ==
  ASSUME TypeOK, NEW r \in Requests, req[r] # Idle,
         NEW at \in {"free", "founding", "mailing", "committing"},
         NEW to, to = [req[r] EXCEPT !.at = at]
  PROVE  /\ to \in Request /\ to.at = at /\ to.op = req[r].op
         /\ to.email = req[r].email /\ to.slug = req[r].slug /\ to.row = req[r].row
<1>1. req[r] \in Request
  BY DEF TypeOK
<1>2. QED
  BY <1>1 DEF Request

\* A request that begins is a request, and holds nothing yet.
LEMMA Begins ==
  ASSUME WholeInv, NEW r \in Requests, Begin(r)
  PROVE  /\ UNCHANGED <<users, orgs, expired>> /\ issued' \in 0 .. MaxTokens
         /\ \E to \in Request :
              /\ req' = [req EXCEPT ![r] = to]
              /\ to.op = "register" => to.at = "free" /\ to.slug \in Slugs /\ to.row = Absent
              /\ to.op # "register" =>
                   to.slug = NoOrg /\ Present(to.email) /\ to.row.state # "absent"
<1>1. issued \in 0 .. MaxTokens /\ users \in [Emails -> User] /\ MaxTokens \in Nat
  BY AccountsAssumption DEF WholeInv, TypeOK
<1>2. CASE Register(r)
  <2>1. issued' \in Tokens /\ issued' \in 0 .. MaxTokens /\ UNCHANGED <<users, orgs, expired>>
    BY <1>1, <1>2 DEF Register, Draw, Tokens
  <2>2. PICK w \in Wanted :
          req' = [req EXCEPT ![r] = [op |-> "register", at |-> "free", email |-> w[1],
                    slug |-> w[2], token |-> issued', row |-> Absent]]
    BY <1>2 DEF Register, Becomes
  <2>3. w[1] \in Emails /\ w[2] \in Slugs
    BY AccountsAssumption
  <2> DEFINE to == [op |-> "register", at |-> "free", email |-> w[1], slug |-> w[2],
                    token |-> issued', row |-> Absent]
  <2>4. to \in Request
    BY <2>1, <2>3, AbsentType DEF Request
  <2>5. to.op = "register" /\ to.at = "free" /\ to.slug = w[2] /\ to.row = Absent
    OBVIOUS
  <2> HIDE DEF to
  <2>6. req' = [req EXCEPT ![r] = to]
    BY <2>2 DEF to
  <2>7. QED
    BY <2>1, <2>3, <2>4, <2>5, <2>6
<1>3. ASSUME NEW op \in {"verify", "reset"}, NEW column \in {"vtoken", "rtoken"},
             FindByToken(r, op, column)
      PROVE  /\ UNCHANGED <<users, orgs, expired, issued>>
             /\ \E to \in Request :
                  /\ req' = [req EXCEPT ![r] = to]
                  /\ to.op # "register" /\ to.slug = NoOrg
                  /\ Present(to.email) /\ to.row.state # "absent"
  <2>1. PICK e \in Emails, t \in Tokens \ expired :
          /\ users[e][column] = t
          /\ req' = [req EXCEPT ![r] = [op |-> op, at |-> "committing", email |-> e,
                       slug |-> NoOrg, token |-> t, row |-> users[e]]]
    BY <1>3 DEF FindByToken, Becomes
  <2>2. Absent[column] \notin Tokens
    BY <1>1 DEF Absent, NoToken, Tokens
  <2>3. Present(e)
    BY <2>1, <2>2 DEF WholeInv, AbsentRowsAreEmpty
  <2> DEFINE to == [op |-> op, at |-> "committing", email |-> e, slug |-> NoOrg,
                    token |-> t, row |-> users[e]]
  <2>4. to \in Request
    BY <1>1 DEF Request
  <2>5. /\ to.op # "register" /\ to.slug = NoOrg
        /\ Present(to.email) /\ to.row.state # "absent"
    BY <2>3 DEF Present
  <2> HIDE DEF to
  <2>6. req' = [req EXCEPT ![r] = to]
    BY <2>1 DEF to
  <2>7. QED
    BY <2>4, <2>5, <2>6, <1>3 DEF FindByToken
<1>4. CASE FindVerification(r)
  BY <1>1, <1>3, <1>4 DEF FindVerification
<1>5. CASE FindReset(r)
  BY <1>1, <1>3, <1>5 DEF FindReset
<1>6. CASE initiate_password_reset(r)
  <2>1. issued' \in Tokens /\ issued' \in 0 .. MaxTokens /\ UNCHANGED <<users, orgs, expired>>
    BY <1>1, <1>6 DEF initiate_password_reset, Draw, Tokens
  <2>2. PICK e \in Emails :
          /\ Present(e)
          /\ req' = [req EXCEPT ![r] = [op |-> "forgot", at |-> "mailing", email |-> e,
                       slug |-> NoOrg, token |-> issued', row |-> users[e]]]
    BY <1>6 DEF initiate_password_reset, Becomes
  <2> DEFINE to == [op |-> "forgot", at |-> "mailing", email |-> e, slug |-> NoOrg,
                    token |-> issued', row |-> users[e]]
  <2>3. to \in Request
    BY <1>1, <2>1 DEF Request
  <2>4. /\ to.op # "register" /\ to.slug = NoOrg
        /\ Present(to.email) /\ to.row.state # "absent"
    BY <2>2 DEF Present
  <2> HIDE DEF to
  <2>5. req' = [req EXCEPT ![r] = to]
    BY <2>2 DEF to
  <2>6. QED
    BY <2>1, <2>3, <2>4, <2>5
<1>7. QED
  BY <1>2, <1>4, <1>5, <1>6 DEF Begin

\* A request that fails, or is refused, ends and leaves nothing.
LEMMA Refused ==
  ASSUME WholeInv, NEW r \in Requests, req' = [req EXCEPT ![r] = Idle],
         UNCHANGED <<users, orgs, issued, expired>>, stale' \subseteq Requests
  PROVE  WholeInv'
<1>1. TypeOK'
  BY DEF WholeInv, TypeOK
<1>2. \A q \in Requests : req'[q] = req[q] \/ req'[q] = Idle
  BY DEF WholeInv, TypeOK
<1>3. QED
  BY <1>1, <1>2, Rests DEF Present

\* A request at a point that is not idle goes on to the next one: with its
\* organisation, and then its user, flushed, or with its mail sent.
LEMMA GoesOn ==
  ASSUME WholeInv, NEW r \in Requests, FlushOrg(r) \/ FlushUser(r) \/ Mail(r),
         stale' \subseteq Requests
  PROVE  WholeInv'
<1>1. req[r] # Idle
  <2>1. Idle.at = "idle"
    BY DEF Idle
  <2>2. QED
    BY <2>1 DEF FlushOrg, FlushUser, Mail
<1>2. ASSUME NEW at \in {"founding", "mailing", "committing"}, MovesTo(r, at),
             UNCHANGED <<users, orgs, issued, expired>>,
             req[r].op = "register" =>
               /\ req[r].slug \notin orgs
               /\ \A q \in Requests \ {r} : Founding(q) => req[q].slug # req[r].slug,
             req[r].op = "register" /\ at # "founding" =>
               /\ ~Present(req[r].email)
               /\ \A q \in Requests \ {r} : Entering(q) => req[q].email # req[r].email
      PROVE  WholeInv'
  <2> DEFINE to == [req[r] EXCEPT !.at = at]
  <2>1. /\ to \in Request /\ to.at = at /\ to.op = req[r].op
        /\ to.email = req[r].email /\ to.slug = req[r].slug /\ to.row = req[r].row
    <3>1. TypeOK /\ at \in {"free", "founding", "mailing", "committing"}
      BY DEF WholeInv
    <3>2. QED
      BY <1>1, <3>1, Proceeds
  <2>2. req' = [req EXCEPT ![r] = to]
    BY <1>2 DEF MovesTo, Becomes
  <2> HIDE DEF to
  <2>3. TypeOK'
    BY <1>2, <2>1, <2>2 DEF WholeInv, TypeOK
  <2>4. /\ to.op = "register" => to.slug \in Slugs /\ to.row = Absent
        /\ to.op # "register" =>
             to.slug = NoOrg /\ Present(to.email) /\ to.row.state # "absent"
    BY <1>1, <2>1 DEF WholeInv, RequestsKnowTheirRow
  <2>5. to \in Request \cup {Idle} /\ UNCHANGED <<users, orgs>>
    BY <1>2, <2>1
  <2>6. to.op = "register" /\ to.at \in {"founding", "mailing", "committing"} =>
          to.slug \notin orgs /\ \A q \in Requests \ {r} : Founding(q) => req[q].slug # to.slug
    BY <1>2, <2>1
  <2>7. to.op = "register" /\ to.at \in {"mailing", "committing"} =>
          ~Present(to.email) /\ \A q \in Requests \ {r} : Entering(q) => req[q].email # to.email
    BY <1>2, <2>1
  <2>8. QED
    BY <2>2, <2>3, <2>4, <2>5, <2>6, <2>7, Moves
<1>3. CASE FlushOrg(r)
  <2>1. CASE req[r].slug \in orgs
    BY <1>3, <2>1, Refused DEF FlushOrg, Becomes
  <2>2. CASE req[r].slug \notin orgs
    <3>1. \A q \in Requests \ {r} : Founding(q) => req[q].slug # req[r].slug
      BY <1>3 DEF FlushOrg, SlugHeld, Holds, Founding
    <3>2. QED
      BY <1>2, <1>3, <2>2, <3>1 DEF FlushOrg
  <2>3. QED
    BY <2>1, <2>2
<1>4. CASE FlushUser(r)
  <2>1. CASE Present(req[r].email)
    BY <1>4, <2>1, Refused DEF FlushUser, Becomes
  <2>2. CASE ~Present(req[r].email)
    <3>1. \A q \in Requests \ {r} : Entering(q) => req[q].email # req[r].email
      BY <1>4 DEF FlushUser, EmailHeld, Holds, Entering
    <3>2. req[r].op = "register" => Founding(r)
      BY <1>4 DEF FlushUser, Founding
    <3>3. QED
      BY <1>2, <1>4, <2>2, <3>1, <3>2 DEF FlushUser, WholeInv, SlugsHeldOnce
  <2>3. QED
    BY <2>1, <2>2
<1>5. CASE Mail(r)
  <2>1. req[r].op = "register" => Founding(r) /\ Entering(r)
    BY <1>5 DEF Mail, Founding, Entering
  <2>2. QED
    BY <1>2, <1>5, <2>1 DEF Mail, WholeInv, SlugsHeldOnce, EmailsHeldOnce
<1>6. QED
  BY <1>3, <1>4, <1>5

\* A commit founds an account, or writes a row without touching what it founded.
LEMMA Commits ==
  ASSUME WholeInv, NEW r \in Requests, Commit(r), stale' \subseteq Requests
  PROVE  WholeInv'
<1> DEFINE mail == req[r].email
           row == Written(req[r].row, Leaves(r), users[mail])
<1>0. Idle.at = "idle" /\ req[r].at = "committing"
  BY DEF Idle, Commit
<1>1. req[r] # Idle /\ req[r] \in Request
  BY <1>0 DEF WholeInv, TypeOK
<1>2. mail \in Emails /\ req[r].row \in User /\ users[mail] \in User
  BY <1>1 DEF WholeInv, TypeOK, Request
<1>3. /\ Leaves(r) \in User
      /\ req[r].op = "register" => Leaves(r).state = "live" /\ Leaves(r).founded = req[r].slug
      /\ req[r].op # "register" =>
           Leaves(r).state = req[r].row.state /\ Leaves(r).founded = req[r].row.founded
  BY <1>1, LeavesType DEF WholeInv
<1>4. row \in User
  BY <1>2, <1>3, WrittenType
<1>5. users' = [users EXCEPT ![mail] = row] /\ req' = [req EXCEPT ![r] = Idle]
  BY DEF Commit, Becomes
<1>6. orgs' = orgs \cup ({req[r].slug} \ {NoOrg}) /\ issued' = issued /\ expired' = expired
  BY DEF Commit
<1>7. TypeOK'
  BY <1>1, <1>4, <1>5, <1>6 DEF WholeInv, TypeOK, Request
<1>8. CASE req[r].op = "register"
  <2>1. Founding(r) /\ Entering(r)
    BY <1>0, <1>8 DEF Founding, Entering
  <2>2. req[r].row = Absent /\ req[r].slug \in Slugs
    BY <1>1, <1>8 DEF WholeInv, RequestsKnowTheirRow
  <2>3. users[mail] = Absent
    BY <1>2, <2>1 DEF WholeInv, EmailsHeldOnce, AbsentRowsAreEmpty
  <2>4. row.state = "live" /\ row.founded = req[r].slug
    BY <1>3, <1>8, <2>2, <2>3, WrittenInserts
  <2>5. orgs' = orgs \cup {req[r].slug}
    BY <1>6, <2>2, AccountsAssumption
  <2> HIDE DEF row
  <2>6. QED
    BY <1>4, <1>5, <1>7, <2>1, <2>4, <2>5, Founds
<1>9. CASE req[r].op # "register"
  <2>1. req[r].slug = NoOrg /\ Present(mail)
    BY <1>1, <1>9 DEF WholeInv, RequestsKnowTheirRow
  <2>2. row.state = users[mail].state /\ row.founded = users[mail].founded
    BY <1>2, <1>3, <1>9, WrittenKeeps
  <2> HIDE DEF row
  <2>3. \A e \in Emails : users'[e].state = users[e].state /\ users'[e].founded = users[e].founded
    BY <1>5, <2>2 DEF WholeInv, TypeOK
  <2>4. \A e \in Emails : ~Present(e)' => users'[e] = users[e]
    BY <1>5, <2>1, <2>3 DEF WholeInv, TypeOK, Present
  <2>5. \A q \in Requests : req'[q] = req[q] \/ req'[q] = Idle
    BY <1>5 DEF WholeInv, TypeOK
  <2>6. orgs' = orgs
    BY <1>6, <2>1
  <2>7. QED
    BY <1>7, <2>3, <2>4, <2>5, <2>6, Rests DEF Present
<1>10. QED
  BY <1>8, <1>9

\* Nobody founds at first.
LEMMA WholeInit == Init => WholeInv
<1> SUFFICES ASSUME Init PROVE WholeInv
  OBVIOUS
<1>1. Absent.state = "absent" /\ Absent.founded = NoOrg /\ Idle.op = "none"
  BY DEF Absent, Idle
<1>2. TypeOK
  BY AccountsAssumption, AbsentType DEF Init, TypeOK
<1>3. AccountIsWhole
  BY <1>1 DEF Init, AccountIsWhole
<1>4. SlugsHeldOnce /\ EmailsHeldOnce
  BY <1>1 DEF Init, SlugsHeldOnce, EmailsHeldOnce, Founding, Entering
<1>5. RequestsKnowTheirRow /\ AbsentRowsAreEmpty
  BY DEF Init, RequestsKnowTheirRow, AbsentRowsAreEmpty
<1>6. QED
  BY <1>2, <1>3, <1>4, <1>5 DEF WholeInv

\* Each step of a request, of the clock and of the team keeps it.
LEMMA WholeStep == WholeInv /\ [Next]_vars => WholeInv'
<1> SUFFICES ASSUME WholeInv, [Next]_vars PROVE WholeInv'
  OBVIOUS
<1>1. ASSUME NEW r \in Requests, Begin(r), UNCHANGED stale PROVE WholeInv'
  <2>1. /\ UNCHANGED <<users, orgs, expired>> /\ issued' \in 0 .. MaxTokens
        /\ \E to \in Request :
             /\ req' = [req EXCEPT ![r] = to]
             /\ to.op = "register" => to.at = "free" /\ to.slug \in Slugs /\ to.row = Absent
             /\ to.op # "register" =>
                  to.slug = NoOrg /\ Present(to.email) /\ to.row.state # "absent"
    BY <1>1, Begins
  <2>2. PICK to \in Request :
          /\ req' = [req EXCEPT ![r] = to]
          /\ to.op = "register" => to.at = "free" /\ to.slug \in Slugs /\ to.row = Absent
          /\ to.op # "register" =>
               to.slug = NoOrg /\ Present(to.email) /\ to.row.state # "absent"
    BY <2>1
  <2>3. TypeOK'
    BY <1>1, <2>1, <2>2 DEF WholeInv, TypeOK
  <2>4. QED
    BY <2>1, <2>2, <2>3, Moves
<1>2. ASSUME NEW r \in Requests, Observe(r) PROVE stale' \subseteq Requests
  BY <1>2 DEF Observe, WholeInv, TypeOK
<1>3. ASSUME NEW r \in Requests, Proceed(r), Observe(r) PROVE WholeInv'
  BY <1>2, <1>3, GoesOn, Commits DEF Proceed
<1>4. ASSUME NEW r \in Requests, Fail(r), Observe(r) PROVE WholeInv'
  BY <1>2, <1>4, Refused DEF Fail, Becomes
<1>5. CASE ExpireToken
  <2>1. TypeOK'
    <3>1. \A e \in Emails : users[e].vtoken \in 0 .. MaxTokens /\ users[e].rtoken \in 0 .. MaxTokens
      BY DEF WholeInv, TypeOK, User
    <3>2. PICK e \in Emails :
            \E t \in {users[e].vtoken, users[e].rtoken} \ {NoToken} : expired' = expired \cup {t}
      BY <1>5 DEF ExpireToken
    <3>3. {users[e].vtoken, users[e].rtoken} \ {NoToken} \subseteq Tokens
      BY <3>1, AccountsAssumption DEF NoToken, Tokens
    <3>4. QED
      BY <1>5, <3>2, <3>3 DEF ExpireToken, WholeInv, TypeOK
  <2>2. QED
    BY <1>5, <2>1, Rests DEF ExpireToken, Present
<1>6. ASSUME NEW e \in Emails, Join(e) PROVE WholeInv'
  <2> DEFINE row == [Absent EXCEPT !.state = "live", !.verified = TRUE]
  <2>1. row \in User /\ row.state = "live" /\ row.founded = NoOrg
    BY AbsentType DEF Absent, User
  <2>2. users' = [users EXCEPT ![e] = row] /\ UNCHANGED <<orgs, req, issued, expired>>
    BY <1>6 DEF Join
  <2> HIDE DEF row
  <2>3. TypeOK'
    BY <1>6, <2>1, <2>2 DEF Join, Overtakes, WholeInv, TypeOK
  <2>4. users[e] = Absent /\ Absent.founded = NoOrg
    BY <1>6 DEF Join, WholeInv, AbsentRowsAreEmpty, Absent
  <2>5. \A d \in Emails : users'[d] = IF d = e THEN row ELSE users[d]
    BY <2>2 DEF WholeInv, TypeOK
  <2>6. \A q \in Requests : Entering(q) => req[q].email # e
    BY <1>6 DEF Join, Holds, Entering
  <2>7. QED
    BY <2>1, <2>2, <2>3, <2>4, <2>5, <2>6, Rests DEF Present
<1>7. ASSUME NEW e \in Emails, Remove(e) PROVE WholeInv'
  <2>1. users[e] \in User /\ UNCHANGED <<orgs, req, issued, expired>>
    BY <1>7 DEF Remove, WholeInv, TypeOK
  <2>2. users' = [users EXCEPT ![e] = [users[e] EXCEPT !.state = "deleted"]]
    BY <1>7 DEF Remove
  <2>3. /\ [users[e] EXCEPT !.state = "deleted"] \in User
        /\ [users[e] EXCEPT !.state = "deleted"].state = "deleted"
        /\ [users[e] EXCEPT !.state = "deleted"].founded = users[e].founded
    BY <2>1 DEF User
  <2>4. TypeOK'
    BY <1>7, <2>1, <2>2, <2>3 DEF Remove, Overtakes, WholeInv, TypeOK
  <2>5. \A d \in Emails : users'[d] =
          IF d = e THEN [users[e] EXCEPT !.state = "deleted"] ELSE users[d]
    BY <2>2 DEF WholeInv, TypeOK
  <2>6. users[e].state = "live"
    BY <1>7 DEF Remove
  <2>7. QED
    BY <2>1, <2>3, <2>4, <2>5, <2>6, Rests DEF Present
<1>8. CASE UNCHANGED vars
  BY <1>8 DEF vars, WholeInv, TypeOK, AccountIsWhole, SlugsHeldOnce, EmailsHeldOnce,
              RequestsKnowTheirRow, AbsentRowsAreEmpty, Founding, Entering, Present
<1>9. QED
  BY <1>1, <1>3, <1>4, <1>5, <1>6, <1>7, <1>8 DEF Next

\* Whoever competes and whatever fails, every organisation has exactly one
\* founder's row, and every founder's row has its organisation.
THEOREM AccountIsWholeCorrect == Spec => []AccountIsWhole
<1>1. WholeInv => AccountIsWhole
  BY DEF WholeInv
<1>2. QED
  BY <1>1, WholeInit, WholeStep, PTL DEF Spec

\* The rows, requests and tokens keep their types.
THEOREM AccountsTypeCorrect == Spec => []TypeOK
<1>1. WholeInv => TypeOK
  BY DEF WholeInv
<1>2. QED
  BY <1>1, WholeInit, WholeStep, PTL DEF Spec
----------------------------------------------------------------------------
(* Links *)

\* A request that has not been overtaken has read what is still there, and a
\* reset has found its row by its link.
ReadingsCurrent ==
  \A r \in Requests : req[r] # Idle /\ req[r].op # "register" =>
    /\ r \notin stale => req[r].row = users[req[r].email]
    /\ req[r].op = "reset" => req[r].row.rtoken = req[r].token

\* The steps of one request age the readings of the others, as it observes.
LEMMA OwnStep ==
  ASSUME WholeInv, ReadingsCurrent, NEW r \in Requests, Observe(r),
         NEW to, req' = [req EXCEPT ![r] = to],
         \A e \in Emails : e # req[r].email => users'[e] = users[e],
         to # Idle => /\ req[r] # Idle /\ UNCHANGED users
                      /\ to.op = req[r].op /\ to.row = req[r].row
                      /\ to.email = req[r].email /\ to.token = req[r].token
  PROVE  ReadingsCurrent'
<1>1. \A q \in Requests : req'[q] = IF q = r THEN to ELSE req[q]
  BY DEF WholeInv, TypeOK
<1>2. \A q \in Requests : req'[q] # Idle /\ q \notin stale' => q \notin stale
  BY DEF Observe
<1>3. \A q \in Requests \ {r} : req'[q] # Idle /\ q \notin stale' /\ req[q].email = req[r].email
        => users'[req[r].email] = users[req[r].email]
  BY DEF Observe
<1>4. \A q \in Requests : req[q] # Idle => req[q].email \in Emails
  BY DEF WholeInv, TypeOK, Request
<1>5. ASSUME NEW q \in Requests \ {r}, req'[q] # Idle, req'[q].op # "register"
      PROVE  /\ q \notin stale' => req'[q].row = users'[req'[q].email]
             /\ req'[q].op = "reset" => req'[q].row.rtoken = req'[q].token
  BY <1>1, <1>2, <1>3, <1>4, <1>5 DEF ReadingsCurrent
<1>6. ASSUME req'[r] # Idle, req'[r].op # "register"
      PROVE  /\ r \notin stale' => req'[r].row = users'[req'[r].email]
             /\ req'[r].op = "reset" => req'[r].row.rtoken = req'[r].token
  BY <1>1, <1>2, <1>6 DEF ReadingsCurrent
<1>7. QED
  BY <1>5, <1>6 DEF ReadingsCurrent

\* A commit writes one row: a registration a new one, a reset the password, a
\* reset or a request for one the link.
LEMMA CommitWrites ==
  ASSUME WholeInv, NEW r \in Requests, Commit(r)
  PROVE  /\ req[r].email \in Emails /\ req'[r] = Idle
         /\ req[r].op \in {"register", "verify", "forgot", "reset"}
         /\ \A e \in Emails : e # req[r].email => users'[e] = users[e]
         /\ req[r].op = "register" => ~Present(req[r].email)
         /\ req[r].op \in {"verify", "forgot"} =>
              users'[req[r].email].password = users[req[r].email].password
         /\ req[r].op = "verify" =>
              users'[req[r].email].rtoken = users[req[r].email].rtoken
<1> DEFINE mail == req[r].email
<1>0. req[r] # Idle
  <2>1. Idle.at = "idle" /\ req[r].at = "committing"
    BY DEF Idle, Commit
  <2>2. QED
    BY <2>1
<1>1. req[r] \in Request /\ mail \in Emails
  BY <1>0 DEF WholeInv, TypeOK, Request
<1>2. users' = [users EXCEPT ![mail] = Written(req[r].row, Leaves(r), users[mail])]
      /\ users \in [Emails -> User] /\ req' = [req EXCEPT ![r] = Idle] /\ r \in DOMAIN req
  BY DEF Commit, Becomes, WholeInv, TypeOK
<1>3. req[r].op = "register" => ~Present(mail)
  BY DEF Commit, WholeInv, EmailsHeldOnce, Entering
<1>4. users'[mail] = Written(req[r].row, Leaves(r), users[mail])
  BY <1>1, <1>2
<1>5. /\ Leaves(r).password = req[r].row.password =>
           users'[mail].password = users[mail].password
      /\ Leaves(r).rtoken = req[r].row.rtoken => users'[mail].rtoken = users[mail].rtoken
  <2>1. DOMAIN users[mail] = {"state", "founded", "password", "verified", "vtoken", "rtoken"}
    BY <1>1, <1>2 DEF User
  <2>2. QED
    BY <1>4, <2>1 DEF Written
<1>6. req[r].op \in {"verify", "forgot"} => Leaves(r).password = req[r].row.password
  BY <1>1 DEF Leaves, Request, User
<1>7. req[r].op = "verify" => Leaves(r).rtoken = req[r].row.rtoken
  BY <1>1 DEF Leaves, Request, User
<1>8. QED
  BY <1>1, <1>2, <1>3, <1>5, <1>6, <1>7 DEF Request

\* A request that nothing overtakes keeps the committed row as its reading.
LEMMA CurrentStep ==
  ASSUME WholeInv, ReadingsCurrent, [Next]_vars
  PROVE  ReadingsCurrent'
<1>1. ASSUME NEW r \in Requests, Begin(r), UNCHANGED stale PROVE ReadingsCurrent'
  <2>1. ASSUME UNCHANGED users, NEW to, req' = [req EXCEPT ![r] = to],
               to.op # "register" => to.row = users[to.email],
               to.op = "reset" => to.row.rtoken = to.token
        PROVE  ReadingsCurrent'
    BY <1>1, <2>1 DEF ReadingsCurrent, WholeInv, TypeOK
  <2>2. CASE Register(r)
    <3>1. PICK w \in Wanted :
            req' = [req EXCEPT ![r] = [op |-> "register", at |-> "free", email |-> w[1],
                      slug |-> w[2], token |-> issued', row |-> Absent]]
      BY <2>2 DEF Register, Becomes
    <3> DEFINE to == [op |-> "register", at |-> "free", email |-> w[1],
                      slug |-> w[2], token |-> issued', row |-> Absent]
    <3>2. req' = [req EXCEPT ![r] = to] /\ to.op = "register" /\ UNCHANGED users
      BY <2>2, <3>1 DEF Register
    <3> HIDE DEF to
    <3>3. QED
      BY <2>1, <3>2
  <2>3. ASSUME NEW op \in {"verify", "reset"}, NEW column,
               op = "reset" => column = "rtoken", FindByToken(r, op, column)
        PROVE  ReadingsCurrent'
    <3>1. PICK e \in Emails, t \in Tokens :
            /\ users[e][column] = t
            /\ req' = [req EXCEPT ![r] = [op |-> op, at |-> "committing", email |-> e,
                         slug |-> NoOrg, token |-> t, row |-> users[e]]]
      BY <2>3 DEF FindByToken, Becomes
    <3> DEFINE to == [op |-> op, at |-> "committing", email |-> e,
                      slug |-> NoOrg, token |-> t, row |-> users[e]]
    <3>2. /\ to.op = op /\ to.email = e /\ to.token = t /\ to.row = users[e]
          /\ req' = [req EXCEPT ![r] = to] /\ UNCHANGED users
      BY <2>3, <3>1 DEF FindByToken
    <3> HIDE DEF to
    <3>3. to.op = "reset" => to.row.rtoken = to.token
      BY <2>3, <3>1, <3>2
    <3>4. QED
      BY <2>1, <3>2, <3>3
  <2>4. CASE initiate_password_reset(r)
    <3>1. PICK e \in Emails :
            req' = [req EXCEPT ![r] = [op |-> "forgot", at |-> "mailing", email |-> e,
                      slug |-> NoOrg, token |-> issued', row |-> users[e]]]
      BY <2>4 DEF initiate_password_reset, Becomes
    <3> DEFINE to == [op |-> "forgot", at |-> "mailing", email |-> e,
                      slug |-> NoOrg, token |-> issued', row |-> users[e]]
    <3>2. /\ to.op = "forgot" /\ to.email = e /\ to.row = users[e]
          /\ req' = [req EXCEPT ![r] = to] /\ UNCHANGED users
      BY <2>4, <3>1 DEF initiate_password_reset
    <3> HIDE DEF to
    <3>3. QED
      BY <2>1, <3>2
  <2>5. QED
    BY <1>1, <2>2, <2>3, <2>4 DEF Begin, FindVerification, FindReset
<1>2. ASSUME NEW r \in Requests, Proceed(r) \/ Fail(r), Observe(r) PROVE ReadingsCurrent'
  <2>1. CASE Commit(r)
    <3>1. \A e \in Emails : e # req[r].email => users'[e] = users[e]
      BY <2>1, CommitWrites
    <3>2. QED
      BY <1>2, <2>1, <3>1, OwnStep DEF Commit, Becomes
  <2>2. CASE Fail(r)
    BY <1>2, <2>2, OwnStep DEF Fail, Becomes
  <2>3. CASE FlushOrg(r) \/ FlushUser(r) \/ Mail(r)
    <3>1. req[r] # Idle /\ UNCHANGED users
      <4>1. Idle.at = "idle" /\ req[r].at # "idle" /\ UNCHANGED users
        BY <2>3 DEF Idle, FlushOrg, FlushUser, Mail
      <4>2. QED
        BY <4>1
    <3>2. \/ req' = [req EXCEPT ![r] = Idle]
          \/ \E at : req' = [req EXCEPT ![r] = [req[r] EXCEPT !.at = at]]
      BY <2>3 DEF FlushOrg, FlushUser, Mail, MovesTo, Becomes
    <3>3. CASE req' = [req EXCEPT ![r] = Idle]
      BY <1>2, <3>1, <3>3, OwnStep
    <3>4. ASSUME NEW at, req' = [req EXCEPT ![r] = [req[r] EXCEPT !.at = at]]
          PROVE  ReadingsCurrent'
      <4> DEFINE to == [req[r] EXCEPT !.at = at]
      <4>1. /\ to.op = req[r].op /\ to.row = req[r].row
            /\ to.email = req[r].email /\ to.token = req[r].token
        BY <3>1 DEF WholeInv, TypeOK, Request
      <4>2. req' = [req EXCEPT ![r] = to]
        BY <3>4
      <4> HIDE DEF to
      <4>3. QED
        BY <1>2, <3>1, <4>1, <4>2, OwnStep
    <3>5. QED
      BY <3>2, <3>3, <3>4
  <2>4. QED
    BY <1>2, <2>1, <2>2, <2>3 DEF Proceed
<1>3. CASE ExpireToken
  BY <1>3 DEF ExpireToken, ReadingsCurrent
<1>4. ASSUME NEW e \in Emails, Join(e) \/ Remove(e) PROVE ReadingsCurrent'
  <2>1. /\ req' = req /\ Overtakes(e)
        /\ \A d \in Emails : d # e => users'[d] = users[d]
    BY <1>4 DEF Join, Remove, WholeInv, TypeOK
  <2>2. \A q \in Requests : req[q] # Idle => req[q].email \in Emails
    BY DEF WholeInv, TypeOK, Request
  <2>3. QED
    BY <2>1, <2>2 DEF ReadingsCurrent, Overtakes
<1>5. CASE UNCHANGED vars
  BY <1>5 DEF vars, ReadingsCurrent
<1>6. QED
  BY <1>1, <1>2, <1>3, <1>4, <1>5 DEF Next

\* Who writes a password or a link that was there before.
LEMMA LinksWritten ==
  ASSUME WholeInv, [Next]_vars, NEW e \in Emails, Present(e) \/ users[e].rtoken # NoToken,
         users'[e].password # users[e].password \/ users'[e].rtoken # users[e].rtoken
  PROVE  \E r \in Requests :
           /\ req[r].email = e /\ req[r].op \in {"forgot", "reset"}
           /\ req[r] # Idle /\ req'[r] = Idle
           /\ req[r].op = "forgot" => users'[e].password = users[e].password
<1>1. Present(e)
  BY DEF WholeInv, AbsentRowsAreEmpty, Absent
<1>2. PICK r \in Requests : Commit(r)
  <2>1. CASE UNCHANGED users
    BY <2>1
  <2>2. ASSUME NEW d \in Emails, Join(d) PROVE FALSE
    BY <1>1, <2>2 DEF Join, WholeInv, TypeOK
  <2>3. ASSUME NEW d \in Emails, Remove(d) PROVE FALSE
    BY <2>3 DEF Remove, WholeInv, TypeOK, User
  <2>4. ASSUME NEW q \in Requests, Begin(q) \/ FlushOrg(q) \/ FlushUser(q) \/ Mail(q) \/ Fail(q)
        PROVE  UNCHANGED users
    BY <2>4 DEF Begin, Register, FindVerification, FindReset, FindByToken,
                initiate_password_reset, FlushOrg, FlushUser, Mail, Fail
  <2>5. QED
    BY <2>1, <2>2, <2>3, <2>4 DEF Next, Proceed, ExpireToken, vars
<1>3. /\ req[r].op \in {"register", "verify", "forgot", "reset"} /\ req'[r] = Idle
      /\ req[r].email = e /\ req[r].op # "register" /\ req[r].op # "verify"
      /\ req[r].op = "forgot" => users'[e].password = users[e].password
  BY <1>1, <1>2, CommitWrites
<1>4. req[r] # Idle
  <2>1. Idle.at = "idle" /\ req[r].at = "committing"
    BY <1>2 DEF Idle, Commit
  <2>2. QED
    BY <2>1
<1>5. QED
  BY <1>3, <1>4

LinkInv == WholeInv /\ ReadingsCurrent

\* So it does in every reachable state.
LEMMA LinkInvariant == Spec => []LinkInv
<1>1. Init => LinkInv
  BY WholeInit DEF Init, LinkInv, ReadingsCurrent
<1>2. LinkInv /\ [Next]_vars => LinkInv'
  BY WholeStep, CurrentStep DEF LinkInv
<1>3. QED
  BY <1>1, <1>2, PTL DEF Spec

\* Whatever overlaps, expires or is sent twice, a password that is there changes
\* only by a reset whose link is the row's, or that was overtaken.
THEOREM PasswordNeedsLinkCorrect == Spec => PasswordNeedsLink
<1> DEFINE ByLink ==
      \A e \in Emails : Present(e) /\ users'[e].password # users[e].password =>
        \E r \in Requests :
          /\ req[r].op = "reset" /\ req[r].email = e /\ req'[r] = Idle
          /\ users[e].rtoken = req[r].token \/ r \in stale
<1>1. LinkInv /\ [Next]_vars => [ByLink]_vars
  <2> SUFFICES ASSUME LinkInv, [Next]_vars, NEW e \in Emails,
                      Present(e), users'[e].password # users[e].password
               PROVE  \E r \in Requests :
                        /\ req[r].op = "reset" /\ req[r].email = e /\ req'[r] = Idle
                        /\ users[e].rtoken = req[r].token \/ r \in stale
    OBVIOUS
  <2>1. PICK r \in Requests : /\ req[r].email = e /\ req[r].op = "reset"
                              /\ req[r] # Idle /\ req'[r] = Idle
    BY LinksWritten DEF LinkInv
  <2>2. users[e].rtoken = req[r].token \/ r \in stale
    BY <2>1 DEF LinkInv, ReadingsCurrent
  <2>3. QED
    BY <2>1, <2>2
<1>2. QED
  BY <1>1, LinkInvariant, PTL DEF Spec, PasswordNeedsLink

\* A good link is spent by its reset, replaced by another one, or taken away by
\* a reset that was overtaken, and by nothing else.
THEOREM LinkDiesForAReasonCorrect == Spec => LinkDiesForAReason
<1> DEFINE ForAReason ==
      \A e \in Emails : users[e].rtoken # NoToken /\ users'[e].rtoken # users[e].rtoken =>
        \E r \in Requests :
          /\ req[r].op \in {"forgot", "reset"} /\ req[r].email = e /\ req'[r] = Idle
          /\ req[r].op = "reset" => req[r].token = users[e].rtoken \/ r \in stale
<1>1. LinkInv /\ [Next]_vars => [ForAReason]_vars
  <2> SUFFICES ASSUME LinkInv, [Next]_vars, NEW e \in Emails,
                      users[e].rtoken # NoToken, users'[e].rtoken # users[e].rtoken
               PROVE  \E r \in Requests :
                        /\ req[r].op \in {"forgot", "reset"} /\ req[r].email = e /\ req'[r] = Idle
                        /\ req[r].op = "reset" => req[r].token = users[e].rtoken \/ r \in stale
    OBVIOUS
  <2>1. PICK r \in Requests : /\ req[r].email = e /\ req[r].op \in {"forgot", "reset"}
                              /\ req[r] # Idle /\ req'[r] = Idle
    BY LinksWritten DEF LinkInv
  <2>2. req[r].op = "reset" => req[r].token = users[e].rtoken \/ r \in stale
    BY <2>1 DEF LinkInv, ReadingsCurrent
  <2>3. QED
    BY <2>1, <2>2
<1>2. QED
  BY <1>1, LinkInvariant, PTL DEF Spec, LinkDiesForAReason
=============================================================================
