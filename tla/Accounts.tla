------------------------------ MODULE Accounts ------------------------------
(***************************************************************************)
(* Registration, verification of the address and reset of the password:    *)
(* app/services/auth_service.py behind app/routers/auth.py.                *)
(*                                                                         *)
(* A request reads with queries of its own and commits at the end; others  *)
(* commit in between.  What it has flushed but not committed keeps others  *)
(* that need the same slug or address waiting at the unique index, and is  *)
(* gone when it fails.  Mail leaves before the commit.                     *)
(*                                                                         *)
(* Tokens are random: a request owns the next number from its begin on.  A *)
(* password is named by the token it was set with.  Members who join or    *)
(* leave (module Team) are steps from outside.                             *)
(***************************************************************************)
EXTENDS Naturals

CONSTANTS
  Emails,       \* addresses; each names at most one user row
  Slugs,        \* slugs of organisations
  Requests,     \* requests served at the same time
  MaxTokens,    \* bound: the tokens that can be drawn
  Wanted,       \* the registrations that are tried: an address and a slug each
  Joined        \* addresses that join by invitation

NoOrg == "none"

ASSUME AccountsAssumption ==
  /\ MaxTokens \in Nat /\ NoOrg \notin Slugs
  /\ Wanted \subseteq Emails \X Slugs /\ Joined \subseteq Emails

VARIABLES
  users,    \* users: the committed row of each address
  orgs,     \* organisations: the slugs of the committed rows
  req,      \* what each request has read and flushed
  issued,   \* the tokens drawn so far
  expired,  \* the tokens whose hour, or day, is over
  stale     \* the requests during which the row they read was committed (an observer)

vars == <<users, orgs, req, issued, expired, stale>>

NoToken == 0
Tokens == 1 .. MaxTokens
User == [state : {"absent", "live", "deleted"}, founded : Slugs \cup {NoOrg},
         password : 0 .. MaxTokens, verified : BOOLEAN,
         vtoken : 0 .. MaxTokens, rtoken : 0 .. MaxTokens]
Absent == [state |-> "absent", founded |-> NoOrg, password |-> NoToken,
           verified |-> FALSE, vtoken |-> NoToken, rtoken |-> NoToken]
Idle == [op |-> "none", at |-> "idle", email |-> "", slug |-> NoOrg, token |-> NoToken]

Request == [op : {"register", "verify", "forgot", "reset"},
            at : {"free", "founding", "mailing", "committing"}, email : Emails,
            slug : Slugs \cup {NoOrg}, token : Tokens, row : User]

TypeOK ==
  /\ users \in [Emails -> User]
  /\ orgs \subseteq Slugs
  /\ req \in [Requests -> Request \cup {Idle}]
  /\ issued \in 0 .. MaxTokens /\ expired \subseteq Tokens
  /\ stale \subseteq Requests

Init ==
  /\ users = [e \in Emails |-> Absent]
  /\ orgs = {} /\ issued = 0 /\ expired = {} /\ stale = {}
  /\ req = [r \in Requests |-> Idle]

Present(e) == users[e].state # "absent"
Becomes(r, state) == req' = [req EXCEPT ![r] = state]
MovesTo(r, at) == Becomes(r, [req[r] EXCEPT !.at = at])
Draw == issued < MaxTokens /\ issued' = issued + 1

----------------------------------------------------------------------------
(* register_user *)

\* The address is looked up, in deleted rows too; one that is taken is refused.
Register(r) ==
  /\ req[r] = Idle
  /\ Draw
  /\ \E w \in Wanted :
       /\ ~Present(w[1])
       /\ Becomes(r, [op |-> "register", at |-> "free", email |-> w[1], slug |-> w[2],
                      token |-> issued', row |-> Absent])
  /\ UNCHANGED <<users, orgs, expired, stale>>

\* The slug is looked up and the organisation flushed; the unique indexes make
\* the flush wait while an uncommitted insert holds the same slug, or address.
Holds(q, field, at, value) == req[q].op = "register" /\ req[q].at \in at /\ req[q][field] = value
SlugHeld(r) ==
  \E q \in Requests \ {r} : Holds(q, "slug", {"founding", "mailing", "committing"}, req[r].slug)
EmailHeld(r) ==
  \E q \in Requests \ {r} : Holds(q, "email", {"mailing", "committing"}, req[r].email)

\* (First, an insert that commits at once.)
FlushOrgCommits(r) ==
  /\ req[r].at = "free"
  /\ ~SlugHeld(r)
  /\ IF req[r].slug \in orgs THEN Becomes(r, Idle) ELSE MovesTo(r, "founding")
  /\ orgs' = orgs \cup {req[r].slug}
  /\ UNCHANGED <<users, issued, expired>>
FlushOrg(r) ==
  /\ req[r].at = "free"
  /\ ~SlugHeld(r)
  /\ IF req[r].slug \in orgs THEN Becomes(r, Idle) ELSE MovesTo(r, "founding")
  /\ UNCHANGED <<users, orgs, issued, expired>>

\* (First, waiting for the holder as if nobody ever gave the address up.)
FlushUserForEver(r) ==
  /\ req[r].at = "founding"
  /\ ~EmailHeld(r) /\ ~Present(req[r].email)
  /\ MovesTo(r, "mailing")
  /\ UNCHANGED <<users, orgs, issued, expired>>
FlushUser(r) ==
  /\ req[r].at = "founding"
  /\ ~EmailHeld(r)
  /\ IF Present(req[r].email) THEN Becomes(r, Idle) ELSE MovesTo(r, "mailing")
  /\ UNCHANGED <<users, orgs, issued, expired>>

\* A mail that cannot be sent is forgotten: its link is one that nobody opens.
Mail(r) ==
  /\ req[r].at = "mailing"
  /\ MovesTo(r, "committing")
  /\ UNCHANGED <<users, orgs, issued, expired>>

----------------------------------------------------------------------------
(* verify_email, initiate_password_reset, complete_password_reset *)

\* verify_email and complete_password_reset find the row by its token; an
\* unknown or expired one is refused.
FindByToken(r, op, column) ==
  /\ req[r] = Idle
  /\ \E e \in Emails, t \in Tokens \ expired :
       /\ users[e][column] = t
       /\ Becomes(r, [op |-> op, at |-> "committing", email |-> e, slug |-> NoOrg,
                      token |-> t, row |-> users[e]])
  /\ UNCHANGED <<users, orgs, issued, expired>>
FindVerification(r) == FindByToken(r, "verify", "vtoken")
FindReset(r) == FindByToken(r, "reset", "rtoken")

\* A deleted row gets a token, too.
initiate_password_reset(r) ==
  /\ req[r] = Idle
  /\ Draw
  /\ \E e \in Emails :
       /\ Present(e)
       /\ Becomes(r, [op |-> "forgot", at |-> "mailing", email |-> e, slug |-> NoOrg,
                      token |-> issued', row |-> users[e]])
  /\ UNCHANGED <<users, orgs, expired>>

----------------------------------------------------------------------------
(* The end of a request *)

\* What the request leaves in the row it has read.  (First, a verification
\* that clears every token of the row.)
LeavesNoToken(r) ==
  LET row == req[r].row IN
  CASE req[r].op = "register" -> [Absent EXCEPT !.state = "live", !.founded = req[r].slug,
                                    !.password = req[r].token, !.vtoken = req[r].token]
    [] req[r].op = "verify" ->
         [row EXCEPT !.verified = TRUE, !.vtoken = NoToken, !.rtoken = NoToken]
    [] req[r].op = "forgot" -> [row EXCEPT !.rtoken = req[r].token]
    [] req[r].op = "reset"  -> [row EXCEPT !.password = req[r].token, !.rtoken = NoToken]
Leaves(r) ==
  LET row == req[r].row IN
  CASE req[r].op = "register" -> [Absent EXCEPT !.state = "live", !.founded = req[r].slug,
                                    !.password = req[r].token, !.vtoken = req[r].token]
    [] req[r].op = "verify" -> [row EXCEPT !.verified = TRUE, !.vtoken = NoToken]
    [] req[r].op = "forgot" -> [row EXCEPT !.rtoken = req[r].token]
    [] req[r].op = "reset"  -> [row EXCEPT !.password = req[r].token, !.rtoken = NoToken]

\* The ORM writes a column only when it differs from what the request read.
\* (First, the whole row.)
WrittenWhole(read, left, current) == left
Written(read, left, current) ==
  [column \in DOMAIN current |->
     IF left[column] = read[column] THEN current[column] ELSE left[column]]

\* (First, with an organisation for each request.)
CommitWithOrg(r) ==
  /\ req[r].at = "committing"
  /\ users' = [users EXCEPT ![req[r].email] = Written(req[r].row, Leaves(r), @)]
  /\ orgs' = orgs \cup {req[r].slug}
  /\ Becomes(r, Idle)
  /\ UNCHANGED <<issued, expired>>
Commit(r) ==
  /\ req[r].at = "committing"
  /\ users' = [users EXCEPT ![req[r].email] = Written(req[r].row, Leaves(r), @)]
  /\ orgs' = orgs \cup ({req[r].slug} \ {NoOrg})
  /\ Becomes(r, Idle)
  /\ UNCHANGED <<issued, expired>>

\* The process dies, or the database does not answer: all is rolled back.
Fail(r) ==
  /\ req[r] # Idle
  /\ Becomes(r, Idle)
  /\ UNCHANGED <<users, orgs, issued, expired>>

----------------------------------------------------------------------------
(* From outside *)

\* 24 hours, or an hour, pass over a link that could still be used.
ExpireToken ==
  /\ \E e \in Emails : \E t \in {users[e].vtoken, users[e].rtoken} \ {NoToken} :
       expired' = expired \cup {t}
  /\ UNCHANGED <<users, orgs, req, issued, stale>>

\* Team: accept_invite inserts a verified user, remove_member marks one deleted.
Overtakes(e) == stale' = stale \cup {r \in Requests : req[r].email = e}
Join(e) ==
  /\ e \in Joined /\ ~Present(e)
  /\ ~\E r \in Requests : Holds(r, "email", {"mailing", "committing"}, e)
  /\ users' = [users EXCEPT ![e] = [Absent EXCEPT !.state = "live", !.verified = TRUE]]
  /\ Overtakes(e)
  /\ UNCHANGED <<orgs, req, issued, expired>>
Remove(e) ==
  /\ users[e].state = "live"
  /\ users' = [users EXCEPT ![e].state = "deleted"]
  /\ Overtakes(e)
  /\ UNCHANGED <<orgs, req, issued, expired>>

Begin(r) ==
  Register(r) \/ FindVerification(r) \/ FindReset(r) \/ initiate_password_reset(r)
Proceed(r) == FlushOrg(r) \/ FlushUser(r) \/ Mail(r) \/ Commit(r)

\* What a request has read is stale once another one has committed to its row.
Observe(r) ==
  stale' = {q \in stale \cup {p \in Requests \ {r} : users'[req[r].email] # users[req[r].email]
                                                    /\ req[p].email = req[r].email} :
              req'[q] # Idle}

Next ==
  \/ \E r \in Requests : Begin(r) /\ UNCHANGED stale
  \/ \E r \in Requests : (Proceed(r) \/ Fail(r)) /\ Observe(r)
  \/ ExpireToken
  \/ \E e \in Emails : Join(e) \/ Remove(e)

Spec == Init /\ [][Next]_vars

\* The server goes on with the requests it has taken, and a wait at an index
\* ends with the transaction that holds the key.
FairSpec == Spec /\ \A r \in Requests : WF_vars(Proceed(r) /\ Observe(r))

----------------------------------------------------------------------------
(* Properties *)

\* Register is all or nothing, whoever competes for the slug and the address
\* and whatever fails between its two flushes, its mail and its commit: every
\* organisation has exactly one founder's row, and every founder an organisation.
AccountIsWhole ==
  /\ \A s \in orgs : \E e \in Emails : \A d \in Emails : users[d].founded = s <=> d = e
  /\ \A e \in Emails : users[e].founded \in orgs \cup {NoOrg}

\* A password changes only by a link that was mailed and is still the link of
\* the row at that moment, or by a request that was overtaken since it looked
\* the link up.  (Two resets with one link that overlap both set a password; no
\* other request sets one back to what it has read.)
PasswordNeedsLink ==
  [][\A e \in Emails : Present(e) /\ users'[e].password # users[e].password =>
       \E r \in Requests :
         /\ req[r].op = "reset" /\ req[r].email = e /\ req'[r] = Idle
         /\ users[e].rtoken = req[r].token \/ r \in stale]_vars

\* A reset link that is good stays good until it is used, replaced by a later
\* one, or taken away by a request that began before it was there: a
\* verification, a registration or a removal does not spend it.
LinkDiesForAReason ==
  [][\A e \in Emails : users[e].rtoken # NoToken /\ users'[e].rtoken # users[e].rtoken =>
       \E r \in Requests :
         /\ req[r].op \in {"forgot", "reset"} /\ req[r].email = e /\ req'[r] = Idle
         /\ req[r].op = "reset" => req[r].token = users[e].rtoken \/ r \in stale]_vars

\* Every request ends, also the registrations that wait for each other's slug
\* and address.
RequestsEnd == \A r \in Requests : []<>(req[r] = Idle)
=============================================================================
