------------------------------- MODULE Access -------------------------------
(***************************************************************************)
(* Who may act: sessions (login, refresh and logout of app/routers/auth.py *)
(* with the tokens of app/utils/crypto.py), API keys (app/routers/         *)
(* api_keys.py), and the credentials get_current_user accepts              *)
(* (app/dependencies.py).  One organisation.                               *)
(*                                                                         *)
(* A token is accepted for what it says until it expires; only the user's  *)
(* row can take it back.  A key is accepted for its row, and accepting it  *)
(* updates the row: it stays locked until the request commits, and others  *)
(* that come with the key, or change it, wait.                             *)
(*                                                                         *)
(* Time is a tick; what is left of a token's life is kept, not a clock.    *)
(***************************************************************************)
EXTENDS Naturals, FiniteSets, Relation

CONSTANTS
  People,       \* users, owners or admins of the organisation
  Sessions,     \* sessions at the same time
  Requests,     \* requests served at the same time
  InitialKeys,  \* [key names -> Key]: the rows of api_keys
  Expiring,     \* the keys with an expires_at
  Changes,      \* the changes of a key in use
  MaxKeys,      \* max_api_keys of the plan, or FREE_KEY_LIMIT
  AccessTTL,    \* access_token_expire_minutes, in ticks
  RefreshTTL    \* refresh_token_expire_days, in ticks

Keys == DOMAIN InitialKeys
Key == [user : People, active : BOOLEAN, deleted : BOOLEAN, expired : BOOLEAN]
Nobody == "nobody"
Session == [user : People \cup {Nobody}, access : 0 .. AccessTTL,
            refresh : 0 .. RefreshTTL, age : Nat]

ASSUME AccessAssumption ==
  /\ InitialKeys \in [Keys -> Key] /\ Expiring \subseteq Keys /\ MaxKeys \in Nat
  /\ Changes \subseteq {"delete", "activate", "deactivate"}
  /\ AccessTTL \in Nat \ {0} /\ RefreshTTL \in Nat \ {0} /\ Nobody \notin People

VARIABLES
  live,      \* users: those neither deleted nor inactive
  keys,      \* api_keys
  sessions,  \* the tokens each client holds, and the age of its login (an observer)
  req        \* what each request has read

accessVars == <<live, keys, sessions, req>>

Closed == [user |-> Nobody, access |-> 0, refresh |-> 0, age |-> 0]
NoRequest == [at |-> "idle"]
Request ==
  [at : {"selected", "locked", "acting", "broken"}, user : People, key : Keys \cup {Nobody}]
  \cup [at : {"found"}, user : People, key : Keys \cup {Nobody},
        op : Changes, target : Keys, row : Key]

AccessTypeOK ==
  /\ live \subseteq People
  /\ keys \in [Keys -> Key]
  /\ sessions \in [Sessions -> Session]
  /\ req \in [Requests -> Request \cup {NoRequest}]

AccessInit ==
  /\ live = People
  /\ keys = InitialKeys
  /\ sessions = [s \in Sessions |-> Closed]
  /\ req = [r \in Requests |-> NoRequest]

Becomes(r, state) == req' = [req EXCEPT ![r] = state]
MovesTo(r, at) == Becomes(r, [req[r] EXCEPT !.at = at])

----------------------------------------------------------------------------
(* Sessions *)

\* authenticate_user and issue_tokens.  (First, with the two lives swapped.)
LoginSwapped(s) ==
  /\ sessions[s] = Closed
  /\ \E u \in live : sessions' = [sessions EXCEPT ![s] =
       [user |-> u, access |-> RefreshTTL, refresh |-> AccessTTL, age |-> 0]]
  /\ UNCHANGED <<live, keys, req>>
Login(s) ==
  /\ sessions[s] = Closed
  /\ \E u \in live : sessions' = [sessions EXCEPT ![s] =
       [user |-> u, access |-> AccessTTL, refresh |-> RefreshTTL, age |-> 0]]
  /\ UNCHANGED <<live, keys, req>>

\* The user's row is not read.  (First, with a refresh token that is new, too.)
RefreshBoth(s) ==
  /\ sessions[s].refresh > 0
  /\ sessions' = [sessions EXCEPT ![s].access = AccessTTL, ![s].refresh = RefreshTTL]
  /\ UNCHANGED <<live, keys, req>>
Refresh(s) ==
  /\ sessions[s].refresh > 0
  /\ sessions' = [sessions EXCEPT ![s].access = AccessTTL]
  /\ UNCHANGED <<live, keys, req>>

\* The cookies are deleted.  The access token was in the body of the answer,
\* too, and is good until it expires.
Logout(s) ==
  /\ sessions[s].refresh > 0
  /\ sessions' = [sessions EXCEPT ![s].refresh = 0]
  /\ UNCHANGED <<live, keys, req>>

Less(n) == IF n = 0 THEN 0 ELSE n - 1
Tick ==
  /\ sessions' = [s \in Sessions |->
       LET left == [sessions[s] EXCEPT !.access = Less(@), !.refresh = Less(@), !.age = @ + 1]
       IN  IF left.access = 0 /\ left.refresh = 0 THEN Closed ELSE left]
  /\ UNCHANGED <<live, keys, req>>

----------------------------------------------------------------------------
(* Row locks of api_keys *)

\* What deleting or changing a key leaves in the row that was read.
Leaves(op, row) ==
  CASE op = "delete"     -> [row EXCEPT !.deleted = TRUE, !.active = FALSE]
    [] op = "activate"   -> [row EXCEPT !.active = TRUE]
    [] op = "deactivate" -> [row EXCEPT !.active = FALSE]

\* The requests that hold the row of a key: it is their credential.
Holders(k) ==
  {q \in Requests : req[q] # NoRequest /\ req[q].key = k /\ req[q].at # "selected"}

\* Who stands between a request and the lock it needs next: on the key it came
\* with, or on the key it changes.
Waits(r) ==
  IF req[r].at = "selected" THEN Holders(req[r].key)
  ELSE IF req[r].at = "found"
          /\ (req[r].op = "delete" \/ Leaves(req[r].op, req[r].row) # req[r].row)
       THEN Holders(req[r].target) \ {r}
       ELSE {}

----------------------------------------------------------------------------
(* get_current_user *)

\* _get_user_from_jwt: the user is read by the subject of the token.
GetUserFromJwt(r, s) ==
  /\ sessions[s].access > 0 /\ sessions[s].user \in live
  /\ Becomes(r, [at |-> "acting", user |-> sessions[s].user, key |-> Nobody])

\* _get_user_from_api_key: the row of the key is read ...  (First, without
\* deleted_at.)
SelectActiveKey(r, k) ==
  /\ keys[k].active /\ ~keys[k].expired
  /\ Becomes(r, [at |-> "selected", user |-> keys[k].user, key |-> k])
SelectKey(r, k) ==
  /\ keys[k].active /\ ~keys[k].deleted /\ ~keys[k].expired
  /\ Becomes(r, [at |-> "selected", user |-> keys[k].user, key |-> k])

Authenticate(r) ==
  /\ req[r] = NoRequest
  /\ (\E s \in Sessions : GetUserFromJwt(r, s)) \/ (\E k \in Keys : SelectKey(r, k))
  /\ UNCHANGED <<live, keys, sessions>>

\* ... then locked by the update of last_used_at, as soon as nobody else holds
\* it, whatever has become of it ...
LockKey(r) ==
  /\ req[r].at = "selected"
  /\ Waits(r) = {}
  /\ MovesTo(r, "locked")
  /\ UNCHANGED <<live, keys, sessions>>

\* ... then the user is read.
GetKeyUser(r) ==
  /\ req[r].at = "locked"
  /\ IF req[r].user \in live THEN MovesTo(r, "acting") ELSE Becomes(r, NoRequest)
  /\ UNCHANGED <<live, keys, sessions>>

----------------------------------------------------------------------------
(* app/routers/api_keys.py *)

\* make_key_prefix: "tts_live_", 8 characters, "..." and 4 characters of a
\* random part of 32, for a column of 20.
Length(environment, random) == environment + (IF random <= 12 THEN random ELSE 8 + 3 + 4)
PrefixFits == Length(9, 32) <= 20
\* The row has no full_key, which the answer requires.
ApiKeyOut == {"id", "name", "key_prefix", "environment", "scopes", "is_active",
              "created_at", "last_used_at", "expires_at"}
ApiKeyCreatedOut == ApiKeyOut \cup {"full_key"}
Columns == ApiKeyOut \cup {"organisation_id", "user_id", "hashed_secret", "updated_at", "deleted_at"}
CanBeShown == PrefixFits /\ ApiKeyCreatedOut \subseteq Columns

\* Within the limit, the database refuses the prefix, or else the schema the
\* row, which is rolled back: nothing is ever inserted, and the answer is a 500.
create_api_key(r) ==
  /\ req[r].at = "acting"
  /\ IF Cardinality({k \in Keys : keys[k].active /\ ~keys[k].deleted}) >= MaxKeys
     THEN Becomes(r, NoRequest)
     ELSE ~CanBeShown /\ MovesTo(r, "broken")
  /\ UNCHANGED <<live, keys, sessions>>

\* delete_api_key finds deleted keys, too; update_api_key does not.
FindKey(r) ==
  /\ req[r].at = "acting"
  /\ \E k \in Keys, op \in Changes :
       IF op # "delete" /\ keys[k].deleted
       THEN Becomes(r, NoRequest)
       ELSE Becomes(r, [at |-> "found", user |-> req[r].user, key |-> req[r].key,
                        op |-> op, target |-> k, row |-> keys[k]])
  /\ UNCHANGED <<live, keys, sessions>>

\* The ORM writes a column only when it differs from what the request read,
\* and the update waits for whoever has locked the row.
Written(read, left, current) ==
  [column \in DOMAIN current |->
     IF left[column] = read[column] THEN current[column] ELSE left[column]]
CommitKey(r) ==
  /\ req[r].at = "found"
  /\ Waits(r) = {}
  /\ keys' = [keys EXCEPT ![req[r].target] =
                Written(req[r].row, Leaves(req[r].op, req[r].row), @)]
  /\ Becomes(r, NoRequest)
  /\ UNCHANGED <<live, sessions>>

\* Any other request commits; a request fails or its process dies; the
\* database ends a deadlock with an error for one of those in it.
Answer(r) ==
  /\ req[r].at \in {"acting", "broken"}
  /\ Becomes(r, NoRequest)
  /\ UNCHANGED <<live, keys, sessions>>
Fail(r) ==
  /\ req[r] # NoRequest
  /\ Becomes(r, NoRequest)
  /\ UNCHANGED <<live, keys, sessions>>

\* A deadlock: the waiting goes round.
Deadlocked(r) ==
  TransitiveClosure([p, q \in Requests |-> req[p] # NoRequest /\ q \in Waits(p)], Requests)[r, r]
\* (First, a database that sees none.)
AbortNobody(r) ==
  /\ req[r] # NoRequest /\ FALSE
  /\ Becomes(r, NoRequest)
  /\ UNCHANGED <<live, keys, sessions>>
Abort(r) ==
  /\ req[r] # NoRequest /\ Deadlocked(r)
  /\ Becomes(r, NoRequest)
  /\ UNCHANGED <<live, keys, sessions>>

----------------------------------------------------------------------------
(* From outside *)

\* remove_member; the expires_at of a key.
Remove(u) == live' = live \ {u} /\ u \in live /\ UNCHANGED <<keys, sessions, req>>
ExpireKey(k) ==
  /\ k \in Expiring /\ ~keys[k].expired
  /\ keys' = [keys EXCEPT ![k].expired = TRUE]
  /\ UNCHANGED <<live, sessions, req>>

SessionStep(s) == Login(s) \/ Refresh(s) \/ Logout(s)
Server(r) ==
  GetKeyUser(r) \/ create_api_key(r) \/ FindKey(r) \/ Answer(r) \/ Abort(r)

AccessNext ==
  \/ \E s \in Sessions : SessionStep(s)
  \/ \E r \in Requests :
       Authenticate(r) \/ LockKey(r) \/ CommitKey(r) \/ Server(r) \/ Fail(r)
  \/ \E u \in People : Remove(u)
  \/ \E k \in Keys : ExpireKey(k)
  \/ Tick

AccessSpec == AccessInit /\ [][AccessNext]_accessVars

\* The server goes on with what it has begun, and a change that waits for a row
\* lock has its turn: the database keeps a queue for each row.
AccessFairSpec ==
  AccessSpec /\ \A r \in Requests : WF_accessVars(Server(r)) /\ SF_accessVars(CommitKey(r))

----------------------------------------------------------------------------
(* Properties *)

\* "access_token_expire_minutes" and "refresh_token_expire_days": whatever a
\* client refreshes, and although a refresh asks no database, no token that a
\* login has led to is good for longer than the two lives together.
SessionBounded ==
  \A s \in Sessions : sessions[s].access > 0 => sessions[s].age < RefreshTTL + AccessTTL

\* Whoever is taken out ends: with no user left to remove and no key to delete
\* or expire, a time comes from which on no request acts for a removed user or
\* with a dead key: not by a refresh, not by the key of a removed user, not by a
\* PATCH that activates a key while it is deleted, and not by waiting for ever
\* for a row that somebody holds who waits, too.
Acts(r) == req[r].at \in {"acting", "found", "broken"}
Dead(k) == keys[k].deleted \/ keys[k].expired
AccessEnds ==
  <>[](\A r \in Requests : Acts(r) =>
         req[r].user \in live /\ (req[r].key # Nobody => ~Dead(req[r].key)))

\* "Returned only at creation time - includes the full raw key": a creation
\* that is within the plan's limit is answered with the key, not with an error.
KeyIsShown == \A r \in Requests : req[r].at # "broken"
=============================================================================
