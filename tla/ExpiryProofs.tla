---------------------------- MODULE ExpiryProofs ----------------------------
(***************************************************************************)
(* What time may take away and what it must: files and their sweeps        *)
(* (module Retention), tokens and keys (module Access).                    *)
(*                                                                         *)
(* First, what overlapping, dying sweeps may never do, for any number of   *)
(* files and sweeps; then how long a login can last, for any lives of its  *)
(* tokens, and that no request brings a dead key back.                     *)
(***************************************************************************)
EXTENDS Retention, Access, FiniteSetTheorems, TLAPS

----------------------------------------------------------------------------
(* Files *)

\* A sweep holds rows that have expired, and has done some of them; a file
\* that is not there yet has no link and no audio.
SweepsHoldExpired ==
  \A s \in Sweeps :
    /\ sweep[s].todo \subseteq sweep[s].selected
    /\ \A f \in sweep[s].selected : row[f] \in {"expired", "deleted"}
NewHasNoLink == \A f \in Files : row[f] = "none" => link[f] = "none" /\ f \notin filled

\* The objects S3 has kept although a sweep is past them: those whose row has
\* gone, and those whose row is about to go.
PassedBy(f) == \E s \in Sweeps : f \in sweep[s].selected /\ f \notin sweep[s].todo
Refused == {f \in objects : row[f] = "deleted" \/ PassedBy(f)}
RefusalsCounted == IsFiniteSet(Refused) /\ Cardinality(Refused) <= faults

RetentionInv ==
  /\ TypeOK /\ KeptUntilExpiry
  /\ SweepsHoldExpired /\ NewHasNoLink /\ RefusalsCounted

\* Fewer refused objects need no more faults.
LEMMA NoneRefused ==
  ASSUME TypeOK, RefusalsCounted, Refused' \subseteq Refused, faults' \in Nat, faults <= faults'
  PROVE  RefusalsCounted'
<1>1. IsFiniteSet(Refused') /\ Cardinality(Refused') <= Cardinality(Refused)
  BY FS_Subset DEF RefusalsCounted
<1>2. Cardinality(Refused') \in Nat /\ Cardinality(Refused) \in Nat /\ faults \in Nat
  BY <1>1, FS_CardinalityType, RetentionAssumption DEF RefusalsCounted, TypeOK
<1>3. QED
  BY <1>1, <1>2 DEF RefusalsCounted

\* At first there is no file.
LEMMA RetentionInit == Init => RetentionInv
<1> SUFFICES ASSUME Init PROVE RetentionInv
  OBVIOUS
<1>1. TypeOK
  BY RetentionAssumption DEF Init, TypeOK, Idle
<1>2. Refused = {}
  BY DEF Init, Refused
<1>3. RefusalsCounted
  BY <1>2, FS_EmptySet DEF Init, RefusalsCounted
<1>4. KeptUntilExpiry /\ SweepsHoldExpired /\ NewHasNoLink
  BY DEF Init, KeptUntilExpiry, SweepsHoldExpired, NewHasNoLink, Idle
<1>5. QED
  BY <1>1, <1>3, <1>4 DEF RetentionInv

\* Files come, with audio or without, expire and are downloaded.
LEMMA FileStep ==
  ASSUME RetentionInv, NEW f \in Files,
         Keep(f) \/ KeepFailed(f) \/ Expire(f) \/ Download(f)
  PROVE  RetentionInv'
<1> USE DEF RetentionInv
<1>1. TypeOK'
  BY DEF TypeOK, Insert, Keep, KeepFailed, Expire, Download
<1>2. NewHasNoLink' /\ SweepsHoldExpired'
  BY DEF TypeOK, NewHasNoLink, SweepsHoldExpired, Insert, Keep, KeepFailed, Expire, Download
<1>3. KeptUntilExpiry'
  BY DEF TypeOK, KeptUntilExpiry, NewHasNoLink, Insert, Keep, KeepFailed, Expire, Download
<1>4. Refused' \subseteq Refused
  <2>1. PassedBy(f) => row[f] # "none"
    BY DEF PassedBy, SweepsHoldExpired
  <2>2. \A g : PassedBy(g)' => PassedBy(g)
    BY DEF PassedBy, Insert, Keep, KeepFailed, Expire, Download
  <2>3. QED
    BY <2>1, <2>2 DEF Refused, TypeOK, Insert, Keep, KeepFailed, Expire, Download
<1>5. RefusalsCounted'
  <2>1. faults' = faults /\ faults \in Nat
    BY RetentionAssumption DEF TypeOK, Insert, Keep, KeepFailed, Expire, Download
  <2>2. QED
    BY <1>4, <2>1, NoneRefused
<1>6. QED
  BY <1>1, <1>2, <1>3, <1>5

\* A sweep selects, deletes an object or is refused, commits or dies.
LEMMA SweepStep ==
  ASSUME RetentionInv, NEW s \in Sweeps, Sweep(s)
  PROVE  RetentionInv'
<1> USE DEF RetentionInv
<1>1. CASE Select(s)
  <2>1. TypeOK'
    BY <1>1 DEF TypeOK, Select, Expired
  <2>2. SweepsHoldExpired' /\ NewHasNoLink' /\ KeptUntilExpiry'
    BY <1>1 DEF TypeOK, SweepsHoldExpired, NewHasNoLink, KeptUntilExpiry, Select, Expired
  <2>3. \A g : PassedBy(g)' => PassedBy(g)
    BY <1>1 DEF TypeOK, PassedBy, Select
  <2>4. Refused' \subseteq Refused /\ faults' = faults /\ faults \in Nat
    BY <1>1, <2>3, RetentionAssumption DEF Refused, Select, TypeOK
  <2>5. QED
    BY <2>1, <2>2, <2>4, NoneRefused
<1>2. CASE Commit(s)
  <2>1. TypeOK'
    BY <1>2 DEF TypeOK, Commit, Idle
  <2>2. SweepsHoldExpired' /\ NewHasNoLink' /\ KeptUntilExpiry'
    BY <1>2 DEF TypeOK, SweepsHoldExpired, NewHasNoLink, KeptUntilExpiry, Commit, Idle
  <2>3. \A g : PassedBy(g)' => PassedBy(g)
    BY <1>2 DEF TypeOK, PassedBy, Commit, Idle
  <2>4. \A g \in Files : row'[g] = "deleted" => row[g] = "deleted" \/ PassedBy(g)
    BY <1>2 DEF TypeOK, PassedBy, Commit
  <2>5. Refused' \subseteq Refused /\ faults' = faults /\ faults \in Nat
    BY <1>2, <2>3, <2>4, RetentionAssumption DEF Refused, Commit, TypeOK
  <2>6. QED
    BY <2>1, <2>2, <2>5, NoneRefused
<1>3. CASE Crash(s)
  <2>1. TypeOK'
    BY <1>3, RetentionAssumption DEF TypeOK, Crash, Idle
  <2>2. SweepsHoldExpired' /\ NewHasNoLink' /\ KeptUntilExpiry'
    BY <1>3 DEF TypeOK, SweepsHoldExpired, NewHasNoLink, KeptUntilExpiry, Crash, Idle
  <2>3. \A g : PassedBy(g)' => PassedBy(g)
    BY <1>3 DEF TypeOK, PassedBy, Crash, Idle
  <2>4. Refused' \subseteq Refused /\ faults' = faults /\ faults \in Nat
    BY <1>3, <2>3, RetentionAssumption DEF Refused, Crash, TypeOK
  <2>5. QED
    BY <2>1, <2>2, <2>4, NoneRefused
<1>4. ASSUME NEW f \in Files, DeleteObject(s, f) PROVE RetentionInv'
  <2>1. TypeOK'
    BY <1>4 DEF TypeOK, DeleteObject, Done
  <2>2. row[f] \in {"expired", "deleted"}
    BY <1>4 DEF SweepsHoldExpired, DeleteObject
  <2>3. SweepsHoldExpired' /\ NewHasNoLink' /\ KeptUntilExpiry'
    BY <1>4, <2>2 DEF TypeOK, SweepsHoldExpired, NewHasNoLink, KeptUntilExpiry, DeleteObject, Done
  <2>4. \A g : g # f /\ PassedBy(g)' => PassedBy(g)
    BY <1>4 DEF TypeOK, PassedBy, DeleteObject, Done
  <2>5. Refused' \subseteq Refused /\ faults' = faults /\ faults \in Nat
    BY <1>4, <2>4, RetentionAssumption DEF Refused, DeleteObject, TypeOK
  <2>6. QED
    BY <2>1, <2>3, <2>5, NoneRefused
<1>5. ASSUME NEW f \in Files, DeleteObjectFails(s, f) PROVE RetentionInv'
  <2>1. faults' = faults + 1 /\ faults \in Nat /\ faults' \in 0 .. MaxFaults
    BY <1>5, RetentionAssumption DEF TypeOK, DeleteObjectFails
  <2>2. TypeOK'
    BY <1>5, <2>1 DEF TypeOK, DeleteObjectFails, Done
  <2>3. SweepsHoldExpired' /\ NewHasNoLink' /\ KeptUntilExpiry'
    BY <1>5 DEF TypeOK, SweepsHoldExpired, NewHasNoLink, KeptUntilExpiry, DeleteObjectFails, Done
  <2>4. \A g : g # f /\ PassedBy(g)' => PassedBy(g)
    BY <1>5 DEF TypeOK, PassedBy, DeleteObjectFails, Done
  <2>5. Refused' \subseteq Refused \cup {f}
    BY <1>5, <2>4 DEF Refused, DeleteObjectFails
  <2>6. /\ IsFiniteSet(Refused \cup {f})
        /\ Cardinality(Refused \cup {f}) \in {Cardinality(Refused), Cardinality(Refused) + 1}
    BY FS_AddElement DEF RefusalsCounted
  <2>7. IsFiniteSet(Refused') /\ Cardinality(Refused') <= Cardinality(Refused \cup {f})
    BY <2>5, <2>6, FS_Subset
  <2>8. /\ Cardinality(Refused') \in Nat /\ Cardinality(Refused) \in Nat
        /\ Cardinality(Refused) <= faults
    BY <2>7, FS_CardinalityType DEF RefusalsCounted
  <2>9. RefusalsCounted'
    BY <2>1, <2>6, <2>7, <2>8 DEF RefusalsCounted
  <2>10. QED
    BY <2>2, <2>3, <2>9
<1>6. QED
  BY <1>1, <1>2, <1>3, <1>4, <1>5 DEF Sweep

\* Every step, then, keeps what has not expired and counts what is refused.
LEMMA RetentionStep == RetentionInv /\ [Next]_vars => RetentionInv'
<1> SUFFICES ASSUME RetentionInv, [Next]_vars PROVE RetentionInv'
  OBVIOUS
<1>1. CASE Next
  BY <1>1, FileStep, SweepStep DEF Next
<1>2. CASE UNCHANGED vars
  BY <1>2 DEF vars, RetentionInv, TypeOK, KeptUntilExpiry, SweepsHoldExpired, NewHasNoLink,
              RefusalsCounted, Refused, PassedBy
<1>3. QED
  BY <1>1, <1>2

\* So it is in every reachable state.
LEMMA RetentionInvariant == Spec => []RetentionInv
BY RetentionInit, RetentionStep, PTL DEF Spec

\* Until expires_at passes, a row with audio has its object, and no redirect
\* to it has led nowhere, for any files and sweeps.
THEOREM KeptUntilExpiryCorrect == Spec => []KeptUntilExpiry
<1>1. RetentionInv => KeptUntilExpiry
  BY DEF RetentionInv
<1>2. QED
  BY <1>1, RetentionInvariant, PTL

\* The objects that outlive their rows are at most as many as the deletions
\* S3 has refused: sweeps that overlap or die lose none themselves.
THEOREM OrphansAreRefusalsCorrect == Spec => []OrphansAreRefusals
<1>1. RetentionInv => OrphansAreRefusals
  <2> SUFFICES ASSUME RetentionInv PROVE OrphansAreRefusals
    OBVIOUS
  <2> DEFINE orphans == {f \in Files : row[f] = "deleted" /\ f \in objects}
  <2>1. orphans \subseteq Refused
    BY DEF Refused
  <2>2. IsFiniteSet(Refused) /\ Cardinality(Refused) <= faults
    BY DEF RetentionInv, RefusalsCounted
  <2>3. IsFiniteSet(orphans) /\ Cardinality(orphans) <= Cardinality(Refused)
    BY <2>1, <2>2, FS_Subset
  <2>4. Cardinality(orphans) \in Nat /\ Cardinality(Refused) \in Nat /\ faults \in Nat
    BY <2>2, <2>3, FS_CardinalityType, RetentionAssumption DEF RetentionInv, TypeOK
  <2>5. QED
    BY <2>2, <2>3, <2>4 DEF OrphansAreRefusals
<1>2. QED
  BY <1>1, RetentionInvariant, PTL

\* Rows, links, objects and sweeps stay well formed, faults and crashes within bounds.
THEOREM RetentionTypeCorrect == Spec => []TypeOK
<1>1. RetentionInv => TypeOK
  BY DEF RetentionInv
<1>2. QED
  BY <1>1, RetentionInvariant, PTL

----------------------------------------------------------------------------
(* Sessions *)

\* A refresh token is never good beyond its life after the login, and an access
\* token never beyond its own life after the last moment of a refresh.
Bounded(session) ==
  /\ session.refresh > 0 => session.age + session.refresh <= RefreshTTL
  /\ session.access > 0 => session.age + session.access <= RefreshTTL + AccessTTL

AccessInv == AccessTypeOK /\ \A s \in Sessions : Bounded(sessions[s])

\* A request that is replaced by one of the right type leaves the rest alone.
LEMMA RequestStep ==
  ASSUME AccessInv, NEW r \in Requests, NEW state \in Request \cup {NoRequest},
         Becomes(r, state), UNCHANGED <<live, sessions>>, keys' \in [Keys -> Key]
  PROVE  AccessInv'
BY DEF AccessInv, AccessTypeOK, Becomes

\* A session that is replaced by a bounded one leaves the rest alone.
LEMMA SessionsStep ==
  ASSUME AccessInv, sessions' \in [Sessions -> Session],
         \A s \in Sessions : Bounded(sessions'[s]),
         UNCHANGED <<keys, req>>, live' = live
  PROVE  AccessInv'
BY DEF AccessInv, AccessTypeOK, Bounded

\* At first nobody is logged in and no request is served.
LEMMA AccessBegins == AccessInit => AccessInv
<1> SUFFICES ASSUME AccessInit PROVE AccessInv
  OBVIOUS
<1>1. Closed \in Session
  BY AccessAssumption DEF Closed, Session, AccessAssumption
<1>2. Bounded(Closed)
  BY DEF Bounded, Closed
<1>3. keys \in [Keys -> Key]
  BY AccessAssumption DEF AccessInit, AccessAssumption
<1>4. QED
  BY <1>1, <1>2, <1>3 DEF AccessInit, AccessInv, AccessTypeOK

\* A login starts both lives; a refresh starts the shorter one again, while the
\* longer one lasts; a logout ends the longer one.
LEMMA OneSessionStep ==
  ASSUME AccessInv, NEW s \in Sessions, SessionStep(s)
  PROVE  AccessInv'
<1>1. /\ sessions \in [Sessions -> Session] /\ live \subseteq People
      /\ \A t \in Sessions : Bounded(sessions[t])
      /\ UNCHANGED <<live, keys, req>>
  BY DEF AccessInv, AccessTypeOK, SessionStep, Login, Refresh, Logout
<1>2. AccessTTL \in Nat \ {0} /\ RefreshTTL \in Nat \ {0}
  BY AccessAssumption DEF AccessAssumption
<1>3. ASSUME NEW session \in Session, Bounded(session),
             sessions' = [sessions EXCEPT ![s] = session]
      PROVE  AccessInv'
  <2>1. sessions' \in [Sessions -> Session]
    BY <1>1, <1>3
  <2>2. \A t \in Sessions : Bounded(sessions'[t])
    BY <1>1, <1>3
  <2>3. QED
    BY <1>1, <2>1, <2>2, SessionsStep
<1>4. CASE Login(s)
  <2>1. PICK u \in live : sessions' = [sessions EXCEPT ![s] =
          [user |-> u, access |-> AccessTTL, refresh |-> RefreshTTL, age |-> 0]]
    BY <1>4 DEF Login
  <2> DEFINE new == [user |-> u, access |-> AccessTTL, refresh |-> RefreshTTL, age |-> 0]
  <2>2. new \in Session
    BY <1>1, <1>2 DEF Session
  <2>3. Bounded(new)
    BY <1>2 DEF Bounded
  <2>4. QED
    BY <1>3, <2>1, <2>2, <2>3
<1>5. CASE Refresh(s)
  <2> DEFINE new == [sessions[s] EXCEPT !.access = AccessTTL]
  <2>1. sessions' = [sessions EXCEPT ![s] = new] /\ sessions[s].refresh > 0
    BY <1>5 DEF Refresh
  <2>2. new \in Session
    BY <1>1, <1>2 DEF Session
  <2>3. Bounded(new)
    <3>1. new.refresh = sessions[s].refresh /\ new.age = sessions[s].age
          /\ new.access = AccessTTL
      BY <1>1 DEF Session
    <3>2. sessions[s].refresh \in Nat /\ sessions[s].age \in Nat
      BY <1>1, <1>2 DEF Session
    <3>3. QED
      BY <1>1, <1>2, <2>1, <3>1, <3>2 DEF Bounded
  <2>4. QED
    BY <1>3, <2>1, <2>2, <2>3
<1>6. CASE Logout(s)
  <2> DEFINE new == [sessions[s] EXCEPT !.refresh = 0]
  <2>1. sessions' = [sessions EXCEPT ![s] = new]
    BY <1>6 DEF Logout
  <2>2. new \in Session
    BY <1>1, <1>2 DEF Session
  <2>3. Bounded(new)
    <3>1. new.refresh = 0 /\ new.age = sessions[s].age /\ new.access = sessions[s].access
      BY <1>1 DEF Session
    <3>2. QED
      BY <1>1, <3>1 DEF Bounded
  <2>4. QED
    BY <1>3, <2>1, <2>2, <2>3
<1>7. QED
  BY <1>4, <1>5, <1>6 DEF SessionStep

\* A tick takes as much from the lives as it adds to the age.
LEMMA TickStep ==
  ASSUME AccessInv, Tick
  PROVE  AccessInv'
<1>1. /\ sessions \in [Sessions -> Session] /\ \A s \in Sessions : Bounded(sessions[s])
      /\ UNCHANGED <<live, keys, req>>
  BY DEF AccessInv, AccessTypeOK, Tick
<1>2. AccessTTL \in Nat \ {0} /\ RefreshTTL \in Nat \ {0}
  BY AccessAssumption DEF AccessAssumption
<1> DEFINE Left(s) == [sessions[s] EXCEPT !.access = Less(@), !.refresh = Less(@), !.age = @ + 1]
<1>3. ASSUME NEW s \in Sessions PROVE Left(s) \in Session /\ Bounded(Left(s))
  <2> DEFINE old == sessions[s]
             a == Less(old.access)
             r == Less(old.refresh)
             n == old.age + 1
             new == [old EXCEPT !.access = a, !.refresh = r, !.age = n]
  <2>1. old \in Session /\ Bounded(old)
    BY <1>1
  <2>2. Left(s) = new
    OBVIOUS
  <2> HIDE DEF old
  <2>3. /\ old.access \in 0 .. AccessTTL /\ old.refresh \in 0 .. RefreshTTL /\ old.age \in Nat
    BY <2>1 DEF Session
  <2>4. /\ a \in 0 .. AccessTTL /\ r \in 0 .. RefreshTTL /\ n \in Nat
        /\ a > 0 => a = old.access - 1
        /\ r > 0 => r = old.refresh - 1
        /\ n = old.age + 1
    BY <1>2, <2>3 DEF Less
  <2> HIDE DEF a, r, n
  <2>5. new \in Session /\ new.access = a /\ new.refresh = r /\ new.age = n
    BY <2>1, <2>4 DEF Session
  <2> HIDE DEF new
  <2>6. Bounded(new)
    BY <1>2, <2>1, <2>3, <2>4, <2>5 DEF Bounded
  <2>7. QED
    BY <2>2, <2>5, <2>6
<1>4. Closed \in Session /\ Bounded(Closed)
  BY <1>2 DEF Closed, Session, Bounded
<1>5. sessions' = [s \in Sessions |->
        IF Left(s).access = 0 /\ Left(s).refresh = 0 THEN Closed ELSE Left(s)]
  BY DEF Tick
<1> HIDE DEF Left
<1>6. \A s \in Sessions : sessions'[s] \in {Closed, Left(s)}
  BY <1>5
<1>7. sessions' \in [Sessions -> Session] /\ \A s \in Sessions : Bounded(sessions'[s])
  <2>1. \A s \in Sessions : sessions'[s] \in Session /\ Bounded(sessions'[s])
    BY <1>3, <1>4, <1>6
  <2>2. sessions' = [s \in Sessions |-> sessions'[s]]
    BY <1>5
  <2>3. QED
    BY <2>1, <2>2
<1>8. QED
  BY <1>1, <1>7, SessionsStep

----------------------------------------------------------------------------
(* Keys *)

\* A change of a key never takes its deletion or its expiry back, and what the
\* unit of work writes of it keeps both: only the columns the request changed.
LEMMA LeavesKey ==
  ASSUME NEW op \in Changes, NEW read \in Key, NEW current \in Key
  PROVE  /\ Written(read, Leaves(op, read), current) \in Key
         /\ current.deleted => Written(read, Leaves(op, read), current).deleted
         /\ current.expired => Written(read, Leaves(op, read), current).expired
<1> DEFINE left == Leaves(op, read)
           w == Written(read, left, current)
<1>1. op \in {"delete", "activate", "deactivate"}
  BY AccessAssumption DEF AccessAssumption
<1>2. /\ left \in Key /\ left.user = read.user /\ left.expired = read.expired
      /\ left.deleted \in {TRUE, read.deleted}
  BY <1>1 DEF Leaves, Key
<1> HIDE DEF left
<1>3. DOMAIN current = {"user", "active", "deleted", "expired"}
  BY DEF Key
<1>4. \A column \in {"user", "active", "deleted", "expired"} :
        w[column] = IF left[column] = read[column] THEN current[column] ELSE left[column]
  BY <1>3 DEF Written
<1>5. w = [user |-> w.user, active |-> w.active, deleted |-> w.deleted, expired |-> w.expired]
  BY <1>3 DEF Written
<1> HIDE DEF w
<1>6. w.user = current.user /\ w.expired = current.expired
  BY <1>2, <1>4
<1>7. w.active \in BOOLEAN /\ w.deleted \in BOOLEAN
  <2>1. left.active \in BOOLEAN /\ left.deleted \in BOOLEAN
        /\ current.active \in BOOLEAN /\ current.deleted \in BOOLEAN
    BY <1>2 DEF Key
  <2>2. w.active \in {left.active, current.active} /\ w.deleted \in {left.deleted, current.deleted}
    BY <1>4
  <2>3. QED
    BY <2>1, <2>2
<1>8. w \in Key
  BY <1>5, <1>6, <1>7 DEF Key
<1>9. current.deleted => w.deleted
  <2>1. ASSUME current.deleted, left.deleted # read.deleted PROVE w.deleted
    <3>1. w.deleted = left.deleted /\ left.deleted = TRUE
      BY <1>2, <1>4, <2>1
    <3>2. QED
      BY <3>1
  <2>2. ASSUME current.deleted, left.deleted = read.deleted PROVE w.deleted
    <3>1. w.deleted = current.deleted
      BY <1>4, <2>2
    <3>2. QED
      BY <2>2, <3>1
  <2>3. QED
    BY <2>1, <2>2
<1>10. current.expired => w.expired
  BY <1>6
<1>11. QED
  BY <1>8, <1>9, <1>10 DEF w, left

\* A request is given a credential, waits, acts, changes a key or ends.
LEMMA OneRequestStep ==
  ASSUME AccessInv, NEW r \in Requests,
         Authenticate(r) \/ LockKey(r) \/ CommitKey(r) \/ Server(r) \/ Fail(r)
  PROVE  AccessInv' /\ \A k \in Keys : Dead(k) => Dead(k)'
<1>1. /\ keys \in [Keys -> Key] /\ live \subseteq People /\ sessions \in [Sessions -> Session]
      /\ req \in [Requests -> Request \cup {NoRequest}]
  BY DEF AccessInv, AccessTypeOK
<1>2. NoRequest \in Request \cup {NoRequest}
  OBVIOUS
<1>3. ASSUME UNCHANGED <<live, keys, sessions>>,
             NEW state \in Request \cup {NoRequest}, Becomes(r, state)
      PROVE  AccessInv' /\ \A k \in Keys : Dead(k) => Dead(k)'
  <2>1. AccessInv'
    BY <1>1, <1>3, RequestStep
  <2>2. \A k \in Keys : Dead(k) => Dead(k)'
    BY <1>3 DEF Dead
  <2>3. QED
    BY <2>1, <2>2
<1>4. ASSUME UNCHANGED <<live, keys, sessions>>, NEW at \in {"locked", "acting", "broken"},
             req[r] \in Request, req[r].at # "found", MovesTo(r, at)
      PROVE  AccessInv' /\ \A k \in Keys : Dead(k) => Dead(k)'
  <2>1. [req[r] EXCEPT !.at = at] \in Request
    BY <1>4 DEF Request
  <2>2. QED
    BY <1>3, <1>4, <2>1 DEF MovesTo
<1>5. ASSUME req[r].at # "idle" PROVE req[r] \in Request
  BY <1>1, <1>5 DEF NoRequest
<1>6. CASE Authenticate(r)
  <2>1. ASSUME NEW s \in Sessions, GetUserFromJwt(r, s)
        PROVE  AccessInv' /\ \A k \in Keys : Dead(k) => Dead(k)'
    <3>1. [at |-> "acting", user |-> sessions[s].user, key |-> Nobody] \in Request
      BY <1>1, <2>1 DEF GetUserFromJwt, Request
    <3>2. QED
      BY <1>3, <1>6, <2>1, <3>1 DEF Authenticate, GetUserFromJwt
  <2>2. ASSUME NEW k \in Keys, SelectKey(r, k)
        PROVE  AccessInv' /\ \A j \in Keys : Dead(j) => Dead(j)'
    <3>1. [at |-> "selected", user |-> keys[k].user, key |-> k] \in Request
      BY <1>1, <2>2 DEF SelectKey, Request, Key
    <3>2. QED
      BY <1>3, <1>6, <2>2, <3>1 DEF Authenticate, SelectKey
  <2>3. QED
    BY <1>6, <2>1, <2>2 DEF Authenticate
<1>7. CASE LockKey(r)
  BY <1>4, <1>5, <1>7 DEF LockKey
<1>8. CASE GetKeyUser(r)
  BY <1>2, <1>3, <1>4, <1>5, <1>8 DEF GetKeyUser
<1>9. CASE create_api_key(r)
  BY <1>2, <1>3, <1>4, <1>5, <1>9 DEF create_api_key
<1>10. CASE FindKey(r)
  <2>1. req[r] \in Request
    BY <1>5, <1>10 DEF FindKey
  <2>2. \A k \in Keys, op \in Changes :
          [at |-> "found", user |-> req[r].user, key |-> req[r].key,
           op |-> op, target |-> k, row |-> keys[k]] \in Request
    BY <1>1, <2>1 DEF Request
  <2>3. QED
    BY <1>2, <1>3, <1>10, <2>2 DEF FindKey
<1>11. CASE CommitKey(r)
  <2> DEFINE k == req[r].target
             changed == Written(req[r].row, Leaves(req[r].op, req[r].row), keys[k])
  <2>1. k \in Keys /\ req[r].op \in Changes /\ req[r].row \in Key /\ keys[k] \in Key
    BY <1>1, <1>5, <1>11 DEF CommitKey, Request
  <2>2. /\ changed \in Key
        /\ keys[k].deleted => changed.deleted
        /\ keys[k].expired => changed.expired
    BY <2>1, LeavesKey
  <2>3. keys' = [keys EXCEPT ![k] = changed] /\ Becomes(r, NoRequest) /\ UNCHANGED <<live, sessions>>
    BY <1>11 DEF CommitKey
  <2> HIDE DEF k, changed
  <2>4. keys' \in [Keys -> Key]
    BY <1>1, <2>2, <2>3
  <2>5. \A j \in Keys : Dead(j) => Dead(j)'
    BY <1>1, <2>1, <2>2, <2>3 DEF Dead
  <2>6. QED
    BY <1>2, <2>3, <2>4, <2>5, RequestStep
<1>12. CASE Answer(r) \/ Fail(r) \/ Abort(r)
  BY <1>2, <1>3, <1>12 DEF Answer, Fail, Abort
<1>13. QED
  BY <1>6, <1>7, <1>8, <1>9, <1>10, <1>11, <1>12 DEF Server

\* Every step, then, keeps sessions bounded and dead keys dead.
LEMMA AccessInductive ==
  AccessInv /\ [AccessNext]_accessVars => AccessInv' /\ \A k \in Keys : Dead(k) => Dead(k)'
<1> SUFFICES ASSUME AccessInv, [AccessNext]_accessVars
             PROVE  AccessInv' /\ \A k \in Keys : Dead(k) => Dead(k)'
  OBVIOUS
<1>1. ASSUME keys' = keys PROVE \A k \in Keys : Dead(k) => Dead(k)'
  BY <1>1 DEF Dead
<1>2. ASSUME NEW s \in Sessions, SessionStep(s) PROVE AccessInv' /\ keys' = keys
  BY <1>2, OneSessionStep DEF SessionStep, Login, Refresh, Logout
<1>3. CASE Tick
  BY <1>1, <1>3, TickStep DEF Tick
<1>4. ASSUME NEW u \in People, Remove(u) PROVE AccessInv' /\ keys' = keys
  BY <1>4 DEF Remove, AccessInv, AccessTypeOK
<1>5. ASSUME NEW k \in Keys, ExpireKey(k)
      PROVE  AccessInv' /\ \A j \in Keys : Dead(j) => Dead(j)'
  <2>1. keys \in [Keys -> Key] /\ keys' = [keys EXCEPT ![k].expired = TRUE]
        /\ UNCHANGED <<live, sessions, req>>
    BY <1>5 DEF ExpireKey, AccessInv, AccessTypeOK
  <2>2. keys' \in [Keys -> Key]
    BY <2>1 DEF Key
  <2>3. AccessInv'
    BY <2>1, <2>2 DEF AccessInv, AccessTypeOK
  <2>4. \A j \in Keys : Dead(j) => Dead(j)'
    BY <2>1 DEF Dead, Key
  <2>5. QED
    BY <2>3, <2>4
<1>6. CASE UNCHANGED accessVars
  BY <1>1, <1>6 DEF accessVars, AccessInv, AccessTypeOK
<1>7. QED
  BY <1>1, <1>2, <1>3, <1>4, <1>5, <1>6, OneRequestStep DEF AccessNext

\* So they are in every reachable state.
LEMMA AccessInvariant == AccessSpec => []AccessInv
<1>1. AccessInv /\ [AccessNext]_accessVars => AccessInv'
  BY AccessInductive
<1>2. QED
  BY AccessBegins, <1>1, PTL DEF AccessSpec

\* However often a client refreshes, and although a refresh reads no row, what a
\* login has led to is over when the two lives of its tokens have passed.
THEOREM SessionBoundedCorrect == AccessSpec => []SessionBounded
<1>1. AccessInv => SessionBounded
  <2> SUFFICES ASSUME AccessInv, NEW s \in Sessions, sessions[s].access > 0
               PROVE  sessions[s].age < RefreshTTL + AccessTTL
    BY DEF SessionBounded
  <2>1. sessions[s].age \in Nat /\ sessions[s].access \in 0 .. AccessTTL
    BY DEF AccessInv, AccessTypeOK, Session
  <2>2. sessions[s].age + sessions[s].access <= RefreshTTL + AccessTTL
    BY DEF AccessInv, Bounded
  <2>3. QED
    BY <2>1, <2>2, AccessAssumption DEF AccessAssumption
<1>2. QED
  BY <1>1, AccessInvariant, PTL

\* No request brings a key back that was deleted or has expired, whatever the
\* requests that overlap have read of its row: a PATCH that activates a key
\* while it is deleted writes is_active, and leaves deleted_at as it is.
KeysStayDead == [][\A k \in Keys : Dead(k) => Dead(k)']_accessVars

\* It holds of every step, for any keys, changes and numbers of requests: what
\* CommitKey writes is mixed column by column.
THEOREM KeysStayDeadCorrect == AccessSpec => KeysStayDead
<1> DEFINE Body == \A k \in Keys : Dead(k) => Dead(k)'
<1>1. AccessInv /\ [AccessNext]_accessVars => [Body]_accessVars
  BY AccessInductive
<1>2. QED
  BY <1>1, AccessInvariant, PTL DEF AccessSpec, KeysStayDead

\* Users, keys, sessions and requests stay well formed.
THEOREM AccessTypeCorrect == AccessSpec => []AccessTypeOK
<1>1. AccessInv => AccessTypeOK
  BY DEF AccessInv
<1>2. QED
  BY <1>1, AccessInvariant, PTL
=============================================================================
