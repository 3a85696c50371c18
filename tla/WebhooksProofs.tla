--------------------------- MODULE WebhooksProofs ---------------------------
(***************************************************************************)
(* The limit of webhooks, and who is told of a job, for any number of      *)
(* registrations, rows, jobs and retries and whatever rows subscribe to.   *)
(***************************************************************************)
EXTENDS Webhooks, FiniteSetTheorems, TLAPS

\* The rows, and one for each registration that has counted, are fewer than the
\* limit and the registrations together.
Counted == {r \in Requests : request[r] = "counted"}
LimitShared ==
  /\ IsFiniteSet(hooks)
  /\ Cardinality(hooks) + Cardinality(Counted) < MAX_WEBHOOKS + Cardinality(Requests)

\* While its worker is busy, as it is until there is an outcome, a job has a
\* chance left, the rows it owes are there, and nobody has heard what it would
\* dispatch next.
JobInOrder(j) ==
  /\ outcome[j] = "none" => worker[j] = "busy"
  /\ worker[j] = "busy" =>
       /\ broken[j] < Chances(j)
       /\ owed[j] \subseteq hooks
       /\ \A h \in Hooks :
            /\ task[<<j, "tts.failed", h>>].state = "none"
            /\ broken[j] = 0 => task[<<j, "job.completed", h>>].state = "none"

\* As many attempts have gone unanswered as the task has counted retries, and
\* one more when it was given up.
CallsCounted(d) ==
  /\ task[d].state \in {"none", "queued"} => calls[d] = task[d].retries
  /\ task[d].state = "given up" => calls[d] = MaxRetries + 1

WebhooksInv ==
  /\ TypeOK /\ LimitShared
  /\ \A j \in Jobs : JobInOrder(j)
  /\ \A d \in Deliveries : CallsCounted(d)
  /\ NobodyIsLeftOut

\* Some of the registrations are a number of them.
LEMMA CountedFinite ==
  ASSUME NEW S \in SUBSET Requests
  PROVE  /\ IsFiniteSet(S) /\ Cardinality(S) \in Nat
         /\ Cardinality(S) <= Cardinality(Requests) /\ Cardinality(Requests) \in Nat
BY WebhooksAssumption, FS_Subset, FS_CardinalityType

\* At first there is no row, no registration, no outcome and no task.
LEMMA WebhooksInit == Init => WebhooksInv
<1> SUFFICES ASSUME Init PROVE WebhooksInv
  OBVIOUS
<1> DEFINE fresh == [state |-> "none", retries |-> 0]
<1>1. /\ fresh \in Task /\ fresh.state = "none" /\ fresh.retries = 0
      /\ 0 \in 0 .. MaxRetries + 1 /\ 0 \in 0 .. MaxCrashes
  BY WebhooksAssumption DEF Task
<1>2. \A d \in Deliveries : task[d] = fresh /\ calls[d] = 0
  BY DEF Init, fresh
<1> HIDE DEF fresh
<1>3. TypeOK
  <2>1. task \in [Deliveries -> Task]
    BY <1>1 DEF Init, fresh
  <2>2. /\ allowed \in BOOLEAN /\ hooks \subseteq created /\ created \subseteq Hooks
        /\ request \in [Requests -> {"idle", "counted"}]
    BY DEF Init
  <2>3. /\ outcome \in [Jobs -> {"none", "completed", "failed"}]
        /\ worker \in [Jobs -> {"busy", "returned", "dead"}]
        /\ broken \in [Jobs -> 0 .. 2] /\ owed \in [Jobs -> SUBSET Hooks]
    BY DEF Init
  <2>4. calls \in [Deliveries -> 0 .. MaxRetries + 1] /\ crashes \in 0 .. MaxCrashes
    BY <1>1 DEF Init
  <2>5. QED
    BY <2>1, <2>2, <2>3, <2>4 DEF TypeOK
<1>4. LimitShared
  <2>1. Cardinality(hooks) = 0 /\ IsFiniteSet(hooks)
    BY FS_EmptySet DEF Init
  <2>2. Counted = {} /\ Cardinality(Counted) = 0
    BY FS_EmptySet DEF Init, Counted
  <2>3. Cardinality(Requests) \in Nat /\ Cardinality(Requests) # 0
    BY WebhooksAssumption, FS_CardinalityType, FS_EmptySet
  <2>4. QED
    BY <2>1, <2>2, <2>3, WebhooksAssumption DEF LimitShared
<1>5. ASSUME NEW j \in Jobs PROVE JobInOrder(j)
  <2>1. \A e \in Events, h \in Hooks : <<j, e, h>> \in Deliveries
    BY DEF Deliveries
  <2>2. \A h \in Hooks : task[<<j, "tts.failed", h>>].state = "none"
                       /\ task[<<j, "job.completed", h>>].state = "none"
    BY <1>1, <1>2, <2>1 DEF Events
  <2>3. broken[j] < Chances(j) /\ owed[j] = {} /\ worker[j] = "busy"
    BY DEF Init, Chances
  <2>4. QED
    BY <2>2, <2>3 DEF JobInOrder
<1>6. \A d \in Deliveries : CallsCounted(d)
  BY <1>1, <1>2 DEF CallsCounted
<1>7. NobodyIsLeftOut
  BY DEF Init, NobodyIsLeftOut
<1>8. QED
  BY <1>3, <1>4, <1>5, <1>6, <1>7 DEF WebhooksInv

----------------------------------------------------------------------------
(* The limit *)

\* A registration that has counted takes its share before it inserts; a row
\* that is inserted takes the place of its registration.
LEMMA LimitStep ==
  ASSUME TypeOK, LimitShared, Next
  PROVE  LimitShared'
<1> USE DEF LimitShared
<1>1. ASSUME NEW r \in Requests, Count(r) PROVE LimitShared'
  <2>1. hooks' = hooks /\ Cardinality(hooks) < MAX_WEBHOOKS
    BY <1>1 DEF Count
  <2>2. Counted' \in SUBSET Requests
    BY DEF Counted
  <2>3. Cardinality(Counted') \in Nat /\ Cardinality(Counted') <= Cardinality(Requests)
        /\ Cardinality(Requests) \in Nat
    BY <2>2, CountedFinite
  <2>4. Cardinality(hooks) \in Nat
    BY FS_CardinalityType
  <2>5. QED
    BY <2>1, <2>3, <2>4, WebhooksAssumption
<1>2. ASSUME NEW r \in Requests, Insert(r) PROVE LimitShared'
  <2>1. r \in Counted /\ Counted' = Counted \ {r}
    BY <1>2 DEF Insert, Counted, TypeOK
  <2>2. PICK h \in Hooks \ created : hooks' = hooks \cup {h}
    BY <1>2 DEF Insert
  <2>3. h \notin hooks
    BY <2>2 DEF TypeOK
  <2>4. IsFiniteSet(hooks') /\ Cardinality(hooks') = Cardinality(hooks) + 1
    BY <2>2, <2>3, FS_AddElement
  <2>5. IsFiniteSet(Counted) /\ Cardinality(Counted) \in Nat /\ Cardinality(Requests) \in Nat
    BY CountedFinite DEF Counted
  <2>6. Cardinality(Counted') = Cardinality(Counted) - 1
    BY <2>1, <2>5, FS_RemoveElement
  <2>7. Cardinality(hooks) \in Nat
    BY FS_CardinalityType
  <2>8. QED
    BY <2>4, <2>5, <2>6, <2>7, WebhooksAssumption
<1>3. ASSUME NEW h \in Hooks, delete_webhook(h) PROVE LimitShared'
  <2>1. hooks' \in SUBSET hooks /\ Counted' = Counted
    BY <1>3 DEF delete_webhook, Counted
  <2>2. IsFiniteSet(hooks') /\ Cardinality(hooks') <= Cardinality(hooks)
    BY <2>1, FS_Subset
  <2>3. /\ Cardinality(hooks') \in Nat /\ Cardinality(hooks) \in Nat
        /\ Cardinality(Counted) \in Nat /\ Cardinality(Requests) \in Nat
    BY <2>2, FS_CardinalityType, CountedFinite DEF Counted
  <2>4. QED
    BY <2>1, <2>2, <2>3, WebhooksAssumption
<1>4. ASSUME hooks' = hooks, request' = request PROVE LimitShared'
  BY <1>4 DEF Counted
<1>5. CASE Registration
  BY <1>1, <1>2, <1>3, <1>4, <1>5 DEF Registration, ChangePlan
<1>6. ASSUME NEW j \in Jobs, Outcome(j) \/ Dispatch(j) PROVE LimitShared'
  BY <1>4, <1>6 DEF Outcome, Completes, Fails, Commits, Dispatch, dispatch_event, DispatchBreaks,
                    DispatchDies, registration
<1>7. ASSUME NEW d \in Deliveries, Delivery(d) \/ Lost(d) PROVE LimitShared'
  BY <1>4, <1>7 DEF Delivery, Delivered, Missed, Lost, registration
<1>8. QED
  BY <1>5, <1>6, <1>7 DEF Next

----------------------------------------------------------------------------
(* Jobs and deliveries *)

\* What is said of jobs and deliveries, apart from the limit.
ToldInv ==
  /\ TypeOK
  /\ \A j \in Jobs : JobInOrder(j)
  /\ \A d \in Deliveries : CallsCounted(d)
  /\ NobodyIsLeftOut

\* The deliveries of a job are among all deliveries.
LEMMA DeliveryOf ==
  ASSUME NEW j \in Jobs, NEW e \in Events, NEW h \in Hooks
  PROVE  <<j, e, h>> \in Deliveries
BY DEF Deliveries

\* Who owes no more than before, and does so for the same outcome, still leaves
\* nobody out.
LEMMA StillPursued ==
  ASSUME NobodyIsLeftOut, UNCHANGED <<broken, worker, task, calls>>,
         \A j \in Jobs : worker[j] = "returned" =>
                          outcome'[j] = outcome[j] /\ owed'[j] \subseteq owed[j]
  PROVE  NobodyIsLeftOut'
<1> SUFFICES ASSUME NEW j \in Jobs, (worker[j] = "returned" /\ broken[j] < Chances(j))',
                    NEW h \in owed'[j], (News(j) \in Subscribed[h])'
             PROVE  Pursued(<<j, News(j), h>>)'
  BY DEF NobodyIsLeftOut
<1>1. worker[j] = "returned" /\ outcome'[j] = outcome[j] /\ h \in owed[j]
  OBVIOUS
<1>2. News(j)' = News(j) /\ Chances(j)' = Chances(j)
  BY <1>1 DEF News, Chances
<1>3. Pursued(<<j, News(j), h>>)
  BY <1>1, <1>2 DEF NobodyIsLeftOut
<1>4. QED
  BY <1>2, <1>3 DEF Pursued

\* A registration starts no delivery; a deletion takes a row from what busy
\* workers owe.
LEMMA RegistrationStep ==
  ASSUME ToldInv, Registration
  PROVE  ToldInv'
<1> USE DEF ToldInv
<1>1. UNCHANGED <<outcome, broken, worker, task, calls, crashes>>
  BY DEF Registration, ChangePlan, Count, Insert, delete_webhook, job
<1>2. \A j \in Jobs : owed'[j] \subseteq owed[j]
  BY DEF TypeOK, Registration, ChangePlan, Count, Insert, delete_webhook
<1>3. \A j \in Jobs : worker[j] = "busy" /\ owed[j] \subseteq hooks => owed'[j] \subseteq hooks'
  BY DEF TypeOK, Registration, ChangePlan, Count, Insert, delete_webhook
<1>4. TypeOK'
  <2>1. allowed' \in BOOLEAN /\ request' \in [Requests -> {"idle", "counted"}]
    BY DEF TypeOK, Registration, ChangePlan, Count, Insert, delete_webhook
  <2>2. hooks' \subseteq created' /\ created' \subseteq Hooks
    BY DEF TypeOK, Registration, ChangePlan, Count, Insert, delete_webhook
  <2>3. owed' \in [Jobs -> SUBSET Hooks]
    BY DEF TypeOK, Registration, ChangePlan, Count, Insert, delete_webhook
  <2>4. QED
    BY <1>1, <2>1, <2>2, <2>3 DEF TypeOK
<1>5. \A j \in Jobs : JobInOrder(j)'
  BY <1>1, <1>3 DEF JobInOrder, Chances
<1>6. (\A d \in Deliveries : CallsCounted(d))'
  BY <1>1 DEF CallsCounted
<1>7. NobodyIsLeftOut'
  BY <1>1, <1>2, StillPursued
<1>8. QED
  BY <1>4, <1>5, <1>6, <1>7

\* With its outcome a job gets its chances, and owes the rows that are there.
LEMMA OutcomeStep ==
  ASSUME ToldInv, NEW j \in Jobs, Outcome(j)
  PROVE  ToldInv'
<1> USE DEF ToldInv
<1>1. PICK status \in {"completed", "failed"} : Commits(j, status)
  BY DEF Outcome, Completes, Fails
<1>2. /\ outcome[j] = "none" /\ outcome' = [outcome EXCEPT ![j] = status]
      /\ owed' = [owed EXCEPT ![j] = hooks]
      /\ UNCHANGED <<allowed, hooks, created, request, broken, worker, task, calls, crashes>>
  BY <1>1 DEF Commits, registration
<1>3. TypeOK'
  BY <1>2 DEF TypeOK
<1>4. ASSUME NEW i \in Jobs PROVE JobInOrder(i)'
  <2>1. /\ broken[i] \in 0 .. 2 /\ (broken[i] < Chances(i) => broken[i] < Chances(i)')
        /\ outcome'[i] = "none" => outcome[i] = "none"
    BY <1>2 DEF TypeOK, Chances
  <2>2. owed[i] \subseteq hooks => owed'[i] \subseteq hooks'
    BY <1>2 DEF TypeOK
  <2>3. QED
    BY <1>2, <2>1, <2>2 DEF JobInOrder
<1>5. (\A d \in Deliveries : CallsCounted(d))'
  BY <1>2 DEF CallsCounted
<1>6. NobodyIsLeftOut'
  <2>1. worker[j] # "returned"
    BY <1>2 DEF JobInOrder
  <2>2. QED
    BY <1>2, <2>1, StillPursued DEF TypeOK
<1>7. QED
  BY <1>3, <1>4, <1>5, <1>6

\* A dispatch starts deliveries nobody has heard of: of everything the rows
\* subscribe to, or of a part if it raises or its worker dies.
LEMMA DispatchStep ==
  ASSUME ToldInv, NEW j \in Jobs, Dispatch(j)
  PROVE  ToldInv'
<1> USE DEF ToldInv
<1> DEFINE e == News(j)
<1>1. PICK rows \in SUBSET Listeners(j) :
        /\ Enqueued(j, rows)
        /\ dispatch_event(j) => rows = Listeners(j)
  BY DEF Dispatch, dispatch_event, DispatchBreaks, DispatchDies
<1>2. /\ outcome[j] \in {"completed", "failed"} /\ worker[j] = "busy" /\ JobInOrder(j)
      /\ UNCHANGED <<allowed, hooks, created, request, outcome, owed, calls, crashes>>
  BY DEF Dispatch, dispatch_event, DispatchBreaks, DispatchDies, HasNews, registration, TypeOK
<1>3. /\ broken[j] \in 0 .. 2 /\ broken[j] < Chances(j) /\ Chances(j) \in {1, 2}
      /\ broken[j] + 1 \in 0 .. 2
      /\ e \in Events /\ (e = "job.completed" <=> outcome[j] = "completed" /\ broken[j] = 0)
  BY <1>2 DEF TypeOK, JobInOrder, Chances, News, Events
<1>4. /\ broken' \in [Jobs -> 0 .. 2] /\ worker' \in [Jobs -> {"busy", "returned", "dead"}]
      /\ \A i \in Jobs : i # j => broken'[i] = broken[i] /\ worker'[i] = worker[i]
  BY <1>3 DEF Dispatch, dispatch_event, DispatchBreaks, DispatchDies, TypeOK
<1> DEFINE Sent(d) == d[1] = j /\ d[2] = e /\ d[3] \in rows
<1>5. ASSUME NEW d \in Deliveries
      PROVE  /\ ~Sent(d) => task'[d] = task[d]
             /\ Sent(d) => task'[d] = [task[d] EXCEPT !.state = "queued"] /\ task[d].state = "none"
  <2>1. PICK i \in Jobs, f \in Events, h \in Hooks : d = <<i, f, h>>
    BY DEF Deliveries
  <2>2. task'[d] = IF Sent(d) THEN [task[d] EXCEPT !.state = "queued"] ELSE task[d]
    BY <1>1 DEF Enqueued
  <2>3. Sent(d) => task[d].state = "none"
    BY <1>2, <1>3, <2>1 DEF JobInOrder, Events
  <2>4. QED
    BY <2>2, <2>3
<1>6. ASSUME NEW d \in Deliveries, Sent(d)
      PROVE  task'[d] \in Task /\ task'[d].state = "queued" /\ task'[d].retries = task[d].retries
  BY <1>5, <1>6 DEF TypeOK, Task
<1>7. \A i \in Jobs, f \in Events, h \in Hooks :
        Sent(<<i, f, h>>) <=> i = j /\ f = e /\ h \in rows
  OBVIOUS
<1>8. e = News(j)
  OBVIOUS
<1> HIDE DEF Sent, e
<1>9. TypeOK'
  <2>1. task' = [d \in Deliveries |-> task'[d]]
    BY <1>1 DEF Enqueued
  <2>2. \A d \in Deliveries : task'[d] \in Task
    BY <1>5, <1>6 DEF TypeOK
  <2>3. task' \in [Deliveries -> Task]
    BY <2>1, <2>2
  <2>4. QED
    BY <1>2, <1>4, <2>3 DEF TypeOK
<1>10. (\A d \in Deliveries : CallsCounted(d))'
  BY <1>2, <1>5, <1>6 DEF CallsCounted
<1>11. ASSUME NEW i \in Jobs, i # j PROVE JobInOrder(i)'
  <2>1. \A f \in Events, h \in Hooks : task'[<<i, f, h>>] = task[<<i, f, h>>]
    BY <1>5, <1>7, <1>11, DeliveryOf
  <2>2. QED
    BY <1>2, <1>4, <1>11, <2>1 DEF JobInOrder, Chances, Events
<1>12. ASSUME worker'[j] = "busy"
       PROVE  DispatchBreaks(j) /\ e = "job.completed"
  BY <1>3, <1>8, <1>12 DEF Dispatch, dispatch_event, DispatchBreaks, DispatchDies, TypeOK, Events
<1>13. JobInOrder(j)'
  <2> SUFFICES ASSUME worker'[j] = "busy"
               PROVE  /\ broken'[j] = 1 /\ Chances(j)' = 2 /\ owed'[j] \subseteq hooks'
                      /\ \A h \in Hooks : task'[<<j, "tts.failed", h>>].state = "none"
    BY <1>2 DEF JobInOrder
  <2>1. broken'[j] = 1 /\ Chances(j)' = 2
    BY <1>2, <1>3, <1>12 DEF DispatchBreaks, Chances, TypeOK
  <2>2. owed'[j] \subseteq hooks'
    BY <1>2 DEF JobInOrder
  <2>3. ASSUME NEW h \in Hooks PROVE task'[<<j, "tts.failed", h>>].state = "none"
    <3>1. "tts.failed" \in Events /\ e # "tts.failed"
      BY <1>12 DEF Events
    <3>2. <<j, "tts.failed", h>> \in Deliveries /\ ~Sent(<<j, "tts.failed", h>>)
      BY <1>7, <3>1, DeliveryOf
    <3>3. QED
      BY <1>2, <1>5, <3>2 DEF JobInOrder
  <2>4. QED
    BY <2>1, <2>2, <2>3
<1>14. ASSUME NEW d \in Deliveries, Pursued(d) PROVE Pursued(d)'
  BY <1>2, <1>5, <1>6, <1>14 DEF Pursued
<1>15. ASSUME worker'[j] = "returned", broken'[j] < Chances(j)' PROVE dispatch_event(j)
  <2>1. CASE DispatchBreaks(j)
    <3>1. broken'[j] = broken[j] + 1 /\ News(j) = "tts.failed"
      BY <1>15, <2>1 DEF DispatchBreaks, TypeOK
    <3>2. broken[j] >= Chances(j) - 1
      BY <1>2, <1>3, <1>8, <3>1 DEF Chances
    <3>3. Chances(j)' = Chances(j)
      BY <1>2 DEF Chances
    <3>4. QED
      BY <1>3, <1>15, <3>1, <3>2, <3>3
  <2>2. CASE DispatchDies(j)
    BY <1>15, <2>2 DEF DispatchDies, TypeOK
  <2>3. QED
    BY <2>1, <2>2 DEF Dispatch
<1>16. NobodyIsLeftOut'
  <2>1. ASSUME NEW i \in Jobs, (worker[i] = "returned" /\ broken[i] < Chances(i))',
               NEW h \in owed'[i], (News(i) \in Subscribed[h])'
        PROVE  Pursued(<<i, News(i), h>>)'
    <3>1. h \in Hooks
      BY <1>9, <2>1 DEF TypeOK
    <3>2. CASE i = j
      <4>1. dispatch_event(j)
        BY <1>15, <2>1, <3>2
      <4>2. News(j)' = e /\ rows = Listeners(j)
        BY <1>1, <1>2, <1>8, <4>1 DEF News, dispatch_event
      <4>3. h \in rows
        BY <1>2, <1>8, <2>1, <3>2, <4>2 DEF JobInOrder, Listeners
      <4>4. <<j, e, h>> \in Deliveries /\ Sent(<<j, e, h>>)
        BY <1>3, <1>7, <3>1, <4>3, DeliveryOf
      <4>5. task'[<<j, e, h>>].state = "queued"
        BY <1>6, <4>4
      <4>6. QED
        BY <3>2, <4>2, <4>5 DEF Pursued
    <3>3. CASE i # j
      <4>1. /\ worker[i] = "returned" /\ broken[i] < Chances(i) /\ h \in owed[i]
            /\ News(i)' = News(i) /\ News(i) \in Subscribed[h]
        BY <1>2, <1>4, <2>1, <3>3 DEF News, Chances
      <4>2. Pursued(<<i, News(i), h>>)
        BY <4>1 DEF NobodyIsLeftOut
      <4>3. <<i, News(i), h>> \in Deliveries
        BY <3>1, DeliveryOf DEF News, Events
      <4>4. Pursued(<<i, News(i), h>>)'
        <5>1. PICK d \in Deliveries : d = <<i, News(i), h>>
          BY <4>3
        <5>2. Pursued(d)'
          BY <1>14, <4>2, <5>1
        <5>3. QED
          BY <4>1, <5>1, <5>2 DEF Pursued
      <4>5. QED
        BY <4>1, <4>4 DEF Pursued
    <3>4. QED
      BY <3>2, <3>3
  <2>2. QED
    BY <2>1 DEF NobodyIsLeftOut
<1>17. QED
  BY <1>9, <1>10, <1>11, <1>13, <1>16

\* What the steps below need of the number of retries.
LEMMA RetriesBound ==
  MaxRetries \in Nat /\ 0 \in 0 .. MaxRetries /\ MaxRetries + 1 > MaxRetries
BY WebhooksAssumption

\* A delivery is answered, tried again, given up after its last attempt, or lost.
LEMMA DeliveryStep ==
  ASSUME ToldInv, NEW d \in Deliveries, Delivery(d) \/ Lost(d)
  PROVE  ToldInv'
<1> USE DEF ToldInv
<1>1. /\ task[d] \in Task /\ task[d].state = "queued"
      /\ MaxRetries \in Nat /\ 0 \in 0 .. MaxRetries
      /\ task[d].retries \in 0 .. MaxRetries /\ calls[d] = task[d].retries
      /\ UNCHANGED <<allowed, hooks, created, request, outcome, broken, worker, owed>>
  <2>1. task[d] \in Task /\ task[d].retries \in 0 .. MaxRetries
    BY DEF TypeOK, Task
  <2>2. task[d].state = "queued"
    BY DEF Delivery, Delivered, Missed, Lost
  <2>3. calls[d] = task[d].retries
    BY <2>2 DEF CallsCounted
  <2>4. UNCHANGED <<allowed, hooks, created, request, outcome, broken, worker, owed>>
    BY DEF Delivery, Delivered, Missed, Lost, registration, job
  <2>5. QED
    BY <2>1, <2>2, <2>3, <2>4, RetriesBound
<1>2. ASSUME NEW to \in Task, to.state # "none", task' = [task EXCEPT ![d] = to],
             NEW n \in 0 .. MaxRetries + 1, calls' = [calls EXCEPT ![d] = n],
             crashes' \in 0 .. MaxCrashes,
             to.state = "queued" => n = to.retries,
             to.state = "given up" => n = MaxRetries + 1
      PROVE  ToldInv'
  <2>1. TypeOK'
    BY <1>1, <1>2 DEF TypeOK
  <2>2. \A c \in Deliveries : /\ task'[c] = IF c = d THEN to ELSE task[c]
                             /\ calls'[c] = IF c = d THEN n ELSE calls[c]
    BY <1>2 DEF TypeOK
  <2>3. (\A c \in Deliveries : CallsCounted(c))'
    <3>1. ASSUME NEW c \in Deliveries, c # d PROVE CallsCounted(c)'
      <4>1. task'[c] = task[c] /\ calls'[c] = calls[c]
        BY <2>2, <3>1
      <4>2. QED
        BY <4>1 DEF CallsCounted
    <3>2. CallsCounted(d)'
      <4>1. task'[d] = to /\ calls'[d] = n
        BY <2>2
      <4>2. QED
        BY <1>2, <4>1 DEF CallsCounted
    <3>3. QED
      BY <3>1, <3>2
  <2>4. \A c \in Deliveries : task[c].state = "none" => task'[c] = task[c]
    BY <1>1, <2>2
  <2>5. \A j \in Jobs : JobInOrder(j)'
    BY <1>1, <2>4, DeliveryOf DEF JobInOrder, Chances, Events
  <2>6. ASSUME NEW c \in Deliveries, Pursued(c) PROVE Pursued(c)'
    <3>1. \/ to.state \in {"queued", "delivered", "lost"}
          \/ to.state = "given up" /\ n > MaxRetries
      <4>1. to.state \in {"queued", "delivered", "lost"} \/ to.state = "given up"
        BY <1>2 DEF Task
      <4>2. to.state = "given up" => n > MaxRetries
        BY <1>2, RetriesBound
      <4>3. QED
        BY <4>1, <4>2
    <3>2. QED
      BY <2>2, <2>6, <3>1 DEF Pursued
  <2>7. NobodyIsLeftOut'
    <3>1. \A j \in Jobs : News(j)' = News(j) /\ Chances(j)' = Chances(j) /\ News(j) \in Events
      BY <1>1 DEF News, Chances, Events
    <3>2. ASSUME NEW j \in Jobs, (worker[j] = "returned" /\ broken[j] < Chances(j))',
                 NEW h \in owed'[j], (News(j) \in Subscribed[h])'
          PROVE  Pursued(<<j, News(j), h>>)'
      <4>1. h \in Hooks /\ Pursued(<<j, News(j), h>>)
        BY <1>1, <3>1, <3>2 DEF NobodyIsLeftOut, TypeOK
      <4>2. PICK c \in Deliveries : c = <<j, News(j), h>>
        BY <3>1, <4>1, DeliveryOf
      <4>3. Pursued(c)'
        BY <2>6, <4>1, <4>2
      <4>4. QED
        BY <3>1, <4>2, <4>3 DEF Pursued
    <3>3. QED
      BY <3>2 DEF NobodyIsLeftOut
  <2>8. QED
    BY <2>1, <2>3, <2>5, <2>7
<1>3. ASSUME NEW state \in {"delivered", "given up", "lost"}, Ends(d, state)
      PROVE  /\ task' = [task EXCEPT ![d] = [state |-> state, retries |-> 0]]
             /\ [state |-> state, retries |-> 0] \in Task
             /\ [state |-> state, retries |-> 0].state = state
  <2>1. task' = [task EXCEPT ![d] = [state |-> state, retries |-> 0]]
    BY <1>3 DEF Ends
  <2>2. [state |-> state, retries |-> 0] \in Task
    BY <1>1, <1>3 DEF Task
  <2>3. QED
    BY <2>1, <2>2
<1>4. crashes \in 0 .. MaxCrashes /\ 0 \in 0 .. MaxRetries + 1
      /\ calls[d] \in 0 .. MaxRetries + 1 /\ calls[d] + 1 \in 0 .. MaxRetries + 1
  BY <1>1 DEF TypeOK
<1>5. CASE Delivered(d)
  BY <1>2, <1>3, <1>4, <1>5 DEF Delivered
<1>6. CASE Missed(d)
  <2>1. calls' = [calls EXCEPT ![d] = calls[d] + 1] /\ crashes' = crashes
    <3>1. calls[d] <= MaxRetries
      BY <1>1
    <3>2. calls' = [calls EXCEPT ![d] = IF calls[d] <= MaxRetries THEN calls[d] + 1 ELSE calls[d]]
      BY <1>6 DEF Missed
    <3>3. QED
      BY <1>6, <3>1, <3>2 DEF Missed
  <2>2. CASE task[d].retries = MaxRetries /\ Ends(d, "given up")
    <3>1. calls[d] + 1 = MaxRetries + 1
      BY <1>1, <2>2
    <3>2. QED
      BY <1>2, <1>3, <1>4, <2>1, <2>2, <3>1
  <2>3. CASE task[d].retries < MaxRetries /\ task' = [task EXCEPT ![d].retries = @ + 1]
    <3> DEFINE n == calls[d] + 1
               to == [state |-> "queued", retries |-> n]
    <3>1. task[d] = [state |-> "queued", retries |-> calls[d]]
      BY <1>1 DEF Task
    <3>2. task' = [task EXCEPT ![d] = to]
      <4>1. task' = [task EXCEPT ![d] = [task[d] EXCEPT !.retries = task[d].retries + 1]]
        BY <2>3
      <4>2. [task[d] EXCEPT !.retries = n] = [state |-> "queued", retries |-> n]
        <5> HIDE DEF n
        <5>1. QED
          BY <3>1
      <4>3. QED
        BY <1>1, <4>1, <4>2
    <3>3. n \in 0 .. MaxRetries
      BY <1>1, <2>3
    <3>4. calls' = [calls EXCEPT ![d] = n]
      BY <2>1
    <3> HIDE DEF n
    <3>5. to \in Task /\ to.state = "queued" /\ to.retries = n
      BY <3>3 DEF Task
    <3>6. n \in 0 .. MaxRetries + 1
      BY <1>1, <3>3
    <3> HIDE DEF to
    <3>7. QED
      BY <1>2, <1>4, <2>1, <3>2, <3>4, <3>5, <3>6
  <2>4. QED
    BY <1>6, <2>2, <2>3 DEF Missed, Retry
<1>7. CASE Lost(d)
  <2>1. calls' = [calls EXCEPT ![d] = calls[d]]
    BY <1>7 DEF Lost, TypeOK
  <2>2. crashes' \in 0 .. MaxCrashes
    BY <1>4, <1>7, WebhooksAssumption DEF Lost
  <2>3. Ends(d, "lost")
    BY <1>7 DEF Lost
  <2>4. QED
    BY <1>2, <1>3, <1>4, <2>1, <2>2, <2>3
<1>8. QED
  BY <1>5, <1>6, <1>7 DEF Delivery

\* Every step, then, keeps the limit shared and nobody left out.
LEMMA WebhooksStep == WebhooksInv /\ [Next]_vars => WebhooksInv'
<1> SUFFICES ASSUME WebhooksInv, [Next]_vars PROVE WebhooksInv'
  OBVIOUS
<1>1. CASE Next
  <2>1. LimitShared'
    BY <1>1, LimitStep DEF WebhooksInv
  <2>2. ToldInv
    BY DEF WebhooksInv, ToldInv
  <2>3. ToldInv'
    BY <1>1, <2>2, RegistrationStep, OutcomeStep, DispatchStep, DeliveryStep DEF Next
  <2>4. QED
    BY <2>1, <2>3 DEF WebhooksInv, ToldInv
<1>2. CASE UNCHANGED vars
  <2>1. UNCHANGED <<allowed, hooks, created, request, outcome, broken, worker, owed, task, calls,
                    crashes>>
    BY <1>2 DEF vars, registration, job
  <2>2. TypeOK' /\ LimitShared'
    BY <2>1 DEF WebhooksInv, TypeOK, LimitShared, Counted
  <2>3. (\A j \in Jobs : JobInOrder(j))' /\ (\A d \in Deliveries : CallsCounted(d))'
    BY <2>1 DEF WebhooksInv, JobInOrder, Chances, CallsCounted
  <2>4. NobodyIsLeftOut'
    BY <2>1, StillPursued DEF WebhooksInv
  <2>5. QED
    BY <2>2, <2>3, <2>4 DEF WebhooksInv
<1>3. QED
  BY <1>1, <1>2

\* So they are in every reachable state.
LEMMA WebhooksInvariant == Spec => []WebhooksInv
BY WebhooksInit, WebhooksStep, PTL DEF Spec

\* Registrations that overlap pass the limit by fewer rows than there are
\* registrations, however many there are and whatever is deleted.
THEOREM WithinLimitCorrect == Spec => []WithinLimit
<1>1. WebhooksInv => WithinLimit
  <2> SUFFICES ASSUME WebhooksInv PROVE WithinLimit
    OBVIOUS
  <2>1. Cardinality(Counted) \in Nat /\ Cardinality(Requests) \in Nat
    BY CountedFinite DEF Counted
  <2>2. Cardinality(hooks) \in Nat
    BY FS_CardinalityType DEF WebhooksInv, LimitShared
  <2>3. QED
    BY <2>1, <2>2, WebhooksAssumption DEF WebhooksInv, LimitShared, WithinLimit
<1>2. QED
  BY <1>1, WebhooksInvariant, PTL

\* One exception of a completed job's dispatch leaves none of the endpoints out
\* that were there: for any jobs that dispatch at once, and any rows, whatever
\* they subscribe to.
THEOREM NobodyIsLeftOutCorrect == Spec => []NobodyIsLeftOut
<1>1. WebhooksInv => NobodyIsLeftOut
  BY DEF WebhooksInv
<1>2. QED
  BY <1>1, WebhooksInvariant, PTL

\* Registrations, jobs, tasks and rows stay well formed, attempts included.
THEOREM WebhooksTypeCorrect == Spec => []TypeOK
<1>1. WebhooksInv => TypeOK
  BY DEF WebhooksInv
<1>2. QED
  BY <1>1, WebhooksInvariant, PTL
=============================================================================
