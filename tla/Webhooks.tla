------------------------------ MODULE Webhooks ------------------------------
(***************************************************************************)
(* One organisation's webhooks: registration in app/routers/webhooks.py,   *)
(* the dispatches of its jobs in app/tasks/tts_tasks.py and                *)
(* app/services/webhook_service.py, and delivery by the Celery task        *)
(* deliver_webhook of app/tasks/webhook_tasks.py.                          *)
(*                                                                         *)
(* A registration counts the rows and inserts one in its own transaction;  *)
(* others insert in between.  The worker of a job commits the outcome and  *)
(* dispatches it: a task of its own for every row that subscribes, with a  *)
(* copy of URL and secret.  A dispatch of job.completed that raises makes  *)
(* the job failed, and tts.failed is dispatched; if that raises, it is     *)
(* passed over.  A delivery is tried until the endpoint answers below 400  *)
(* or its retries are spent.  (POST /webhooks/{id}/test changes nothing.)  *)
(***************************************************************************)
EXTENDS Naturals, FiniteSets

CONSTANTS
  Jobs,          \* the organisation's jobs
  Hooks,         \* bound: the rows that can be created
  Subscribed,    \* the events each row subscribes to, which nothing changes
  Requests,      \* registrations served at the same time
  MAX_WEBHOOKS,  \* rows an organisation may have
  MaxRetries,    \* max_retries of the task
  MaxCrashes     \* bound: tasks lost with their worker

\* Those that are dispatched, of the five that a webhook may ask for.
Events == {"job.completed", "tts.failed"}

ASSUME WebhooksAssumption ==
  /\ Requests # {} /\ IsFiniteSet(Requests)
  /\ Subscribed \in [Hooks -> SUBSET Events]
  /\ MAX_WEBHOOKS \in Nat /\ MaxRetries \in Nat /\ MaxCrashes \in Nat

VARIABLES
  allowed,   \* the plan of the organisation allows webhooks
  hooks,     \* webhooks: the rows
  created,   \* the rows that were ever there (an observer)
  request,   \* what each registration has counted
  outcome,   \* what each job was first committed as
  broken,    \* how many dispatches of the job have raised
  worker,    \* the worker of each job: busy until it has returned or died
  owed,      \* the rows there from that commit until the worker ends (an observer)
  task,      \* each delivery: its state and how often it was retried
  calls,     \* its attempts since an answer below 400, up to MaxRetries + 1 (an observer)
  crashes

registration == <<allowed, hooks, created, request>>
job == <<outcome, broken, worker>>
vars == <<registration, job, owed, task, calls, crashes>>

Deliveries == Jobs \X Events \X Hooks
Task == [state : {"none", "queued", "delivered", "given up", "lost"}, retries : 0 .. MaxRetries]

TypeOK ==
  /\ allowed \in BOOLEAN
  /\ hooks \subseteq created /\ created \subseteq Hooks
  /\ request \in [Requests -> {"idle", "counted"}]
  /\ outcome \in [Jobs -> {"none", "completed", "failed"}]
  /\ broken \in [Jobs -> 0 .. 2]
  /\ worker \in [Jobs -> {"busy", "returned", "dead"}]
  /\ owed \in [Jobs -> SUBSET Hooks]
  /\ task \in [Deliveries -> Task]
  /\ calls \in [Deliveries -> 0 .. MaxRetries + 1]
  /\ crashes \in 0 .. MaxCrashes

Init ==
  /\ allowed = FALSE
  /\ hooks = {} /\ created = {}
  /\ request = [r \in Requests |-> "idle"]
  /\ outcome = [j \in Jobs |-> "none"]
  /\ broken = [j \in Jobs |-> 0]
  /\ worker = [j \in Jobs |-> "busy"]
  /\ owed = [j \in Jobs |-> {}]
  /\ task = [d \in Deliveries |-> [state |-> "none", retries |-> 0]]
  /\ calls = [d \in Deliveries |-> 0]
  /\ crashes = 0

----------------------------------------------------------------------------
(* Registration *)

\* The organisation moves to a plan with webhooks, or to one without.
ChangePlan ==
  /\ allowed' = ~allowed
  /\ UNCHANGED <<hooks, created, request, job, owed, task, calls, crashes>>

\* _enforce_webhook_plan, and the count against the limit.  (First, off by one.)
CountLoosely(r) ==
  /\ request[r] = "idle" /\ allowed /\ created # Hooks
  /\ Cardinality(hooks) <= MAX_WEBHOOKS
  /\ request' = [request EXCEPT ![r] = "counted"]
  /\ UNCHANGED <<allowed, hooks, created, job, owed, task, calls, crashes>>
Count(r) ==
  /\ request[r] = "idle" /\ allowed /\ created # Hooks
  /\ Cardinality(hooks) < MAX_WEBHOOKS
  /\ request' = [request EXCEPT ![r] = "counted"]
  /\ UNCHANGED <<allowed, hooks, created, job, owed, task, calls, crashes>>

Insert(r) ==
  /\ request[r] = "counted"
  /\ request' = [request EXCEPT ![r] = "idle"]
  /\ \E h \in Hooks \ created : hooks' = hooks \cup {h} /\ created' = created \cup {h}
  /\ UNCHANGED <<allowed, job, owed, task, calls, crashes>>

delete_webhook(h) ==
  /\ h \in hooks
  /\ hooks' = hooks \ {h}
  /\ owed' = [j \in Jobs |-> IF worker[j] = "busy" THEN owed[j] \ {h} ELSE owed[j]]
  /\ UNCHANGED <<allowed, created, request, job, task, calls, crashes>>

----------------------------------------------------------------------------
(* The worker of a job *)

\* It commits "completed", or "failed" after an exception before that.
Commits(j, status) ==
  /\ outcome[j] = "none"
  /\ outcome' = [outcome EXCEPT ![j] = status]
  /\ owed' = [owed EXCEPT ![j] = hooks]
  /\ UNCHANGED <<registration, broken, worker, task, calls, crashes>>
Completes(j) == Commits(j, "completed")
Fails(j) == Commits(j, "failed")

\* What it dispatches next, and how often a dispatch may raise before nothing
\* is left to dispatch.
HasNews(j) == outcome[j] # "none" /\ worker[j] = "busy"
News(j) == IF outcome[j] = "completed" /\ broken[j] = 0 THEN "job.completed" ELSE "tts.failed"
Chances(j) == IF outcome[j] = "completed" THEN 2 ELSE 1

Listeners(j) == {h \in hooks : News(j) \in Subscribed[h]}
Enqueued(j, rows) ==
  task' = [d \in Deliveries |->
             IF d[1] = j /\ d[2] = News(j) /\ d[3] \in rows
               THEN [task[d] EXCEPT !.state = "queued"] ELSE task[d]]

dispatch_event(j) ==
  /\ HasNews(j)
  /\ Enqueued(j, Listeners(j))
  /\ worker' = [worker EXCEPT ![j] = "returned"]
  /\ UNCHANGED <<registration, outcome, broken, owed, calls, crashes>>

\* The query, the broker in the middle of the loop or the commit after it
\* raises, and the tasks sent so far stay.  The worker commits "failed" and goes
\* on to tts.failed, or has had this already and returns.  (First, as if the
\* exception of job.completed were passed over like that of tts.failed.)
DispatchBreaksQuietly(j) ==
  /\ HasNews(j)
  /\ \E rows \in SUBSET Listeners(j) : Enqueued(j, rows)
  /\ broken' = [broken EXCEPT ![j] = @ + 1]
  /\ worker' = [worker EXCEPT ![j] = "returned"]
  /\ UNCHANGED <<registration, outcome, owed, calls, crashes>>
DispatchBreaks(j) ==
  /\ HasNews(j)
  /\ \E rows \in SUBSET Listeners(j) : Enqueued(j, rows)
  /\ broken' = [broken EXCEPT ![j] = @ + 1]
  /\ worker' = [worker EXCEPT ![j] = IF News(j) = "tts.failed" THEN "returned" ELSE "busy"]
  /\ UNCHANGED <<registration, outcome, owed, calls, crashes>>

\* It dies on the way, or the database fails it again when it commits "failed".
DispatchDies(j) ==
  /\ HasNews(j)
  /\ \E rows \in SUBSET Listeners(j) : Enqueued(j, rows)
  /\ worker' = [worker EXCEPT ![j] = "dead"]
  /\ UNCHANGED <<registration, outcome, broken, owed, calls, crashes>>

----------------------------------------------------------------------------
(* Delivery *)

\* A task that is over takes its count with it.
Ends(d, state) == task' = [task EXCEPT ![d] = [state |-> state, retries |-> 0]]

\* self.retry: once more after 60 * 2^retries seconds, or never again.  (First,
\* with one attempt too many, and without counting.)
RetryOnceMore(d) ==
  \/ task[d].retries <= MaxRetries /\ task' = [task EXCEPT ![d].retries = @ + 1]
  \/ task[d].retries > MaxRetries /\ Ends(d, "given up")
RetryForever(d) == task' = [task EXCEPT ![d].retries = (@ + 1) % (MaxRetries + 1)]
Retry(d) ==
  \/ task[d].retries < MaxRetries /\ task' = [task EXCEPT ![d].retries = @ + 1]
  \/ task[d].retries = MaxRetries /\ Ends(d, "given up")

\* The endpoint answers below 400.
Delivered(d) ==
  /\ task[d].state = "queued"
  /\ Ends(d, "delivered")
  /\ calls' = [calls EXCEPT ![d] = 0]
  /\ UNCHANGED <<registration, job, owed, crashes>>

\* It is not reached, refuses, or has worked and answers too late: the task
\* cannot tell, and tries again.
Missed(d) ==
  /\ task[d].state = "queued"
  /\ Retry(d)
  /\ calls' = [calls EXCEPT ![d] = IF @ <= MaxRetries THEN @ + 1 ELSE @]
  /\ UNCHANGED <<registration, job, owed, crashes>>

\* The worker dies with the task, acknowledged when it was received.
Lost(d) ==
  /\ task[d].state = "queued"
  /\ crashes < MaxCrashes /\ crashes' = crashes + 1
  /\ Ends(d, "lost")
  /\ UNCHANGED <<registration, job, owed, calls>>

Registration ==
  \/ ChangePlan
  \/ \E r \in Requests : Count(r) \/ Insert(r)
  \/ \E h \in Hooks : delete_webhook(h)
Outcome(j) == Completes(j) \/ Fails(j)
Dispatch(j) == dispatch_event(j) \/ DispatchBreaks(j) \/ DispatchDies(j)
Delivery(d) == Delivered(d) \/ Missed(d)

Next ==
  \/ Registration
  \/ \E j \in Jobs : Outcome(j) \/ Dispatch(j)
  \/ \E d \in Deliveries : Delivery(d) \/ Lost(d)

Spec == Init /\ [][Next]_vars

\* A worker of the queue "webhooks" runs every task when its time has come.
FairSpec == Spec /\ \A d \in Deliveries : WF_vars(Delivery(d))

----------------------------------------------------------------------------
(* Properties *)

\* "Maximum {MAX_WEBHOOKS} webhooks allowed": each registration counts before it
\* inserts, so those that overlap pass the limit together, by one row for each
\* beyond the first and never more, deletions included.
WithinLimit == Cardinality(hooks) < MAX_WEBHOOKS + Cardinality(Requests)

\* A delivery was started, and is not over before its endpoint has answered or
\* has left all the attempts of "retry up to 5 times" unanswered, but for a task
\* that was lost with its worker.
Pursued(d) ==
  \/ task[d].state \in {"queued", "delivered", "lost"}
  \/ task[d].state = "given up" /\ calls[d] > MaxRetries

\* One exception leaves nobody in the dark about a completed job: when its worker
\* returns, what it has to say in the end (job.completed, or tts.failed if the
\* dispatch of the former raised, wherever it did) is pursued to every endpoint
\* that subscribes to it and was registered from the outcome on, whatever was
\* sent before, inserted, deleted or given up meanwhile.  Two exceptions, or one
\* of a job that had failed, silence the worker: the second is passed over.
NobodyIsLeftOut ==
  \A j \in Jobs :
    worker[j] = "returned" /\ broken[j] < Chances(j) =>
      \A h \in owed[j] : News(j) \in Subscribed[h] => Pursued(<<j, News(j), h>>)

\* No endpoint keeps a task busy for ever.
DeliveryEnds == \A d \in Deliveries : task[d].state = "queued" ~> task[d].state # "queued"
=============================================================================
