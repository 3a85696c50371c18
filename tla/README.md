# Verification of the TTS platform

TLA+ models of the text-to-speech platform under `src/app`, with the TLC
configurations that check them on small instances and TLAPS proofs for any
instance.  Paths below are relative to `src/app` unless they begin with another
directory of the repository.

## The system

A FastAPI application serves organisations; each has users, a plan, a character
counter, webhooks, API keys and files.  Celery workers take the long work from Redis.
PostgreSQL holds all state, an S3 bucket the audio, Stripe the payments.

| component | state | operations | interacts with |
|---|---|---|---|
| plans and gates (`models/plan.py`, `services/tts_service.py`) | plan rows, seeded by migration 0001 | `enforce_quota`, `enforce_plan_feature`, `enforce_voice_access` | read by generation, webhooks, API keys |
| usage counter (`models/organisation.py`) | `chars_used_this_period` | read by `get_current_org` or the worker, written by `generate_tts`, reset by `reset_expired_quotas` | generation, analytics |
| generation and jobs (`routers/tts.py`, `services/tts_service.py`, `tasks/tts_tasks.py`) | `jobs`, `generated_files`, `usage_logs`, bucket | `POST /tts` synchronous or queued; the task; `GET /jobs`, downloads | counter, bucket, webhooks, broker |
| organisation administration (`routers/admin.py`) | plan and status of the organisation | `update_org`; listings; announcements by mail | guards of every request |
| billing (`routers/billing.py`, `services/billing_service.py`) | customer, subscription, status, plan columns | checkout, portal, three kinds of Stripe event | Stripe, plans |
| team (`routers/team.py`) | `users`, `invitations` | invite, accept, change role, remove | mail |
| retention (`tasks/maintenance_tasks.py`) | `generated_files`, bucket | nightly `expire_old_files`, hourly `reset_expired_quotas` | generation, downloads |
| webhooks (`routers/webhooks.py`, `services/webhook_service.py`, `tasks/webhook_tasks.py`) | `webhooks`, delivery tasks | create, delete, dispatch, deliver with retries | jobs, customers' endpoints |
| accounts (`services/auth_service.py`, `routers/auth.py`) | credentials and tokens in `users` | register, verify, ask for a reset, reset | mail, team |
| access (`routers/auth.py`, `utils/crypto.py`, `dependencies.py`) | the tokens clients hold | login, refresh, logout; `get_current_user` by JWT or by API key | accounts, team |
| API keys (`routers/api_keys.py`) | `api_keys` | create, update, delete | access: a key that is used is a row that is updated |
| usage analytics (`services/usage_service.py`) | a summary cached in Redis | summary, history by pages, breakdown by voice | counter, logs |
| session (`database.py`) | one transaction per request | `get_db`: commit after the handler and before the answer, rollback on an exception | everything |
| helpers, schemas, configuration, health, migrations, containers, tests | none of their own | | |

What is hard about it:

* **Readings grow old.**  A request reads the organisation (or a user, or a count of
  rows) once, works for seconds, and commits at its end.  The ORM
  updates the columns that changed, to values computed from the old reading.
* **Locks nobody asked for.**  A flushed update holds its row, and a flushed insert its
  unique keys, until the request commits: registrations wait for each other's slug and
  address, requests for each other's API key.
* **Two sessions, one call.**  An asynchronous call is committed by the web process and
  run by a worker that was told of it before the commit.
* **Effects without rollback.**  The bucket, the broker, Stripe and mail keep what was
  done when the transaction is rolled back.  The two callers of `generate_tts` treat an
  exception differently: the handler rolls back, the worker commits.
* **External order.**  Stripe reorders and repeats events, endpoints answer late, Celery
  acknowledges a task when it is received and so loses it with the worker.

Correctness, per component: the counter is never above what was served nor beyond a
plan's limit; a call is answered and is all or nothing; a job reaches an outcome and
a completed job has its audio; a plan is had by paying and lost by cancelling; members
come by invitation, owners are not removed to the last, managers act inside their
organisation; audio is kept until it expires and goes then; a delivery ends; an account
is created whole or not at all and its password changes by a mailed link; access ends with
the user or the key; what an organisation is told of its usage is coherent and fresh.

## Modules

`Plans` — the gates as operators over a plan record and a request record, the seeded
rows, the default without a row, and the remainder the summary shows.  `Generation` uses
it; `GenerationProofs` proves what holds for every usage and request.

`UsageLedger` — the abstract counter: a caller reads it once, later writes its reading
plus its size, once, up to the ceiling of some plan, or leaves.  Two theorems hold for
every number of callers, and lemmas about sums over sets serve two other modules.  `Generation` implements it, `UsageReports` reads it.

`Generation` — one organisation and its `POST /tts` calls.  `web[c]` is the HTTP
handler, `run[c]` the execution of `generate_tts` around it or in the worker, `snap[c]`
the organisation and plan its session has read.  `Receive` (dependencies and
start), `Admit`/`Refuse` (gates), `Synthesise` (audio and upload, which nothing
separates), `SaveSync`/`SaveJob` (rows, counter and commit as one step, as get_db and
`_do_generate` commit them), `Notify` (the dispatch of the webhook) follow the code; `Submit`
flushes a job and sends the task, `CommitJob` is the later commit, and `LoadJob` or
`MissJob` the worker between them.  Each place that may raise has its action:
`SynthesisFails`, `MessageTooLong`, `UploadFails`, `Overflow`, `PresignFails`,
`NotifyFails`, and `Crash` and `LoseJob` for dying processes; `Raises` holds the two
reactions to an exception.  `UpdateOrg` is the superadmin's (and a Stripe event's)
change of plan and status.  `served` is the sum over `usage_logs`, which the run
checks.  Both Celery queues have workers (`docker/docker-compose.yml`), so the queue
chosen by the plan is not a variable.  `Generation` implements `UsageLedger` under the
mapping `Ledger`: a session in `Holding` is a caller that has read.

`UsageReports` — readers over `UsageLedger`: a summary request reads the counter, asks
Redis (`Hit`, `Miss`), counts the logs, saves and answers, each a step of its own; a
client cuts the history into pages while `Log` commits rows.  `order` is the order of
`created_at`, the begin of the transaction that inserts the row, which is not the order of the commits; a
row's place in the history is its `Offset`, how many committed rows are newer.  The age
of the counter reading is an observer.

`Accounts` — one row per address, and requests that read, flush, mail and commit.
`FlushOrg` and `FlushUser` wait at the unique indexes while another transaction holds the
slug or the address; `Written` is the column-wise update of the ORM; `Observe` keeps
`stale`, the requests whose row another one has committed to since they read it.  `Join` and `Remove`
are Team's acceptance and removal, seen from here.

`Access` — tokens as what is left of their life, API keys as rows, and requests that may
change the key another one came with.  `LockKey` is the update of `last_used_at`, which
flushes with the next query; `Waits` says whom a request waits for, `Abort` is the database
breaking a circle of waiting.  The unit of work flushes `api_keys` before `organisations` and `users`, so circles
go through key rows only.  Keys are rows from the start, because `create_api_key`
never succeeds (see the run `api_keys`).

`Billing` — the billing columns, Stripe's side (sessions, subscriptions, events not yet
answered) and the webhook requests, each with the row it has read.  A failed commit
brings the event again (`Retry`), a lost
answer too (`Repeat`).  `disturbed` observes whether an event has overtaken another, or
two requests or two checkout sessions have overlapped.

`Team` — users, invitations and up to two requests of any kind: `Authenticate`, then one
step for each query, then the commit.  `stale` observes which requests have been
overtaken by another commit, `uses` how often an invitation was accepted.

`Retention` — rows, bucket and overlapping sweeps of `expire_old_files`, each object
deleted on its own and all rows in one commit.  A row comes with its object (`Keep`) or,
when the synthesis of a job failed, without one (`KeepFailed`: `generate_tts` flushes the
row before it raises, and the worker commits it with "failed"); `filled` tells the two
apart, as `file_size_bytes` does.  `link` is the last redirect handed out.  Objects whose
row was rolled back are `Generation`'s matter: no sweep ever sees them.

`Webhooks` — registration (count, then insert), the worker of a job from the commit of its
outcome to its return, and delivery with `self.retry`.  `News` is the event the worker
dispatches next: `job.completed`, inside the `try`; `tts.failed` for a job that failed,
or that was completed and whose dispatch raised, wherever it did (`DispatchBreaks`: any
part of the tasks is sent; `broken` counts).  An exception of `tts.failed` is passed over.
`DispatchDies` is a worker that dies there, or whose commit of "failed" is refused.  `owed`
observes the rows that were there at the outcome and were not deleted before the worker
ended, `calls` the attempts that an endpoint has left unanswered.  `Generation!Notify` and
`NotifyFails` are the same dispatch, seen from the job.  A dispatch is one step: a row that is inserted or deleted
during the loop, after the query, counts as inserted or deleted after it.

`MC*` modules give the constants; definitions placed "first" before one they
resemble (`ChargedTwice` before `Charged`) are deliberately wrong variants, used only to
confirm that each property notices them.  `*Proofs` modules hold the theorems.

## Runs

| run | what it shows | bounds, and why they are enough | distinct states |
|---|---|---|---|
| `usage_reports` | a summary agrees with the logs and is never older than the cache allows; pages miss no row | two callers of two voices that may overlap, two summary requests, entries of two ticks, requests of one, pages of one row: an entry can expire while a miss is being computed, and a row arrive before or between the rows read | 447,888 |
| `accounts` | accounts are whole, passwords change by a link, links die for a reason, nobody waits for ever | two addresses, two slugs with every conflict between them, two requests of any kind, three tokens (a registration, a reset and one that replaces it), an invitation, removal and expiry at any time | 416,456 |
| `access` | tokens are bounded, access ends with the user or the key, deadlocks are left | one manager, a session that starts again and again, an active key and an inactive one that expires, two requests: each may hold the key the other one changes; lives of one and two ticks | 102,788 |
| `api_keys` | *violated*: a key within the limit is answered with an error | as `access` | 36 |
| `generation` | rows, objects, jobs and counter stay consistent; refinement of the ledger | two synchronous calls (plain, advanced) and a job; free and pro; one fault and one crash anywhere: with three calls every order of reading and writing occurs | 55,072 |
| `generation_live` | calls are answered and jobs end, also when the INTEGER column overflows | two synchronous calls of 3 in a column that ends at 5, and a job of 2; one fault, no crash | 40,512 |
| `generation_quota` | *violated*: two calls that fit one by one are both served beyond the quota | two calls of 3, limit 5 | 80 |
| `generation_pending` | *violated*: a worker that is faster than the commit drops a job | one job, no fault | 24 |
| `billing` | a plan is had only by paying; where nothing overlapped or overtook, a plan is backed and a cancellation arrives | two checkouts and two webhook requests that may overlap, any order, one commit that fails or answer that is lost, two changes of status (past due or canceled, then canceled) | 1,005,464 |
| `team` | joining is by invitation; only an overtaken request breaks the last-owner check, the single use or the organisation's border | two organisations, three addresses (an owner each and one unregistered), one invitation, two requests of any kind; requests are symmetric; roles assigned: owner and admin (a member can start no request but the acceptance, which needs no role) | 1,536,630 |
| `retention` | nothing goes early, expired rows go, an object left behind is a refusal | two files, each with audio or of a failed job, two sweeps, one refusal, one crash: a crashed sweep, one overlapping it and one after | 33,528 |
| `webhooks` | the limit is passed by the overlap only, one exception leaves no endpoint out, deliveries end | limit one and three rows (for both events, for `job.completed`, for neither), two registrations, one job whose dispatches may raise and die anywhere, one retry, one lost task: up to two rows at a time, so that a dispatch can break between them | 156,396 |

Calls and limits are scaled (a limit of 5 characters and calls of 2 to 4): only sums and
comparisons with a limit, the threshold and the column's end matter.  `MaxFaults`,
`MaxCrashes`, `MaxRepeats`, `MaxFailures` and `MaxChanges` bound the environment, never
the code, as does `MaxTokens`.  `CHECK_DEADLOCK FALSE` appears where the story ends: every checkout is over
(`Billing`), invitations and managers have run out (`Team`), tokens and users have
(`Accounts`).

**Fairness.**  `Generation!FairSpec` is weak fairness of each call's own next step
(`Progress`): the event loop resumes each handler and the workers, which compose starts
for both queues, take each task and do not stop inside it; faults and crashes are never
fair.  `Receive` and `Submit` are not fair: no user has to call.  `Billing!FairSpec`: Stripe redelivers what
was not answered, and a request is served.  `Retention!FairSpec`: beat starts the sweep
every 24 hours and it works on.  `Webhooks!FairSpec`: the worker of the queue runs each
task when its countdown is over.  `Accounts!FairSpec`: the server goes on with each request,
and a wait at an index ends with the transaction that holds the key.  `Access!AccessFairSpec`: the
server goes on (weak fairness of `Server`), and a change that waits for a row has its turn (strong fairness of
`CommitKey`), since PostgreSQL queues those who wait for a row; no user has to act, and no
request has to be admitted.  `UsageReports` and `Team` claim no liveness.

## Proofs

`UsageLedger` proves, for any callers, any sizes and any non-empty set of ceilings
(`LedgerAssumption`), that the counter stays below the total and below the highest
ceiling.  Neither is inductive: a caller writes what it has *read*.  `LedgerInv` adds
`ReadingsWithinTotal` — every reading held is at most the total, since the counter was
when it was read and the total never shrinks.

Its last section is about sums.  `MapThenSumSet`, the SUM of the code's queries, folds
over whichever element CHOOSE picks, and no induction over sets can be cited here.  A
smallest counterexample takes its place (`SmallestSet`): the smallest set without a sum,
or whose fold is not its sum, would get it from the set without one of its elements
(`SumsExist`, `PickedIsSum`).  So one element more adds its value (`SumAdds`), and the
sum over two disjoint sets is that of the two (`SumUnion`).

`GenerationProofs` proves, for any calls, plans, requests and bounds admitted by
`GenerationAssumption`:

1. `TypeCorrect`: `TypeOK` is inductive, one step for each action, with lemmas for the
   operators the actions share (`Fault` and its kin, `Raises`, `Charged`).
2. `AdmittedCorrect`: a call that is generating or has its audio fits the quota of the plan *it has
   read* (`AdmittedWithinQuota`).  This is what ties `Charged`, many steps after the
   gates, to a ceiling although plan and counter have moved since.
3. `GenerationImplementsLedger`: initial states map to initial states, and each step
   maps to `Read` (`Receive`, `LoadJob`), `Charge` (`SaveSync`, `SaveJob`, `PresignFails` of a job), `Leave`
   (refusals, failures, crashes) or a stutter.  `Charge` needs 2.
4. `NeverOverchargedCorrect` and `WithinCeilingCorrect`: the ledger's theorems carried over
   the refinement.
5. `SyncAllOrNothingCorrect`, `CompletedHasAudioCorrect`, `DeadLinksAreFailedJobsCorrect`,
   `JobNeverReopensCorrect`: rows, handler, job and object of one call advance together.  The
   inductive `CallsInOrder` says per call that it has no row before it is charged and its
   audio from the upload on (`RowsInOrder`), that a handler answers when it has saved
   (`HandlerInOrder`), and that a job's status follows its worker (`JobInOrder`).
6. `ServedIsLoggedCorrect`: what was served is the sum over the logs that say success.  A
   call's log begins to say so in the step that adds its size and never stops
   (`SuccessStep`, which needs `RowsInOrder`), so `SumAdds` applies (`LoggedOnce`).
7. About the operators of `Plans`, for any usage and request: `UpgradeKeepsCalls`,
   `NoPlanIsFree`, and `RemainingIsQuota` (the remainder shown and the quota enforced are
   computed in two services).

`UsageReportsProofs` proves every property of its run, for any callers, requests,
durations and page size:

1. `SummaryFresh`: the age of what is served is bounded by that of the entry, and the entry's
   age and what is left of its life share one budget: `age + left <= SUMMARY_TTL + Span`
   (`FreshInv`).
2. `SummaryCoherent`: the ledger's total is the sum of what is logged, and a request that
   has yet to count the logs has read at most that total (`SumsInv`, with `RowsInv` for
   the rows).  So its characters are within the rows it then counts, and rows only ever join.
   The breakdown sums voice by voice what the summary sums row by row (`SumUnion`).
3. `PagesMissNothing`: the offset of a row never shrinks, since a stamp goes in front and
   a commit adds a row, so what a client is owed and has not seen stays behind the pages
   it has read (`PagesInv`: its offset is at least `page * PageSize`).

`AccountsProofs` proves `AccountIsWhole`.  The inductive `WholeInv` adds: of the requests
past their flush one holds each slug (`SlugsHeldOnce`) and each address (`EmailsHeldOnce`);
a registration began without a row and names a slug, any other request found a row and
names none (`RequestsKnowTheirRow`); and an absent row is empty (`AbsentRowsAreEmpty`).
`PasswordNeedsLink` and `LinkDiesForAReason` need in addition `ReadingsCurrent`: a request
that was not overtaken has read what is still there, and a reset has found its row by its link.

`ExpiryProofs` proves of `Retention` `KeptUntilExpiry` (of rows with audio) and `OrphansAreRefusals`
for any files and sweeps.  A sweep holds expired rows only; a file that is not there has neither
link nor audio; and the
objects *some* sweep is past, with the orphans they will become, are no more than the faults
(`RefusalsCounted`: the orphans alone are not inductive, since many appear in one commit).
Of `Access` it proves, for any lives of the tokens, sessions, keys and requests,
`SessionBounded`, from what each token has left (`Bounded`: age and remaining refresh are
within the refresh life, age and remaining access within both lives together), and an
action property that no run lists, `KeysStayDead`: no step brings a deleted or expired key
back, whatever stale row a PATCH has read, because `Written` mixes column by column.

`WebhooksProofs` proves `WithinLimit` and `NobodyIsLeftOut`, for any number of jobs that
dispatch at once and any subscriptions.  `LimitShared` counts rows and the registrations
between count and insert together; without the latter nothing bounds an insert.  For
`NobodyIsLeftOut` the invariant says what holds before the last dispatch (`JobInOrder`): while
its worker is busy a job has a chance left, the rows it owes are still there, and nothing
has been sent of what it would dispatch next, so that each dispatch starts its deliveries from the
beginning.  `CallsCounted` ties the attempts to the count the task keeps.

`BillingProofs` proves `PlanWasPaid` for any checkouts and requests: `PaymentInv` carries it from the row to
every row a request has read and to every event in the mail or in work, because the
committed row may mix the columns of two events.

It also proves `PlanIsBacked`, which promises something only while nothing is
`disturbed`.  That a plan has a living subscription when all is quiet is not inductive:
on the way there, a subscription may be over without the row knowing it.  `BackedInv`
says what is owed then.  Undisturbed, every session is for the customer of the row
(`OneCustomer`); at most one request is busy, and it has read what is still the row
(`OneReader`); and each plan that a subscription which is over has given, or that a
"completed" event in the mail or in work will give, has an event behind it that takes the
plan away (`PlanEnds`).  The proof needs that `Retry` puts a failed event back in front of
the others, and that `disturbed` notices a session opened beside an open one.

`TeamProofs` proves `JoinsByInvitation`, `TenantIsolation`, `RemovalKeepsOwner` and
`InviteUsedOnce`, the last three with the exception of overtaken requests that they state.
`TeamInv` adds three facts to the types: a target is found inside the organisation of who
looks it up (`TargetsInside`), a used invitation says so (`UsedIsAccepted`), and what a request that
was not overtaken has read, counted or opened still holds (`ReadingsCurrent`).  `ManagerWrites` and
`AcceptanceWrites` say what a commit may do to a row when only changed columns are written.

The assumptions are those named in the modules: sizes are positive, a limit is -1 or
within the column, bounds are naturals, requests of `Webhooks` are finitely many,
subscriptions are sets of events,
`None` is not the name of a checkout.  Nothing
bounds calls, callers, readers, files, sweeps, checkouts, addresses or invitations.

Every invariant and every action property that a passing run checks is a theorem, and so
is the refinement.  Only model-checked is all liveness, since fairness and ENABLED are
outside the prover: `HandlerAnswers`, `ProcessingEnds`, `RequestsEnd`, `AccessEnds`,
`CancellationArrives`, `ExpiredRowsGo` and `DeliveryEnds`.

**What the properties except.**  Some hold only of what nobody disturbed, because the code
loses the race otherwise; each says so where it is stated, and the next section lists the races.
Single use, last owner and tenant isolation (`Team`) except requests overtaken by another
commit, so that they say what any sequence of requests does, and little of two at once;
`PlanIsBacked` and `CancellationArrives` except overtaken events and overlapping checkouts; the
link properties of `Accounts` except two resets at once and a commit that comes after
another's.  `JoinsByInvitation`, `PlanWasPaid`, `AccountIsWhole` and everything about the
counter hold whatever overlaps.  `SyncAllOrNothing` is about the commit, with which the answer
is one step: a process that dies between the two has charged a call whose client knows
nothing of it.  `PagesMissNothing` is about logs with distinct `created_at`, by which alone the
query orders.  The keys of `Access` are rows from elsewhere, since creation fails.

## Where the code departs from what the repository says

Two kinds.  Checked by a run whose property TLC violates: `generation_quota`,
`generation_pending`, `api_keys` (`routers/api_keys.py:71` validates the answer before it
has the full key, and the prefix of 24 characters does not fit the 20 of
`models/api_key.py:32`).  Met while modelling, visible in the
modules and in the exceptions the properties spell out:

* Two acceptances of an invitation, two removals of the last two owners, or a role
  change after the target moved (`Team`, the `stale` exceptions).  A role change of the last
  owner, and an admin inviting an owner, need no overlap at all: `routers/team.py:110`
  and `:141` say otherwise.  An acceptance leaves a removed user removed.
* An exception of `dispatch_event` after a job was committed as completed makes it
  failed (`NotifyFails`; `models/job.py:34`).  Endpoints reached before the exception get
  `job.completed` and `tts.failed`; a second exception, or one while `tts.failed` of a failed job is
  dispatched, is passed over, and nobody else hears of the job.
* Three of the five events a webhook may ask for (`tts.completed`, `quota.warning`,
  `quota.exceeded`; `schemas/webhook.py:7`) are dispatched nowhere.
* A failed synthesis inside a job leaves a file row without audio, whose link is dead until
  the row expires (`KeepFailed`).
* A flush the database refuses (an error text beyond 500 characters, a counter beyond
  INTEGER) leaves the worker's session unable to commit "failed": the job stays
  processing (`MessageTooLong`, `Overflow`).
* Stripe reorders events: a checkout event handled after the deletion of its subscription brings
  the plan back for good.  Overlapping checkouts create two customers; two events handled at once can leave
  a canceled row on a paid plan; a subscription paid again after "unpaid" does not get
  its plan back (`services/billing_service.py:23`, `:106`).
* Nothing writes `current_period_end`, so `reset_expired_quotas` never selects a row
  (`tasks/maintenance_tasks.py:68`).
* A refused deletion orphans its object (`OrphansAreRefusals`); `MAX_WEBHOOKS` is passed
  by overlapping registrations (`WithinLimit`); events go on being dispatched after the
  plan with webhooks is left.
* Two overlapping resets with one link both set a password.  A removed user may still be
  mailed a link and reset the password of the dead row.  Nothing requires
  `is_email_verified`, and the tokens that `models/user.py:37` calls "stored hashed" are
  stored as they are mailed.
* A PATCH that activates a key is not counted against the limit, and run during a DELETE
  leaves a row both active and deleted (which is refused).  A refresh asks no database.
* `invalidate_summary_cache` has no caller, so a summary lags for its whole life.

## Not modelled

* `reset_expired_quotas`: selects no row, see above.
* Reads and listings, `get_daily_usage` (the breakdown by voice, by date), the dates that may
  narrow the history, the period of the summary (never set), `create_portal_session`,
  `POST /webhooks/{id}/test`, announcements, mail: no state that anything reads.
* `users.last_active_at`, which every request updates and nothing reads.
* Superadmins in `Team`, `Access` and `Accounts`; suspended organisations in `Team`,
  `Billing` and `Access` (their refusal is modelled in `Generation`).
* Whether a worker's second task finds usable pooled connections on its new event
  loop (`tasks/tts_tasks.py:15`): its failing is a `Crash` of a queued task.
* Configuration, health, routing, rate limits, migrations but for the seeded plans,
  containers, and the cryptography (hashes, JWT signatures): libraries or I/O.

## Plan

Done: `Plans`, `UsageLedger`, `Generation`, `UsageReports`, `Accounts`, `Access`, `Billing`,
`Team`, `Retention`, `Webhooks`, and the proofs above.

Worth doing next:

1. `Generation` and `Webhooks` composed: `outcome` and `News` of the one are job status and
   `Notify` of the other, step by step; so far each models the dispatch for itself.
2. `KeysStayDead` as a property of the run `access`, beside its theorem.
