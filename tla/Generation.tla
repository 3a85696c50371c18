----------------------------- MODULE Generation -----------------------------
(***************************************************************************)
(* One organisation's speech generation, from POST /tts to the usage       *)
(* counter: app/routers/tts.py, app/services/tts_service.py and            *)
(* app/tasks/tts_tasks.py, over the rows of organisations, jobs,           *)
(* generated_files and usage_logs and the objects of the S3 bucket.        *)
(*                                                                         *)
(* A call is one POST /tts.  A synchronous call runs generate_tts in its   *)
(* own handler; an asynchronous one flushes a job row, sends a Celery task *)
(* and only then, when get_db resumes, commits the row, while a worker     *)
(* that already has the task runs generate_tts on its own session.  Each   *)
(* session reads the organisation once, at the start, and every commit is  *)
(* one step: the ORM writes what it computed from that reading.            *)
(***************************************************************************)
EXTENDS Plans, FiniteSetsExt

CONSTANTS
  Calls,           \* the POST /tts calls of the organisation's users
  Request,         \* [Calls -> request record]: what each one asks for
  PlanNames,       \* the plans an organisation may be moved to
  Plan,            \* [PlanNames -> plan record]
  InitialPlan,     \* the plan the organisation registered with
  AsyncThreshold,  \* ASYNC_CHAR_THRESHOLD
  MaxInt,          \* the largest value of an INTEGER column
  LongMessages,    \* whether an error text may exceed usage_logs.error_message
  MaxFaults,       \* bound: how many exceptions a behaviour has
  MaxCrashes       \* bound: how many times a process dies in one

ASSUME GenerationAssumption ==
  /\ Request \in [Calls -> RequestRecord(Nat \ {0})]
  /\ Plan \in [PlanNames -> PlanRecord(Int)]
  /\ \A p \in PlanNames : Plan[p].limit = Unlimited \/ Plan[p].limit \in 0 .. MaxInt
  /\ InitialPlan \in PlanNames
  /\ AsyncThreshold \in Nat
  /\ MaxInt \in Nat
  /\ LongMessages \in BOOLEAN
  /\ MaxFaults \in Nat
  /\ MaxCrashes \in Nat

VARIABLES
  orgPlan,     \* organisations.plan_id
  orgActive,   \* organisations.status = "active"
  orgChars,    \* organisations.chars_used_this_period
  served,      \* SELECT SUM(character_count) over the successful usage logs
  logs,        \* usage_logs: the status of the call's row, "none" without one
  files,       \* generated_files: the calls that have a row
  objects,     \* the bucket: the calls whose audio is stored
  job,         \* jobs.status of the call's committed row, "absent" without one
  resultKey,   \* the jobs whose result_s3_key is set
  web,         \* where the HTTP handler of the call is
  run,         \* where generate_tts, or the task around it, is for the call
  snap,        \* the plan and the counter the running session has read
  faults,      \* exceptions raised so far by S3, edge_tts or the broker
  crashes      \* processes and connections lost so far

orgRow == <<orgPlan, orgActive>>
ledger == <<orgChars, served, logs, files>>
vars == <<orgPlan, orgActive, orgChars, served, logs, files, objects, job,
          resultKey, web, run, snap, faults, crashes>>

Size == [c \in Calls |-> Request[c].chars]
Async == {c \in Calls : ShouldAsync(Request[c], AsyncThreshold)}
Sync == Calls \ Async

JobStates == {"absent", "pending", "processing", "completed", "failed"}
LogStates == {"none", "success", "error"}
WebStates == {"new", "handling", "enqueued", "answered", "refused", "failed"}
RunStates == {"idle", "queued", "loaded", "started", "generating", "voiced",
              "notifying", "over"}
\* A session holds a reading of the organisation row in these states.
Holding == {"loaded", "started", "generating", "voiced"}
Snapshot == [plan : PlanNames, chars : Nat]
Unread == [plan |-> InitialPlan, chars |-> 0]

\* How far the counter may be charged on a plan: the column itself ends at
\* MaxInt, where PostgreSQL refuses the UPDATE.
Ceiling(p) == IF Plan[p].limit = Unlimited THEN MaxInt ELSE Plan[p].limit

TypeOK ==
  /\ orgPlan \in PlanNames
  /\ orgActive \in BOOLEAN
  /\ orgChars \in Nat
  /\ served \in Nat
  /\ logs \in [Calls -> LogStates]
  /\ files \subseteq Calls
  /\ objects \subseteq Calls
  /\ job \in [Calls -> JobStates]
  /\ resultKey \subseteq Calls
  /\ web \in [Calls -> WebStates]
  /\ run \in [Calls -> RunStates]
  /\ snap \in [Calls -> Snapshot]
  /\ faults \in Nat
  /\ crashes \in Nat

Init ==
  /\ orgPlan = InitialPlan
  /\ orgActive = TRUE
  /\ orgChars = 0
  /\ served = 0
  /\ logs = [c \in Calls |-> "none"]
  /\ files = {}
  /\ objects = {}
  /\ job = [c \in Calls |-> "absent"]
  /\ resultKey = {}
  /\ web = [c \in Calls |-> "new"]
  /\ run = [c \in Calls |-> "idle"]
  /\ snap = [c \in Calls |-> Unread]
  /\ faults = 0
  /\ crashes = 0

----------------------------------------------------------------------------
(* The HTTP handler *)

Fault == faults < MaxFaults /\ faults' = faults + 1 /\ UNCHANGED crashes
Dies == crashes < MaxCrashes /\ crashes' = crashes + 1 /\ UNCHANGED faults
NoFault == UNCHANGED <<faults, crashes>>

Moves(c, from, to) == run[c] = from /\ run' = [run EXCEPT ![c] = to]
Answers(c, to) == web' = [web EXCEPT ![c] = to]
TakesSnapshot(c) == snap' = [snap EXCEPT ![c] = [plan |-> orgPlan, chars |-> orgChars]]

\* get_current_org answers 403 for a suspended organisation.
TurnAway(c) ==
  /\ web[c] = "new" /\ ~orgActive
  /\ Answers(c, "refused")
  /\ NoFault
  /\ UNCHANGED <<orgRow, ledger, objects, job, resultKey, run, snap>>

\* A synchronous call: the dependencies read the organisation and its plan,
\* and generate_tts begins in the handler.
Receive(c) ==
  /\ c \in Sync
  /\ web[c] = "new" /\ orgActive
  /\ Answers(c, "handling")
  /\ Moves(c, "idle", "started")
  /\ TakesSnapshot(c)
  /\ NoFault
  /\ UNCHANGED <<orgRow, ledger, objects, job, resultKey>>

\* An asynchronous call: the job row is flushed, not committed, and the task
\* is on its queue (of the two, "tts" or "tts_priority", both of which have
\* workers).  No gate is applied here.
Submit(c) ==
  /\ c \in Async
  /\ web[c] = "new" /\ orgActive
  /\ Answers(c, "enqueued")
  /\ Moves(c, "idle", "queued")
  /\ NoFault
  /\ UNCHANGED <<orgRow, ledger, objects, job, resultKey, snap>>

\* get_db commits after the handler returned.
CommitJob(c) ==
  /\ web[c] = "enqueued"
  /\ Answers(c, "answered")
  /\ job' = [job EXCEPT ![c] = "pending"]
  /\ NoFault
  /\ UNCHANGED <<orgRow, ledger, objects, resultKey, run, snap>>

\* That commit fails, or the web process dies: the task stays on its queue.
LoseJob(c) ==
  /\ web[c] = "enqueued"
  /\ Answers(c, "failed")
  /\ Dies
  /\ UNCHANGED <<orgRow, ledger, objects, job, resultKey, run, snap>>

----------------------------------------------------------------------------
(* The worker, before generate_tts *)

\* The task finds no job row, logs it and is over (the broker was
\* acknowledged when the task was received, so it never comes back).
MissJob(c) ==
  /\ Moves(c, "queued", "over")
  /\ job[c] = "absent"
  /\ NoFault
  /\ UNCHANGED <<orgRow, ledger, objects, job, resultKey, web, snap>>

LoadJob(c) ==
  /\ Moves(c, "queued", "loaded")
  /\ job[c] # "absent"
  /\ TakesSnapshot(c)
  /\ NoFault
  /\ UNCHANGED <<orgRow, ledger, objects, job, resultKey, web>>

BeginJob(c) ==
  /\ Moves(c, "loaded", "started")
  /\ job' = [job EXCEPT ![c] = "processing"]
  /\ NoFault
  /\ UNCHANGED <<orgRow, ledger, objects, resultKey, web, snap>>

----------------------------------------------------------------------------
(* generate_tts, in the handler or in the worker *)

\* The two callers of generate_tts differ in what an exception does: get_db
\* rolls back and the client gets an error; _do_generate marks the job
\* failed and commits, with whatever the session holds.  (The variants before
\* it lose the answer, the except clause and the spelling of the status.)
RaisesUnanswered(c, answer) ==
  \/ c \in Sync  /\ UNCHANGED <<job, web>>
  \/ c \in Async /\ job' = [job EXCEPT ![c] = "failed"] /\ UNCHANGED web
RaisesUncaught(c, answer) ==
  \/ c \in Sync  /\ Answers(c, answer) /\ UNCHANGED job
  \/ c \in Async /\ UNCHANGED <<job, web>>
RaisesOtherStatus(c, answer) ==
  \/ c \in Sync  /\ Answers(c, answer) /\ UNCHANGED job
  \/ c \in Async /\ job' = [job EXCEPT ![c] = "error"] /\ UNCHANGED web
Raises(c, answer) ==
  \/ c \in Sync  /\ Answers(c, answer) /\ UNCHANGED job
  \/ c \in Async /\ job' = [job EXCEPT ![c] = "failed"] /\ UNCHANGED web

\* What the session holds once generate_tts reached its flush.  (First, what
\* it would hold if the call were charged twice, not logged or not charged.)
ChargedTwice(c) ==
  /\ orgChars' = snap[c].chars + 2 * Size[c]
  /\ served' = served + Size[c]
  /\ logs' = [logs EXCEPT ![c] = "success"]
  /\ files' = files \cup {c}
ChargedUnlogged(c) ==
  /\ orgChars' = snap[c].chars + Size[c]
  /\ served' = served + Size[c]
  /\ files' = files \cup {c}
  /\ UNCHANGED logs
ChargedNothing(c) ==
  /\ served' = served + Size[c]
  /\ logs' = [logs EXCEPT ![c] = "success"]
  /\ files' = files \cup {c}
  /\ UNCHANGED orgChars
Charged(c) ==
  /\ orgChars' = snap[c].chars + Size[c]
  /\ served' = served + Size[c]
  /\ logs' = [logs EXCEPT ![c] = "success"]
  /\ files' = files \cup {c}

Fits(c) == snap[c].chars + Size[c] <= MaxInt

Admitted(c) == Gates(Plan[snap[c].plan], snap[c].chars, Request[c])

Admit(c) ==
  /\ Moves(c, "started", "generating")
  /\ Admitted(c)
  /\ NoFault
  /\ UNCHANGED <<orgRow, ledger, objects, job, resultKey, web, snap>>

Refuse(c) ==
  /\ Moves(c, "started", "over")
  /\ ~Admitted(c)
  /\ Raises(c, "refused")
  /\ NoFault
  /\ UNCHANGED <<orgRow, ledger, objects, resultKey, snap>>

\* edge_tts answers, and the audio is put in the bucket right after.  (First,
\* with the upload left out.)
SynthesiseOnly(c) ==
  /\ Moves(c, "generating", "voiced")
  /\ NoFault
  /\ UNCHANGED <<orgRow, ledger, objects, job, resultKey, web, snap>>
Synthesise(c) ==
  /\ Moves(c, "generating", "voiced")
  /\ objects' = objects \cup {c}
  /\ NoFault
  /\ UNCHANGED <<orgRow, ledger, job, resultKey, web, snap>>

\* edge_tts or the conversion fails: a file row and an error log are added
\* all the same, then the 500 is raised.
SynthesisFails(c) ==
  /\ Moves(c, "generating", "over")
  /\ Raises(c, "failed")
  /\ \/ c \in Sync /\ UNCHANGED <<logs, files>>
     \/ /\ c \in Async
        /\ logs' = [logs EXCEPT ![c] = "error"]
        /\ files' = files \cup {c}
  /\ Fault
  /\ UNCHANGED <<orgRow, orgChars, served, objects, resultKey, snap>>

\* As above, but str(exc) is longer than the 500 characters of its column
\* (ffmpeg prints its banner and its output), so the flush itself raises.
\* The worker's session can then not commit "failed" either: the exception of
\* that second commit ends the task.
MessageTooLong(c) ==
  /\ LongMessages
  /\ Moves(c, "generating", "over")
  /\ \/ c \in Sync /\ Answers(c, "failed")
     \/ c \in Async /\ UNCHANGED web
  /\ Fault
  /\ UNCHANGED <<orgRow, ledger, objects, job, resultKey, snap>>

\* upload_audio raises before anything was added to the session.  (First, if
\* the file row were added before the upload.)
UploadFailsLate(c) ==
  /\ Moves(c, "generating", "over")
  /\ Raises(c, "failed")
  /\ files' = IF c \in Async THEN files \cup {c} ELSE files
  /\ Fault
  /\ UNCHANGED <<orgRow, orgChars, served, logs, objects, resultKey, snap>>
UploadFails(c) ==
  /\ Moves(c, "generating", "over")
  /\ Raises(c, "failed")
  /\ Fault
  /\ UNCHANGED <<orgRow, ledger, objects, resultKey, snap>>

\* The flush is refused because the counter would leave its column.  The
\* handler rolls back; the worker's session can no longer commit "failed".
\* (First, if the log and the file row had been committed before it.)
OverflowAfterLog(c) ==
  /\ Moves(c, "voiced", "over")
  /\ ~Fits(c)
  /\ \/ c \in Sync /\ Answers(c, "failed")
     \/ c \in Async /\ UNCHANGED web
  /\ logs' = [logs EXCEPT ![c] = "success"]
  /\ files' = files \cup {c}
  /\ NoFault
  /\ UNCHANGED <<orgRow, orgChars, served, objects, job, resultKey, snap>>
Overflow(c) ==
  /\ Moves(c, "voiced", "over")
  /\ ~Fits(c)
  /\ \/ c \in Sync /\ Answers(c, "failed")
     \/ c \in Async /\ UNCHANGED web
  /\ NoFault
  /\ UNCHANGED <<orgRow, ledger, objects, job, resultKey, snap>>

\* The URL cannot be signed: raised after the flush, before the commit.
PresignFails(c) ==
  /\ Moves(c, "voiced", "over")
  /\ Fits(c)
  /\ Raises(c, "failed")
  /\ \/ c \in Sync /\ UNCHANGED ledger
     \/ c \in Async /\ Charged(c)
  /\ Fault
  /\ UNCHANGED <<orgRow, objects, resultKey, snap>>

SaveSync(c) ==
  /\ c \in Sync
  /\ Moves(c, "voiced", "over")
  /\ Fits(c)
  /\ Charged(c)
  /\ Answers(c, "answered")
  /\ NoFault
  /\ UNCHANGED <<orgRow, objects, job, resultKey, snap>>

SaveJob(c) ==
  /\ c \in Async
  /\ Moves(c, "voiced", "notifying")
  /\ Fits(c)
  /\ Charged(c)
  /\ job' = [job EXCEPT ![c] = "completed"]
  /\ resultKey' = resultKey \cup {c}
  /\ NoFault
  /\ UNCHANGED <<orgRow, objects, web, snap>>

Notify(c) ==
  /\ Moves(c, "notifying", "over")
  /\ NoFault
  /\ UNCHANGED <<orgRow, ledger, objects, job, resultKey, web, snap>>

\* dispatch_event(job.completed) raises inside the try of _do_generate.
NotifyFails(c) ==
  /\ Moves(c, "notifying", "over")
  /\ job' = [job EXCEPT ![c] = "failed"]
  /\ Fault
  /\ UNCHANGED <<orgRow, ledger, objects, resultKey, web, snap>>

\* The process running the call dies or its session loses the database.  A
\* handler is rolled back; a worker's task was acknowledged when received, so
\* nothing runs it again, and its job keeps the status last committed.  (First,
\* if tasks were acknowledged when done, and so delivered again.)
CrashRedelivered(c) ==
  /\ run[c] \in Holding \cup {"queued", "notifying"}
  /\ \/ c \in Sync /\ Answers(c, "failed") /\ run' = [run EXCEPT ![c] = "over"]
     \/ c \in Async /\ UNCHANGED web /\ run' = [run EXCEPT ![c] = "queued"]
  /\ Dies
  /\ UNCHANGED <<orgRow, ledger, objects, job, resultKey, snap>>
Crash(c) ==
  /\ run[c] \in Holding \cup {"queued", "notifying"}
  /\ run' = [run EXCEPT ![c] = "over"]
  /\ \/ c \in Sync /\ Answers(c, "failed")
     \/ c \in Async /\ UNCHANGED web
  /\ Dies
  /\ UNCHANGED <<orgRow, ledger, objects, job, resultKey, snap>>

----------------------------------------------------------------------------
(* The organisation row *)

\* A superadmin gives the organisation a plan, suspends or reinstates it, or
\* both at once; a Stripe event gives it a plan.
UpdateOrg(p, active) ==
  /\ orgPlan' = p
  /\ orgActive' = active
  /\ p # orgPlan \/ active # orgActive
  /\ NoFault
  /\ UNCHANGED <<ledger, objects, job, resultKey, web, run, snap>>

Handler(c) == Receive(c) \/ TurnAway(c) \/ Submit(c) \/ CommitJob(c)
Task(c) == MissJob(c) \/ LoadJob(c) \/ BeginJob(c) \/ Notify(c)
Generate(c) ==
  \/ Admit(c) \/ Refuse(c) \/ Synthesise(c)
  \/ Overflow(c) \/ SaveSync(c) \/ SaveJob(c)
Failure(c) ==
  \/ LoseJob(c) \/ SynthesisFails(c) \/ MessageTooLong(c) \/ UploadFails(c)
  \/ PresignFails(c) \/ NotifyFails(c) \/ Crash(c)

Next ==
  \/ \E c \in Calls : Handler(c) \/ Task(c) \/ Generate(c) \/ Failure(c)
  \/ \E p \in PlanNames, active \in BOOLEAN : UpdateOrg(p, active)

Spec == Init /\ [][Next]_vars

\* The event loop resumes every handler, a worker takes every task, and
\* neither stops in the middle: faults are the only way out.
Progress(c) == CommitJob(c) \/ Task(c) \/ Generate(c)
FairSpec == Spec /\ \A c \in Calls : WF_vars(Progress(c))
----------------------------------------------------------------------------
(* Properties *)

\* The ledger of usage: the counter is never above what the organisation was
\* actually served, however its calls overlap, fail or die (tts_service.py:
\* the counter is charged from a stale reading, in one commit with its log).
NeverOvercharged == orgChars <= served

\* The counter stays within the ceiling of some plan, although each call
\* checks a quota on one reading and writes after others have written.
WithinCeiling == \E p \in PlanNames : orgChars <= Ceiling(p)

\* The total that served stands for: every successful log, once.
ServedIsLogged ==
  served = MapThenSumSet(LAMBDA c : Size[c], {c \in Calls : logs[c] = "success"})

\* A synchronous call is all or nothing: audio for the client, the charge,
\* the log and the file row come together, and a failed or refused call
\* leaves no row behind, wherever in generate_tts it failed.  (SaveSync is commit
\* and answer: a process that dies between the two is not covered.)
SyncAllOrNothing ==
  \A c \in Sync :
    /\ web[c] = "answered" <=> logs[c] = "success"
    /\ logs[c] # "none" <=> c \in files
    /\ logs[c] # "error"

\* A job reported as completed has its key, a file row, a successful log and
\* its audio in the bucket: GET /jobs/{id} returns a link that works.
CompletedHasAudio ==
  \A c \in Calls : job[c] = "completed" =>
    c \in resultKey /\ c \in files /\ c \in objects /\ logs[c] = "success"

\* A file row without audio behind it is the work of a failed job, and was
\* not charged: no other download link is dead.
DeadLinksAreFailedJobs ==
  \A c \in files \ objects : job[c] = "failed" /\ logs[c] = "error"

\* GET /jobs/{id} never shows a job going back: the only step after an
\* outcome is from completed to failed.
JobMoves == {<<"absent", "pending">>, <<"pending", "processing">>,
             <<"processing", "completed">>, <<"processing", "failed">>,
             <<"completed", "failed">>}
JobNeverReopens ==
  [][\A c \in Calls : job'[c] # job[c] => <<job[c], job'[c]>> \in JobMoves]_vars

\* Every call past the gates fits the quota of the plan it has read, whatever
\* became of the plan and the counter since: nobody is generating on a
\* reading the gates would refuse.
AdmittedWithinQuota ==
  \A c \in Calls : run[c] \in {"generating", "voiced"} =>
    enforce_quota(Plan[snap[c].plan], snap[c].chars, Request[c].chars)

\* The counter behaves as the ledger of stale readings, and nothing worse:
\* every call reads it once and charges it at most once, in handler or worker.
Ledger == INSTANCE UsageLedger WITH
  Callers  <- Calls,
  Ceilings <- {Ceiling(p) : p \in PlanNames},
  counter  <- orgChars,
  total    <- served,
  base     <- [c \in Calls |->
                 CASE run[c] \in {"idle", "queued"} -> -1
                   [] run[c] \in Holding -> snap[c].chars
                   [] OTHER -> -2]
ImplementsLedger == Ledger!LedgerSpec

\* Every call whose handler has begun is answered, whatever fails under it.
HandlerAnswers ==
  \A c \in Calls : web[c] \in {"handling", "enqueued"} ~>
                    web[c] \in {"answered", "refused", "failed"}

\* As long as the worker lives, a job that is processing reaches an outcome,
\* whatever edge_tts, S3 or the broker raise: _do_generate catches everything.
\* (True while every error text and the counter fit their columns: a flush the
\* database refuses leaves a session that cannot commit "failed" either.)
ProcessingEnds ==
  \A c \in Calls : job[c] = "processing" ~> job[c] \in {"completed", "failed"}

----------------------------------------------------------------------------
(* What the repository says and the code does not do *)

\* "10,000 chars/month": what is served within a period is within the limit.
ServedWithinQuota == \E p \in PlanNames : served <= Ceiling(p)

\* POST /tts "enqueues async job": an accepted job is taken up.
AcceptedJobRuns == \A c \in Calls : job[c] = "pending" ~> job[c] # "pending"
=============================================================================
