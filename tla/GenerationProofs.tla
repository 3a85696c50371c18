-------------------------- MODULE GenerationProofs --------------------------
(***************************************************************************)
(* What holds of Generation for every set of calls, every plan table and   *)
(* every bound on faults, and of the gates for every usage and request.    *)
(***************************************************************************)
EXTENDS Generation, FiniteSetTheorems, TLAPS

----------------------------------------------------------------------------
(* The gates: what the plans promise each other *)

\* Any usage, and any request whose text is not empty.
AnyRequest == RequestRecord(Nat \ {0})

\* Paying more never loses a call: what the gates of tts_service.py let through
\* on the free plan they let through on pro, and on business what they let
\* through on pro.  The four gates read four columns of the plan row, and -1
\* stands for the largest limit.
THEOREM UpgradeKeepsCalls ==
  ASSUME NEW used \in Nat, NEW request \in AnyRequest
  PROVE  /\ Gates(Seeded.free, used, request) => Gates(Seeded.pro, used, request)
         /\ Gates(Seeded.pro, used, request) => Gates(Seeded.business, used, request)
<1>1. request.chars \in Nat /\ request.ssml \in BOOLEAN /\ request.advanced \in BOOLEAN
  BY DEF AnyRequest, RequestRecord
<1> USE DEF Gates, Seeded, enforce_plan_feature, enforce_voice_access, enforce_quota,
            validate_ssml, Unlimited
<1>2. ASSUME Gates(Seeded.free, used, request) PROVE Gates(Seeded.pro, used, request)
  BY <1>1, <1>2
<1>3. ASSUME Gates(Seeded.pro, used, request) PROVE Gates(Seeded.business, used, request)
  BY <1>1, <1>3
<1>4. QED
  BY <1>2, <1>3

\* Losing the plan row changes nothing for an organisation on the free plan:
\* the fallbacks of tts_service.py are the row the first migration inserts.
THEOREM NoPlanIsFree ==
  ASSUME NEW used, NEW request
  PROVE  Gates(NoPlan, used, request) <=> Gates(Seeded.free, used, request)
<1>1. NoPlan = Seeded.free
  BY DEF NoPlan, Seeded, FREE_CHAR_LIMIT
<1>2. QED
  BY <1>1

\* The chars_remaining that usage_service.py shows and the quota that
\* tts_service.py enforces agree on every plan and every usage, the counter past
\* its limit included: a text fits exactly when it is no longer than what remains.
THEOREM RemainingIsQuota ==
  ASSUME NEW limit \in Nat \cup {Unlimited}, NEW plan \in PlanRecord({limit}),
         NEW used \in Nat, NEW chars \in Nat \ {0}
  PROVE  enforce_quota(plan, used, chars) <=>
           \/ chars_remaining(plan, used) = Unlimited
           \/ chars <= chars_remaining(plan, used)
<1>1. plan.limit = limit
  BY DEF PlanRecord
<1>2. CASE limit = Unlimited
  BY <1>1, <1>2 DEF enforce_quota, chars_remaining
<1>3. CASE limit \in Nat
  <2>1. limit # Unlimited
    BY <1>3 DEF Unlimited
  <2>2. chars_remaining(plan, used) # Unlimited
    BY <1>1, <1>3, <2>1 DEF chars_remaining, Unlimited
  <2>3. used + chars <= limit <=> chars <= chars_remaining(plan, used)
    BY <1>1, <1>3, <2>1 DEF chars_remaining
  <2>4. QED
    BY <1>1, <2>1, <2>2, <2>3 DEF enforce_quota
<1>4. QED
  BY <1>2, <1>3

----------------------------------------------------------------------------
(* Types *)

\* A request has a positive length, so every call charges a natural number.
LEMMA SizeType == Size \in [Calls -> Nat] /\ \A c \in Calls : Size[c] = Request[c].chars
BY GenerationAssumption DEF Size, RequestRecord

\* An exception answers the client or fails the job, and nothing else.
LEMMA RaisesType ==
  ASSUME TypeOK, NEW c \in Calls, NEW answer \in WebStates, Raises(c, answer)
  PROVE  /\ web' \in [Calls -> WebStates]
         /\ job' \in [Calls -> JobStates]
BY DEF TypeOK, Raises, Answers, JobStates

\* A charge writes a row of each table and natural numbers in the counter.
LEMMA ChargedType ==
  ASSUME TypeOK, NEW c \in Calls, Charged(c)
  PROVE  /\ orgChars' \in Nat /\ served' \in Nat
         /\ logs' \in [Calls -> LogStates]
         /\ files' \subseteq Calls
<1>1. snap[c].chars \in Nat /\ Size[c] \in Nat
  BY SizeType DEF TypeOK, Snapshot
<1>2. QED
  BY <1>1 DEF TypeOK, Charged, LogStates

\* Faults and crashes are counted, or not.
LEMMA FaultType ==
  ASSUME TypeOK, Fault \/ Dies \/ NoFault
  PROVE  faults' \in Nat /\ crashes' \in Nat
BY DEF TypeOK, Fault, Dies, NoFault

\* The variables keep their types: every value written by generate_tts, by
\* the handler or by the worker is one its column or process can have.
THEOREM TypeCorrect == Spec => []TypeOK
<1>1. Init => TypeOK
  BY GenerationAssumption
  DEF Init, TypeOK, Snapshot, Unread, WebStates, RunStates, JobStates, LogStates
<1>2. TypeOK /\ [Next]_vars => TypeOK'
  <2> SUFFICES ASSUME TypeOK, [Next]_vars PROVE TypeOK'
    OBVIOUS
  <2> USE DEF TypeOK, orgRow, ledger, Moves, Answers, WebStates, RunStates, JobStates, LogStates
  <2>1. ASSUME NEW c \in Calls, Receive(c) PROVE TypeOK'
    BY <2>1, FaultType DEF Receive, TakesSnapshot, Snapshot
  <2>2. ASSUME NEW c \in Calls, TurnAway(c) PROVE TypeOK'
    BY <2>2, FaultType DEF TurnAway
  <2>3. ASSUME NEW c \in Calls, Submit(c) PROVE TypeOK'
    BY <2>3, FaultType DEF Submit
  <2>4. ASSUME NEW c \in Calls, CommitJob(c) PROVE TypeOK'
    BY <2>4, FaultType DEF CommitJob
  <2>5. ASSUME NEW c \in Calls, MissJob(c) PROVE TypeOK'
    BY <2>5, FaultType DEF MissJob
  <2>6. ASSUME NEW c \in Calls, LoadJob(c) PROVE TypeOK'
    BY <2>6, FaultType DEF LoadJob, TakesSnapshot, Snapshot
  <2>7. ASSUME NEW c \in Calls, BeginJob(c) PROVE TypeOK'
    BY <2>7, FaultType DEF BeginJob
  <2>8. ASSUME NEW c \in Calls, Notify(c) PROVE TypeOK'
    BY <2>8, FaultType DEF Notify
  <2>9. ASSUME NEW c \in Calls, Admit(c) PROVE TypeOK'
    BY <2>9, FaultType DEF Admit
  <2>10. ASSUME NEW c \in Calls, Refuse(c) PROVE TypeOK'
    BY <2>10, RaisesType, FaultType DEF Refuse
  <2>11. ASSUME NEW c \in Calls, Synthesise(c) PROVE TypeOK'
    BY <2>11, FaultType DEF Synthesise
  <2>12. ASSUME NEW c \in Calls, Overflow(c) PROVE TypeOK'
    BY <2>12, FaultType DEF Overflow
  <2>13. ASSUME NEW c \in Calls, SaveSync(c) PROVE TypeOK'
    BY <2>13, ChargedType, FaultType DEF SaveSync
  <2>14. ASSUME NEW c \in Calls, SaveJob(c) PROVE TypeOK'
    BY <2>14, ChargedType, FaultType DEF SaveJob
  <2>15. ASSUME NEW c \in Calls, LoseJob(c) PROVE TypeOK'
    BY <2>15, FaultType DEF LoseJob
  <2>16. ASSUME NEW c \in Calls, SynthesisFails(c) PROVE TypeOK'
    <3>1. /\ web' \in [Calls -> WebStates]
          /\ job' \in [Calls -> JobStates]
      BY <2>16, RaisesType DEF SynthesisFails
    <3>2. faults' \in Nat /\ crashes' \in Nat
      BY <2>16, FaultType DEF SynthesisFails
    <3>3. run' \in [Calls -> RunStates]
      BY <2>16 DEF SynthesisFails
    <3>4. QED
      BY <2>16, <3>1, <3>2, <3>3 DEF SynthesisFails
  <2>17. ASSUME NEW c \in Calls, MessageTooLong(c) PROVE TypeOK'
    <3>1. faults' \in Nat /\ crashes' \in Nat
      BY <2>17, FaultType DEF MessageTooLong
    <3>2. run' \in [Calls -> RunStates] /\ web' \in [Calls -> WebStates]
      BY <2>17 DEF MessageTooLong
    <3>3. QED
      BY <2>17, <3>1, <3>2 DEF MessageTooLong
  <2>18. ASSUME NEW c \in Calls, UploadFails(c) PROVE TypeOK'
    <3>1. /\ web' \in [Calls -> WebStates]
          /\ job' \in [Calls -> JobStates]
      BY <2>18, RaisesType DEF UploadFails
    <3>2. faults' \in Nat /\ crashes' \in Nat
      BY <2>18, FaultType DEF UploadFails
    <3>3. run' \in [Calls -> RunStates]
      BY <2>18 DEF UploadFails
    <3>4. QED
      BY <2>18, <3>1, <3>2, <3>3 DEF UploadFails
  <2>19. ASSUME NEW c \in Calls, PresignFails(c) PROVE TypeOK'
    BY <2>19, RaisesType, ChargedType, FaultType DEF PresignFails
  <2>20. ASSUME NEW c \in Calls, NotifyFails(c) PROVE TypeOK'
    BY <2>20, FaultType DEF NotifyFails
  <2>21. ASSUME NEW c \in Calls, Crash(c) PROVE TypeOK'
    <3>1. faults' \in Nat /\ crashes' \in Nat
      BY <2>21, FaultType DEF Crash
    <3>2. run' \in [Calls -> RunStates] /\ web' \in [Calls -> WebStates]
      BY <2>21 DEF Crash
    <3>3. QED
      BY <2>21, <3>1, <3>2 DEF Crash
  <2>22. ASSUME NEW p \in PlanNames, NEW active \in BOOLEAN, UpdateOrg(p, active)
         PROVE  TypeOK'
    BY <2>22, FaultType DEF UpdateOrg
  <2>23. CASE UNCHANGED vars
    BY <2>23 DEF vars
  <2>24. QED
    BY <2>1, <2>2, <2>3, <2>4, <2>5, <2>6, <2>7, <2>8, <2>9, <2>10, <2>11, <2>12,
       <2>13, <2>14, <2>15, <2>16, <2>17, <2>18, <2>19, <2>20, <2>21, <2>22, <2>23
    DEF Next, Handler, Task, Generate, Failure
<1>3. QED
  BY <1>1, <1>2, PTL DEF Spec

----------------------------------------------------------------------------
(* What the steps do to the ledger, whichever process takes them.          *)

MovesOn(c, from, to) ==
  \E r \in to : run[c] \in from /\ run' = [run EXCEPT ![c] = r]

Reads(c) ==
  /\ MovesOn(c, {"idle", "queued"}, {"loaded", "started"})
  /\ TakesSnapshot(c)
  /\ UNCHANGED <<orgChars, served>>

Waits(c) ==
  /\ MovesOn(c, {"idle"}, {"queued"})
  /\ UNCHANGED <<snap, orgChars, served>>

Advances(c) ==
  /\ \/ MovesOn(c, {"loaded"}, {"started"})
     \/ MovesOn(c, {"started"}, {"generating"}) /\ Admitted(c)
     \/ MovesOn(c, {"generating"}, {"voiced"})
  /\ UNCHANGED <<snap, orgChars, served>>

Pays(c) ==
  /\ MovesOn(c, {"voiced"}, {"notifying", "over"})
  /\ Fits(c)
  /\ Charged(c)
  /\ UNCHANGED snap

Leaves(c) ==
  /\ MovesOn(c, RunStates \ {"idle"}, {"over"})
  /\ UNCHANGED <<snap, orgChars, served>>

Elsewhere == UNCHANGED <<run, snap, orgChars, served>>

\* Every step of Generation is one of these.
LEMMA StepKinds ==
  ASSUME TypeOK, [Next]_vars
  PROVE  \/ Elsewhere
         \/ \E c \in Calls : Reads(c) \/ Waits(c) \/ Advances(c) \/ Pays(c) \/ Leaves(c)
<1> USE DEF Moves, MovesOn, ledger
<1>1. ASSUME NEW c \in Calls, Receive(c) \/ LoadJob(c) PROVE Reads(c)
  BY <1>1 DEF Receive, LoadJob, Reads
<1>2. ASSUME NEW c \in Calls, Submit(c) PROVE Waits(c)
  BY <1>2 DEF Submit, Waits
<1>3. ASSUME NEW c \in Calls, BeginJob(c) \/ Admit(c) \/ Synthesise(c) PROVE Advances(c)
  BY <1>3 DEF BeginJob, Admit, Synthesise, Advances
<1>4. ASSUME NEW c \in Calls, SaveSync(c) \/ SaveJob(c) PROVE Pays(c)
  BY <1>4 DEF SaveSync, SaveJob, Pays
<1>5. ASSUME NEW c \in Calls, PresignFails(c) PROVE Pays(c) \/ Leaves(c)
  BY <1>5 DEF PresignFails, Pays, Leaves, RunStates
<1>6. ASSUME NEW c \in Calls,
             MissJob(c) \/ Refuse(c) \/ Overflow(c) \/ Notify(c) \/ NotifyFails(c)
      PROVE  Leaves(c)
  BY <1>6 DEF MissJob, Refuse, Overflow, Notify, NotifyFails, Leaves, RunStates
<1>7. ASSUME NEW c \in Calls, SynthesisFails(c) \/ MessageTooLong(c) \/ UploadFails(c) \/ Crash(c)
      PROVE  Leaves(c)
  BY <1>7 DEF SynthesisFails, MessageTooLong, UploadFails, Crash, Holding, Leaves, RunStates
<1>8. ASSUME NEW c \in Calls, TurnAway(c) \/ CommitJob(c) \/ LoseJob(c) PROVE Elsewhere
  BY <1>8 DEF TurnAway, CommitJob, LoseJob, Elsewhere
<1>9. ASSUME NEW p \in PlanNames, NEW active \in BOOLEAN, UpdateOrg(p, active) PROVE Elsewhere
  BY <1>9 DEF UpdateOrg, Elsewhere
<1>10. CASE UNCHANGED vars
  BY <1>10 DEF vars, Elsewhere
<1>11. QED
  BY <1>1, <1>2, <1>3, <1>4, <1>5, <1>6, <1>7, <1>8, <1>9, <1>10
  DEF Next, Handler, Task, Generate, Failure

\* Whoever is past the gates was within the limit of the plan it has read.
LEMMA AdmittedInductive ==
  ASSUME TypeOK, AdmittedWithinQuota, [Next]_vars
  PROVE  AdmittedWithinQuota'
<1> SUFFICES ASSUME NEW d \in Calls, run'[d] \in {"generating", "voiced"}
             PROVE  enforce_quota(Plan[snap[d].plan], snap[d].chars, Request[d].chars)'
  BY DEF AdmittedWithinQuota
<1> USE DEF TypeOK, MovesOn, AdmittedWithinQuota, enforce_quota
<1>1. CASE Elsewhere
  BY <1>1 DEF Elsewhere
<1>2. ASSUME NEW c \in Calls, Reads(c) PROVE run'[d] = run[d] /\ snap'[d] = snap[d]
  BY <1>2 DEF Reads, TakesSnapshot
<1>3. ASSUME NEW c \in Calls, Waits(c) \/ Pays(c) \/ Leaves(c)
      PROVE  run'[d] = run[d] /\ snap' = snap
  BY <1>3 DEF Waits, Pays, Leaves
<1>4. ASSUME NEW c \in Calls, Advances(c)
      PROVE  enforce_quota(Plan[snap[d].plan], snap[d].chars, Request[d].chars) /\ snap' = snap
  BY <1>4 DEF Advances, Admitted, Gates
<1>5. QED
  BY StepKinds, <1>1, <1>2, <1>3, <1>4

\* So every call being generated passed the quota on the reading it will pay
\* from, whatever happened to the plan and the counter since it was read.
THEOREM AdmittedCorrect == Spec => []AdmittedWithinQuota
<1>1. Init => AdmittedWithinQuota
  BY DEF Init, AdmittedWithinQuota
<1>2. TypeOK /\ AdmittedWithinQuota /\ [Next]_vars => AdmittedWithinQuota'
  BY AdmittedInductive
<1>3. QED
  BY TypeCorrect, <1>1, <1>2, PTL DEF Spec

----------------------------------------------------------------------------
(* Generation implements UsageLedger.                                      *)

\* The plans' ceilings are natural numbers, and there is one.
LEMMA CeilingType ==
  /\ {Ceiling(p) : p \in PlanNames} \subseteq Nat
  /\ {Ceiling(p) : p \in PlanNames} # {}
BY GenerationAssumption DEF Ceiling

\* A call that pays was admitted on its reading, and its column holds the
\* sum: that is the ceiling of the plan it has read.
LEMMA PaysWithinCeiling ==
  ASSUME TypeOK, AdmittedWithinQuota, NEW c \in Calls, run[c] = "voiced", Fits(c)
  PROVE  \E ceiling \in {Ceiling(p) : p \in PlanNames} : snap[c].chars + Size[c] <= ceiling
<1>1. snap[c].plan \in PlanNames /\ snap[c].chars \in Nat /\ Size[c] \in Nat
  BY SizeType DEF TypeOK, Snapshot
<1>2. snap[c].chars + Size[c] <= Ceiling(snap[c].plan)
  BY <1>1, SizeType DEF AdmittedWithinQuota, enforce_quota, Fits, Ceiling
<1>3. QED
  BY <1>1, <1>2

\* Nobody has read, nothing is charged.
LEMMA LedgerInit == Init => Ledger!Init
<1> SUFFICES ASSUME Init PROVE Ledger!Init
  OBVIOUS
<1>1. \A c \in Calls : run[c] = "idle"
  BY DEF Init
<1>2. [c \in Calls |->
         CASE run[c] \in {"idle", "queued"} -> -1
           [] run[c] \in Holding -> snap[c].chars
           [] OTHER -> -2] = [c \in Calls |-> -1]
  BY <1>1 DEF Holding
<1>3. QED
  BY <1>2 DEF Init, Ledger!Init, Ledger!NotRead

\* A step reads the counter, charges it once within a ceiling, leaves, or does
\* not concern the ledger.
LEMMA LedgerStep ==
  ASSUME TypeOK, AdmittedWithinQuota, [Next]_vars
  PROVE  [Ledger!Next]_Ledger!ledgerVars
<1> DEFINE base == [c \in Calls |->
                     CASE run[c] \in {"idle", "queued"} -> -1
                       [] run[c] \in Holding -> snap[c].chars
                       [] OTHER -> -2]
<1> USE DEF TypeOK, MovesOn, Holding, Snapshot
<1>1. CASE Elsewhere
  BY <1>1 DEF Elsewhere, Ledger!ledgerVars
<1>2. ASSUME NEW c \in Calls, Reads(c) PROVE Ledger!Read(c)
  <2>1. base' = [base EXCEPT ![c] = orgChars]
    BY <1>2 DEF Reads, TakesSnapshot
  <2>2. QED
    BY <1>2, <2>1 DEF Reads, Ledger!Read, Ledger!NotRead
<1>3. ASSUME NEW c \in Calls, Waits(c) \/ Advances(c) PROVE UNCHANGED Ledger!ledgerVars
  <2>1. base' = base
    BY <1>3 DEF Waits, Advances
  <2>2. QED
    BY <1>3, <2>1 DEF Waits, Advances, Ledger!ledgerVars
<1>4. ASSUME NEW c \in Calls, Pays(c) PROVE Ledger!Charge(c)
  <2>1. base[c] = snap[c].chars /\ snap[c].chars \in Nat
    BY <1>4 DEF Pays
  <2>2. base' = [base EXCEPT ![c] = -2]
    BY <1>4 DEF Pays
  <2>3. \E ceiling \in {Ceiling(p) : p \in PlanNames} : base[c] + Size[c] <= ceiling
    BY <1>4, <2>1, PaysWithinCeiling DEF Pays
  <2>4. orgChars' = base[c] + Size[c] /\ served' = served + Size[c]
    BY <1>4, <2>1 DEF Pays, Charged
  <2>5. QED
    BY <2>1, <2>2, <2>3, <2>4 DEF Ledger!Charge, Ledger!NotRead, Ledger!Finished
<1>5. ASSUME NEW c \in Calls, Leaves(c)
      PROVE  Ledger!Leave(c) \/ UNCHANGED Ledger!ledgerVars
  <2>1. base' = [base EXCEPT ![c] = -2]
    BY <1>5 DEF Leaves
  <2>2. CASE base[c] = -2
    <3>1. base' = base
      BY <2>1, <2>2
    <3>2. QED
      BY <1>5, <3>1 DEF Leaves, Ledger!ledgerVars
  <2>3. CASE base[c] # -2
    BY <1>5, <2>1, <2>3 DEF Leaves, Ledger!Leave, Ledger!Finished
  <2>4. QED
    BY <2>2, <2>3
<1>6. QED
  BY StepKinds, <1>1, <1>2, <1>3, <1>4, <1>5 DEF Ledger!Next

\* The counter of the whole system, handlers, workers, failures and crashes
\* included, is a ledger of stale readings.
THEOREM GenerationImplementsLedger == Spec => ImplementsLedger
<1>1. TypeOK /\ AdmittedWithinQuota /\ [Next]_vars => [Ledger!Next]_Ledger!ledgerVars
  BY LedgerStep
<1>2. QED
  BY LedgerInit, TypeCorrect, AdmittedCorrect, <1>1, PTL
  DEF Spec, ImplementsLedger, Ledger!LedgerSpec

\* Hence no organisation is ever charged for more than it was served.
THEOREM NeverOverchargedCorrect == Spec => []NeverOvercharged
<1>1. Ledger!LedgerSpec => []Ledger!CounterWithinTotal
  BY GenerationAssumption, SizeType, CeilingType, Ledger!LedgerNeverOvercharges
<1>2. Ledger!CounterWithinTotal => NeverOvercharged
  BY DEF NeverOvercharged, Ledger!CounterWithinTotal
<1>3. QED
  BY GenerationImplementsLedger, <1>1, <1>2, PTL DEF ImplementsLedger

\* And the counter never passes the ceiling of every plan.
THEOREM WithinCeilingCorrect == Spec => []WithinCeiling
<1>1. Ledger!LedgerSpec => []Ledger!CounterWithinCeiling
  BY GenerationAssumption, SizeType, CeilingType, Ledger!LedgerWithinCeiling
<1>2. Ledger!CounterWithinCeiling => WithinCeiling
  BY DEF WithinCeiling, Ledger!CounterWithinCeiling
<1>3. QED
  BY GenerationImplementsLedger, <1>1, <1>2, PTL DEF ImplementsLedger

----------------------------------------------------------------------------
(* The rows, the audio and the job of one call                             *)

Before == {"idle", "queued", "loaded", "started", "generating", "voiced"}
Working == {"started", "generating", "voiced"}

\* Until generate_tts has charged it a call has no rows; from the upload on it
\* has its audio, and a file row without it is that of a job that failed.
RowsInOrder(c) ==
  /\ run[c] \in Before => logs[c] = "none" /\ c \notin files
  /\ run[c] \in {"voiced", "notifying"} => c \in objects
  /\ c \in files \ objects => job[c] = "failed" /\ logs[c] = "error"

\* A handler works on its own call, has no job, and answers when it has saved.
HandlerInOrder(c) ==
  /\ job[c] = "absent" /\ run[c] \notin {"queued", "loaded", "notifying"}
  /\ web[c] # "enqueued" /\ (web[c] = "new" => run[c] = "idle")
  /\ web[c] = "handling" <=> run[c] \in Working
  /\ web[c] = "answered" <=> logs[c] = "success"
  /\ logs[c] # "none" <=> c \in files
  /\ logs[c] # "error"

\* A job is committed once, before its worker has loaded it, and its status
\* follows the worker.
JobInOrder(c) ==
  /\ web[c] \in {"new", "enqueued"} => job[c] = "absent"
  /\ web[c] = "new" => run[c] = "idle"
  /\ run[c] \in {"idle", "queued"} => job[c] \in {"absent", "pending"}
  /\ run[c] = "loaded" => job[c] = "pending"
  /\ run[c] \in Working => job[c] = "processing"
  /\ run[c] = "notifying" => job[c] = "completed"
  /\ job[c] = "completed" =>
       c \in resultKey /\ c \in files /\ c \in objects /\ logs[c] = "success"

InOrder(c) ==
  /\ RowsInOrder(c)
  /\ c \in Sync => HandlerInOrder(c)
  /\ c \in Async => JobInOrder(c)
CallsInOrder == \A c \in Calls : InOrder(c)

\* What a step does to the job of a call.
JobMoved(c) == job'[c] # job[c] => <<job[c], job'[c]>> \in JobMoves

\* A step of a call concerns no other call.
LEMMA OtherCalls ==
  ASSUME TypeOK, NEW c \in Calls, Handler(c) \/ Task(c) \/ Generate(c) \/ Failure(c),
         NEW d \in Calls, d # c
  PROVE  /\ run'[d] = run[d] /\ web'[d] = web[d] /\ job'[d] = job[d] /\ logs'[d] = logs[d]
         /\ d \in files' <=> d \in files
         /\ d \in objects' <=> d \in objects
         /\ d \in resultKey' <=> d \in resultKey
<1> USE DEF TypeOK, ledger, orgRow, Moves, Answers
<1>1. CASE Handler(c)
  BY <1>1 DEF Handler, Receive, TurnAway, Submit, CommitJob
<1>2. CASE Task(c)
  BY <1>2 DEF Task, MissJob, LoadJob, BeginJob, Notify
<1>3. CASE Generate(c)
  BY <1>3 DEF Generate, Admit, Refuse, Synthesise, Overflow, SaveSync, SaveJob, Raises, Charged
<1>4. CASE Failure(c)
  BY <1>4 DEF Failure, LoseJob, SynthesisFails, MessageTooLong, UploadFails, PresignFails,
              NotifyFails, Crash, Raises, Charged
<1>5. QED
  BY <1>1, <1>2, <1>3, <1>4

\* A step of a call keeps it in order, and moves its job on.
LEMMA OwnCall ==
  ASSUME TypeOK, NEW c \in Calls, InOrder(c),
         Handler(c) \/ Task(c) \/ Generate(c) \/ Failure(c)
  PROVE  InOrder(c)' /\ JobMoved(c)
<1> USE DEF TypeOK, ledger, orgRow, Moves, Answers, InOrder, RowsInOrder, HandlerInOrder,
            JobInOrder, Before, Working, JobMoved, JobMoves
<1>1. /\ c \in Sync <=> c \notin Async
      /\ (c \in Sync)' <=> c \in Sync
      /\ (c \in Async)' <=> c \in Async
  BY DEF Sync, Async
<1>2. CASE Receive(c)
  BY <1>1, <1>2 DEF Receive
<1>3. CASE TurnAway(c)
  BY <1>1, <1>3 DEF TurnAway
<1>4. CASE Submit(c)
  BY <1>1, <1>4 DEF Submit
<1>5. CASE CommitJob(c)
  BY <1>1, <1>5 DEF CommitJob
<1>6. CASE MissJob(c)
  BY <1>1, <1>6 DEF MissJob
<1>7. CASE LoadJob(c)
  BY <1>1, <1>7 DEF LoadJob
<1>8. CASE BeginJob(c)
  BY <1>1, <1>8 DEF BeginJob
<1>9. CASE Notify(c)
  BY <1>1, <1>9 DEF Notify
<1>10. CASE Admit(c)
  BY <1>1, <1>10 DEF Admit
<1>11. CASE Refuse(c)
  BY <1>1, <1>11 DEF Refuse, Raises
<1>12. CASE Synthesise(c)
  BY <1>1, <1>12 DEF Synthesise
<1>13. CASE Overflow(c)
  BY <1>1, <1>13 DEF Overflow
<1>14. CASE SaveSync(c)
  BY <1>1, <1>14 DEF SaveSync, Charged
<1>15. CASE SaveJob(c)
  BY <1>1, <1>15 DEF SaveJob, Charged
<1>16. CASE LoseJob(c)
  BY <1>1, <1>16 DEF LoseJob
<1>17. CASE SynthesisFails(c)
  BY <1>1, <1>17 DEF SynthesisFails, Raises
<1>18. CASE MessageTooLong(c)
  BY <1>1, <1>18 DEF MessageTooLong
<1>19. CASE UploadFails(c)
  BY <1>1, <1>19 DEF UploadFails, Raises
<1>20. CASE PresignFails(c)
  BY <1>1, <1>20 DEF PresignFails, Raises, Charged
<1>21. CASE NotifyFails(c)
  BY <1>1, <1>21 DEF NotifyFails
<1>22. CASE Crash(c)
  BY <1>1, <1>22 DEF Crash, Holding
<1>23. QED
  BY <1>2, <1>3, <1>4, <1>5, <1>6, <1>7, <1>8, <1>9, <1>10, <1>11, <1>12, <1>13, <1>14,
     <1>15, <1>16, <1>17, <1>18, <1>19, <1>20, <1>21, <1>22
  DEF Handler, Task, Generate, Failure

\* Every step keeps the rows, the handlers and the jobs of all calls in order.
LEMMA CallsStep ==
  ASSUME TypeOK, CallsInOrder, [Next]_vars
  PROVE  CallsInOrder' /\ \A c \in Calls : JobMoved(c)
<1>1. ASSUME NEW d \in Calls, run'[d] = run[d], web'[d] = web[d], job'[d] = job[d],
             logs'[d] = logs[d], d \in files' <=> d \in files,
             d \in objects' <=> d \in objects, d \in resultKey' <=> d \in resultKey
      PROVE  InOrder(d)' /\ JobMoved(d)
  BY <1>1 DEF CallsInOrder, InOrder, RowsInOrder, HandlerInOrder, JobInOrder, JobMoved, Sync, Async
<1>2. ASSUME NEW c \in Calls, Handler(c) \/ Task(c) \/ Generate(c) \/ Failure(c),
             NEW d \in Calls
      PROVE  InOrder(d)' /\ JobMoved(d)
  BY <1>1, <1>2, OtherCalls, OwnCall DEF CallsInOrder
<1>3. ASSUME NEW p \in PlanNames, NEW active \in BOOLEAN, UpdateOrg(p, active), NEW d \in Calls
      PROVE  InOrder(d)' /\ JobMoved(d)
  BY <1>1, <1>3 DEF UpdateOrg, ledger
<1>4. ASSUME UNCHANGED vars, NEW d \in Calls PROVE InOrder(d)' /\ JobMoved(d)
  BY <1>1, <1>4 DEF vars, ledger
<1>5. QED
  BY <1>2, <1>3, <1>4 DEF Next, CallsInOrder

\* So they are in order in every reachable state.
LEMMA CallsInvariant == Spec => []CallsInOrder
<1>1. Init => CallsInOrder
  BY DEF Init, CallsInOrder, InOrder, RowsInOrder, HandlerInOrder, JobInOrder, Working
<1>2. TypeOK /\ CallsInOrder /\ [Next]_vars => CallsInOrder'
  BY CallsStep
<1>3. QED
  BY <1>1, <1>2, TypeCorrect, PTL DEF Spec

\* Wherever generate_tts fails, a synchronous call has audio, charge, log and
\* file row, or none of them.
THEOREM SyncAllOrNothingCorrect == Spec => []SyncAllOrNothing
<1>1. CallsInOrder => SyncAllOrNothing
  BY DEF CallsInOrder, InOrder, HandlerInOrder, SyncAllOrNothing, Sync
<1>2. QED
  BY <1>1, CallsInvariant, PTL

\* GET /jobs/{id} shows no completed job whose link does not work.
THEOREM CompletedHasAudioCorrect == Spec => []CompletedHasAudio
<1>1. CallsInOrder => CompletedHasAudio
  BY DEF CallsInOrder, InOrder, HandlerInOrder, JobInOrder, CompletedHasAudio, Sync
<1>2. QED
  BY <1>1, CallsInvariant, PTL

\* A download link without audio is that of a failed job that was not charged.
THEOREM DeadLinksAreFailedJobsCorrect == Spec => []DeadLinksAreFailedJobs
<1>1. TypeOK /\ CallsInOrder => DeadLinksAreFailedJobs
  BY DEF TypeOK, CallsInOrder, InOrder, RowsInOrder, DeadLinksAreFailedJobs
<1>2. QED
  BY <1>1, TypeCorrect, CallsInvariant, PTL

\* No job goes back, whoever writes its row and in whatever order.
THEOREM JobNeverReopensCorrect == Spec => JobNeverReopens
<1> DEFINE Onward == \A c \in Calls : job'[c] # job[c] => <<job[c], job'[c]>> \in JobMoves
<1>1. TypeOK /\ CallsInOrder /\ [Next]_vars => [Onward]_vars
  BY CallsStep DEF JobMoved
<1>2. QED
  BY <1>1, TypeCorrect, CallsInvariant, PTL DEF Spec, JobNeverReopens

----------------------------------------------------------------------------
(* What served stands for: the successful logs                             *)

Successful == {c \in Calls : logs[c] = "success"}

\* What UsageLedger proves of sums holds of the sums of Generation.
LEMMA SameSums ==
  ASSUME NEW S
  PROVE  /\ MapThenSumSet(LAMBDA c : Size[c], S) = Ledger!SumOf(Size, S)
         /\ Ledger!IsFiniteSet(S) <=> IsFiniteSet(S)
<1>1. MapThenSumSet(LAMBDA c : Size[c], S) = Ledger!SumOf(Size, S)
  BY DEF Ledger!SumOf, Ledger!MapThenSumSet, Ledger!MapThenFoldSet, MapThenSumSet, MapThenFoldSet
<1>2. Ledger!IsFiniteSet(S) <=> IsFiniteSet(S)
  BY DEF Ledger!IsFiniteSet, IsFiniteSet
<1>3. QED
  BY <1>1, <1>2

\* One element more adds its value here too.
LEMMA SumGrows ==
  ASSUME NEW S, IsFiniteSet(S), NEW w, NEW x, x \notin S, \A y \in S \cup {x} : w[y] \in Nat
  PROVE  Ledger!SumOf(w, S \cup {x}) = Ledger!SumOf(w, S) + w[x]
<1>1. Ledger!IsFiniteSet(S)
  BY SameSums
<1>2. /\ Size \in [Calls -> Nat]
      /\ {Ceiling(p) : p \in PlanNames} \subseteq Nat
      /\ {Ceiling(p) : p \in PlanNames} # {}
  BY SizeType, CeilingType
<1>3. QED
  BY Zenon, <1>1, <1>2, Ledger!SumAdds

\* As many calls may come as there are, but only finitely many have been served.
LoggedOnce == IsFiniteSet(Successful) /\ served = Ledger!SumOf(Size, Successful)

\* A call is served by the one commit that gives it a successful log, which it
\* had not; every other step leaves the logs that count as they are.
LEMMA SuccessStep ==
  ASSUME TypeOK, CallsInOrder, [Next]_vars
  PROVE  \/ served' = served /\ Successful' = Successful
         \/ \E c \in Calls : /\ c \notin Successful /\ Successful' = Successful \cup {c}
                             /\ served' = served + Size[c]
<1> DEFINE Joins(c) == /\ c \notin Successful /\ Successful' = Successful \cup {c}
                       /\ served' = served + Size[c]
           Apart == served' = served /\ Successful' = Successful
<1> USE DEF TypeOK
<1>1. ASSUME NEW c \in Calls, run[c] = "voiced", Charged(c) PROVE Joins(c)
  BY <1>1 DEF Charged, Successful, CallsInOrder, InOrder, RowsInOrder, Before
<1>2. ASSUME UNCHANGED <<served, logs>> PROVE Apart
  BY <1>2 DEF Successful
<1>3. ASSUME NEW c \in Calls, SynthesisFails(c) PROVE Apart
  BY <1>3 DEF SynthesisFails, Moves, Successful, CallsInOrder, InOrder, RowsInOrder, Before
<1>4. ASSUME NEW c \in Calls, SaveSync(c) \/ SaveJob(c) PROVE Joins(c)
  BY <1>1, <1>4 DEF SaveSync, SaveJob, Moves
<1>5. ASSUME NEW c \in Calls, PresignFails(c) PROVE Joins(c) \/ Apart
  BY <1>1, <1>2, <1>5 DEF PresignFails, Moves, ledger
<1> USE <1>2 DEF ledger
<1> HIDE DEF Apart
<1>6. ASSUME NEW c \in Calls, Handler(c) PROVE Apart
  BY <1>6 DEF Handler, Receive, TurnAway, Submit, CommitJob
<1>7. ASSUME NEW c \in Calls, Task(c) PROVE Apart
  BY <1>7 DEF Task, MissJob, LoadJob, BeginJob, Notify
<1>8. ASSUME NEW c \in Calls, Admit(c) \/ Refuse(c) \/ Synthesise(c) \/ Overflow(c) PROVE Apart
  BY <1>8 DEF Admit, Refuse, Synthesise, Overflow
<1>9. ASSUME NEW c \in Calls,
             LoseJob(c) \/ MessageTooLong(c) \/ UploadFails(c) \/ NotifyFails(c) \/ Crash(c)
      PROVE  Apart
  BY <1>9 DEF LoseJob, MessageTooLong, UploadFails, NotifyFails, Crash
<1>10. ASSUME NEW p \in PlanNames, NEW active \in BOOLEAN, UpdateOrg(p, active) PROVE Apart
  BY <1>10 DEF UpdateOrg
<1>11. ASSUME UNCHANGED vars PROVE Apart
  BY <1>11 DEF vars
<1> USE DEF Apart
<1>12. QED
  BY <1>3, <1>4, <1>5, <1>6, <1>7, <1>8, <1>9, <1>10, <1>11 DEF Next, Generate, Failure

\* The sum over the successful logs grows by the size of the call that joins.
LEMMA LoggedStep ==
  ASSUME TypeOK, CallsInOrder, LoggedOnce, [Next]_vars
  PROVE  LoggedOnce'
<1>1. served = Ledger!SumOf(Size, Successful) /\ IsFiniteSet(Successful)
  BY DEF LoggedOnce
<1>2. SUFFICES served' = Ledger!SumOf(Size, Successful') /\ IsFiniteSet(Successful')
  BY DEF LoggedOnce, Size
<1>3. ASSUME NEW c \in Calls, c \notin Successful, Successful' = Successful \cup {c},
             served' = served + Size[c]
      PROVE  served' = Ledger!SumOf(Size, Successful') /\ IsFiniteSet(Successful')
  <2>1. \A d \in Successful \cup {c} : Size[d] \in Nat
    BY SizeType DEF Successful
  <2>2. Ledger!SumOf(Size, Successful \cup {c}) = Ledger!SumOf(Size, Successful) + Size[c]
    BY <1>1, <1>3, <2>1, SumGrows
  <2>3. IsFiniteSet(Successful \cup {c})
    BY <1>1, FS_AddElement
  <2>4. QED
    BY <1>1, <1>3, <2>2, <2>3
<1>4. QED
  BY <1>1, <1>3, SuccessStep

\* The total that the counter is measured by is the sum of the successful logs
\* in every state: no failure, crash or repeated step logs a call twice, or
\* serves one that is not logged.
THEOREM ServedIsLoggedCorrect == Spec => []ServedIsLogged
<1>1. Init => LoggedOnce
  <2> SUFFICES ASSUME Init PROVE LoggedOnce
    OBVIOUS
  <2>1. Successful = {}
    BY DEF Init, Successful
  <2>2. Ledger!SumOf(Size, {}) = 0
    BY Ledger!SumEmpty, GenerationAssumption, SizeType, CeilingType
  <2>3. QED
    BY <2>1, <2>2, FS_EmptySet DEF Init, LoggedOnce
<1>2. TypeOK /\ CallsInOrder /\ LoggedOnce /\ [Next]_vars => LoggedOnce'
  BY LoggedStep
<1>3. LoggedOnce => ServedIsLogged
  BY SameSums DEF LoggedOnce, ServedIsLogged, Successful
<1>4. QED
  BY <1>1, <1>2, <1>3, TypeCorrect, CallsInvariant, PTL DEF Spec
=============================================================================
