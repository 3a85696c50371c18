----------------------------- MODULE Retention -----------------------------
(***************************************************************************)
(* How generated audio goes away: the nightly task expire_old_files of     *)
(* app/tasks/maintenance_tasks.py over the rows of generated_files and the *)
(* objects of the bucket, while files are still generated and downloaded.  *)
(*                                                                         *)
(* A sweep selects the expired rows, deletes their objects one by one,     *)
(* without a lock, and removes all the rows in one commit at the end.  The *)
(* task is scheduled by time alone, so that sweeps may overlap.            *)
(***************************************************************************)
EXTENDS Naturals, FiniteSets

CONSTANTS
  Files,      \* the generated files
  Sweeps,     \* runs of the task at the same time
  MaxFaults,  \* bound: how many deletions S3 refuses
  MaxCrashes  \* bound: how many sweeps die

ASSUME RetentionAssumption == MaxFaults \in Nat /\ MaxCrashes \in Nat

VARIABLES
  row,      \* generated_files: none yet, not expired, expired, deleted
  filled,   \* the rows with audio: file_size_bytes > 0
  objects,  \* the bucket
  sweep,    \* each sweep: idle, or the rows it selected and those still to do
  link,     \* the last redirect of GET /tts/download for each file
  faults, crashes

vars == <<row, filled, objects, sweep, link, faults, crashes>>

Idle == [selected |-> {}, todo |-> {}, busy |-> FALSE]

TypeOK ==
  /\ row \in [Files -> {"none", "kept", "expired", "deleted"}]
  /\ filled \subseteq Files /\ objects \subseteq Files
  /\ sweep \in [Sweeps -> [selected : SUBSET Files, todo : SUBSET Files, busy : BOOLEAN]]
  /\ link \in [Files -> {"none", "works", "dead"}]
  /\ faults \in 0 .. MaxFaults
  /\ crashes \in 0 .. MaxCrashes

Init ==
  /\ row = [f \in Files |-> "none"]
  /\ filled = {} /\ objects = {}
  /\ sweep = [s \in Sweeps |-> Idle]
  /\ link = [f \in Files |-> "none"]
  /\ faults = 0 /\ crashes = 0

----------------------------------------------------------------------------
\* A row appears, which expires after the retention of the plan that was read.
Insert(f) ==
  /\ row[f] = "none"
  /\ row' = [row EXCEPT ![f] = "kept"]
  /\ UNCHANGED <<sweep, link, faults, crashes>>

\* generate_tts has uploaded the audio, and its caller commits the row.  (A
\* caller that rolls back leaves an object without a row: see Generation.)
Keep(f) ==
  /\ Insert(f)
  /\ filled' = filled \cup {f}
  /\ objects' = objects \cup {f}

\* The synthesis of a job failed: generate_tts has flushed the row, with no byte
\* of audio and nothing uploaded, and the worker commits it with "failed".
KeepFailed(f) ==
  /\ Insert(f)
  /\ UNCHANGED <<filled, objects>>

\* expires_at passes.
Expire(f) ==
  /\ row[f] = "kept"
  /\ row' = [row EXCEPT ![f] = "expired"]
  /\ UNCHANGED <<filled, objects, sweep, link, faults, crashes>>

\* GET /tts/download, and GET /jobs of a completed job: a row is enough for a
\* link, expired or not, and without one there is none.  (First, with a
\* failure instead of the 404.)
DownloadUnchecked(f) ==
  /\ row[f] # "none"
  /\ link' = [link EXCEPT ![f] = CASE row[f] = "deleted" -> "error"
                                   [] f \in objects -> "works"
                                   [] OTHER -> "dead"]
  /\ UNCHANGED <<row, filled, objects, sweep, faults, crashes>>
Download(f) ==
  /\ row[f] \in {"kept", "expired"}
  /\ link' = [link EXCEPT ![f] = IF f \in objects THEN "works" ELSE "dead"]
  /\ UNCHANGED <<row, filled, objects, sweep, faults, crashes>>

Expired == {f \in Files : row[f] = "expired"}

\* (First, with every row, not those whose time has passed.)
SelectAll(s) ==
  /\ ~sweep[s].busy
  /\ LET rows == {f \in Files : row[f] \in {"kept", "expired"}} IN
       sweep' = [sweep EXCEPT ![s] = [selected |-> rows, todo |-> rows, busy |-> TRUE]]
  /\ UNCHANGED <<row, filled, objects, link, faults, crashes>>
Select(s) ==
  /\ ~sweep[s].busy
  /\ sweep' = [sweep EXCEPT ![s] = [selected |-> Expired, todo |-> Expired, busy |-> TRUE]]
  /\ UNCHANGED <<row, filled, objects, link, faults, crashes>>

Done(s, f) == sweep' = [sweep EXCEPT ![s].todo = @ \ {f}]

\* (First, with the deletion of the object left out.)
SkipObject(s, f) ==
  /\ f \in sweep[s].todo
  /\ Done(s, f)
  /\ UNCHANGED <<row, filled, objects, link, faults, crashes>>
DeleteObject(s, f) ==
  /\ f \in sweep[s].todo
  /\ objects' = objects \ {f}
  /\ Done(s, f)
  /\ UNCHANGED <<row, filled, link, faults, crashes>>

\* delete_object logs the error of S3 and returns; the row goes all the same.
DeleteObjectFails(s, f) ==
  /\ f \in sweep[s].todo
  /\ faults < MaxFaults /\ faults' = faults + 1
  /\ Done(s, f)
  /\ UNCHANGED <<row, filled, objects, link, crashes>>

\* Deleting a row another sweep has deleted matches nothing and is no error.
\* (First, without db.delete.)
CommitNothing(s) ==
  /\ sweep[s].busy /\ sweep[s].todo = {}
  /\ sweep' = [sweep EXCEPT ![s] = Idle]
  /\ UNCHANGED <<row, filled, objects, link, faults, crashes>>
Commit(s) ==
  /\ sweep[s].busy /\ sweep[s].todo = {}
  /\ row' = [f \in Files |-> IF f \in sweep[s].selected THEN "deleted" ELSE row[f]]
  /\ sweep' = [sweep EXCEPT ![s] = Idle]
  /\ UNCHANGED <<filled, objects, link, faults, crashes>>

\* The worker dies or the commit fails: the rows stay, the objects deleted so
\* far do not come back.
Crash(s) ==
  /\ sweep[s].busy
  /\ crashes < MaxCrashes /\ crashes' = crashes + 1
  /\ sweep' = [sweep EXCEPT ![s] = Idle]
  /\ UNCHANGED <<row, filled, objects, link, faults>>

Sweep(s) ==
  \/ Select(s) \/ Commit(s) \/ Crash(s)
  \/ \E f \in Files : DeleteObject(s, f) \/ DeleteObjectFails(s, f)

Next ==
  \/ \E f \in Files : Keep(f) \/ KeepFailed(f) \/ Expire(f) \/ Download(f)
  \/ \E s \in Sweeps : Sweep(s)

Spec == Init /\ [][Next]_vars

\* Beat starts the task every 24 hours, and a worker that takes it works on.
FairSpec ==
  Spec /\ \A s \in Sweeps :
            WF_vars(Select(s) \/ Commit(s) \/ \E f \in Files : DeleteObject(s, f))

----------------------------------------------------------------------------
(* Properties *)

\* Nothing goes before its time: until expires_at a row with audio has its
\* object, and no redirect to it leads nowhere, whatever the sweeps do to other
\* files and however they overlap and die.  (The row of a failed job has no
\* audio, and its link leads nowhere from the start.)
KeptUntilExpiry ==
  \A f \in filled : row[f] = "kept" => f \in objects /\ link[f] # "dead"

\* A sweep that died half way is made up for: every expired row is deleted by
\* a later one, whether its object was deleted before or S3 refuses again.
ExpiredRowsGo == \A f \in Files : row[f] = "expired" ~> row[f] = "deleted"

\* What S3 did not refuse to delete is gone with its row: each object that
\* outlives its row, and that nothing names any more, is a refusal, which
\* delete_object only logs.  "expire_old_files: delete S3 objects whose
\* expires_at has passed" is kept but for those.
OrphansAreRefusals ==
  Cardinality({f \in Files : row[f] = "deleted" /\ f \in objects}) <= faults
=============================================================================
