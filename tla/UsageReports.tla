---------------------------- MODULE UsageReports ----------------------------
(***************************************************************************)
(* What an organisation is told about its usage while it goes on: the      *)
(* summary, the history and the breakdown by voice of                      *)
(* app/services/usage_service.py, over the ledger of UsageLedger.          *)
(*                                                                         *)
(* The summary comes from Redis when it is there.  Otherwise the counter,  *)
(* read when the request began, and the number of successful logs, counted *)
(* later, are put together and kept for SUMMARY_TTL.  Nothing ever removes *)
(* it before (invalidate_summary_cache has no caller) and nothing keeps    *)
(* two requests from computing it at once.  The history is read page by    *)
(* page, by offset, while new logs arrive.                                 *)
(*                                                                         *)
(* Time is a tick; ages are kept instead of a clock, so that it is not     *)
(* bounded.                                                                *)
(***************************************************************************)
EXTENDS UsageLedger, Sequences, FiniteSetsExt

CONSTANTS
  Voice,        \* [Callers -> voices]: the voice of each call
  Readers,      \* GET /usage/summary requests served at the same time
  SUMMARY_TTL,  \* ticks a summary stays in Redis
  Span,         \* ticks a request may take from its reading to its answer
  PageSize      \* the limit parameter of GET /usage/history

ASSUME ReportsAssumption ==
  /\ DOMAIN Voice = Callers
  /\ SUMMARY_TTL \in Nat \ {0} /\ Span \in Nat /\ PageSize \in Nat \ {0}

VARIABLES
  order,   \* the calls whose transaction has begun, by created_at descending
  logged,  \* usage_logs: the calls whose successful row is committed
  cache,   \* Redis: the summary under usage:summary:{org.id}
  reader,  \* how far each summary request is, and what it has read
  pager    \* a client that reads the history from its first page to its last

reportVars == <<order, logged, cache, reader, pager>>
reportsVars == <<ledgerVars, reportVars>>

Voices == {Voice[c] : c \in Callers}
Chars(calls) == MapThenSumSet(LAMBDA c : Size[c], calls)

\* A summary: the counter, the logs counted (request_count is their number)
\* and how long ago the counter was read (an observer).
Summary == [used : Nat, counted : SUBSET Callers, age : Nat]
Nothing == [used |-> 0, counted |-> {}, age |-> 0]
Empty == [left |-> 0, summary |-> Nothing]
Idle == [at |-> "idle", summary |-> Nothing]
Closed == [page |-> 0, seen |-> {}, owed |-> {}]

ReportsTypeOK ==
  /\ LedgerTypeOK
  /\ order \in Seq(Callers)
  /\ logged \subseteq Callers
  /\ cache \in [left : 0 .. SUMMARY_TTL, summary : Summary]
  /\ reader \in [Readers -> [at : {"idle", "begun", "missed", "counted", "answered"},
                         summary : Summary]]
  /\ pager \in [page : Nat, seen : SUBSET Callers, owed : SUBSET Callers]

ReportsInit ==
  /\ Init
  /\ order = <<>> /\ logged = {}
  /\ cache = Empty
  /\ reader = [r \in Readers |-> Idle]
  /\ pager = Closed

----------------------------------------------------------------------------
(* The ledger *)

\* created_at is now(), the begin of the transaction that inserts the log: a
\* handler's begins with its reading, a worker's with its flush.
Stamp(c) ==
  /\ base[c] \notin {NotRead, Finished} /\ \A i \in DOMAIN order : order[i] # c
  /\ order' = <<c>> \o order
  /\ UNCHANGED <<ledgerVars, logged, cache, reader, pager>>

Log(c) ==
  /\ Charge(c) /\ \E i \in DOMAIN order : order[i] = c
  /\ logged' = logged \cup {c}
  /\ UNCHANGED <<order, cache, reader, pager>>

ReadOrLeave(c) == (Read(c) \/ Leave(c)) /\ UNCHANGED reportVars

----------------------------------------------------------------------------
(* GET /usage/summary *)

SummaryStep(r, to) == reader' = [reader EXCEPT ![r] = to]
Answer(r, summary) == SummaryStep(r, [at |-> "answered", summary |-> summary])

\* get_current_org reads the row with the counter.
usage_summary(r) ==
  /\ reader[r].at = "idle"
  /\ SummaryStep(r, [at |-> "begun", summary |-> [Nothing EXCEPT !.used = counter]])
  /\ UNCHANGED <<ledgerVars, order, logged, cache, pager>>

\* (First, if a hit gave the entry another SUMMARY_TTL.)
HitAndKeep(r) ==
  /\ reader[r].at = "begun" /\ cache.left > 0
  /\ cache' = [cache EXCEPT !.left = SUMMARY_TTL]
  /\ Answer(r, cache.summary)
  /\ UNCHANGED <<ledgerVars, order, logged, pager>>
Hit(r) ==
  /\ reader[r].at = "begun" /\ cache.left > 0
  /\ Answer(r, cache.summary)
  /\ UNCHANGED <<ledgerVars, order, logged, cache, pager>>

Miss(r) ==
  /\ reader[r].at = "begun" /\ cache.left = 0
  /\ SummaryStep(r, [reader[r] EXCEPT !.at = "missed"])
  /\ UNCHANGED <<ledgerVars, order, logged, cache, pager>>

\* Logs committed since the reading are counted, too.
CountLogs(r) ==
  /\ reader[r].at = "missed"
  /\ SummaryStep(r, [reader[r] EXCEPT !.at = "counted", !.summary.counted = logged])
  /\ UNCHANGED <<ledgerVars, order, logged, cache, pager>>

\* The summary is kept and served.  (First, with the counter as it is now.)
SaveReadAgain(r) ==
  /\ reader[r].at = "counted"
  /\ LET summary == [reader[r].summary EXCEPT !.used = counter] IN
       cache' = [left |-> SUMMARY_TTL, summary |-> summary] /\ Answer(r, summary)
  /\ UNCHANGED <<ledgerVars, order, logged, pager>>
Save(r) ==
  /\ reader[r].at = "counted"
  /\ cache' = [left |-> SUMMARY_TTL, summary |-> reader[r].summary]
  /\ Answer(r, reader[r].summary)
  /\ UNCHANGED <<ledgerVars, order, logged, pager>>

\* The answer arrives; or Redis or the database does not answer: 500, and
\* nothing is kept.
SummaryEnds(r) ==
  /\ reader[r].at # "idle"
  /\ SummaryStep(r, Idle)
  /\ UNCHANGED <<ledgerVars, order, logged, cache, pager>>

Working == {r \in Readers : reader[r].at \notin {"idle", "answered"}}

\* One tick passes; an entry whose last tick it was is gone.
Tick ==
  /\ \A r \in Working : reader[r].summary.age < Span
  /\ reader' = [r \in Readers |->
                  IF r \in Working THEN [reader[r] EXCEPT !.summary.age = @ + 1] ELSE reader[r]]
  /\ cache' = IF cache.left <= 1 THEN Empty
              ELSE [cache EXCEPT !.left = @ - 1, !.summary.age = @ + 1]
  /\ UNCHANGED <<ledgerVars, order, logged, pager>>

----------------------------------------------------------------------------
(* GET /usage/history and GET /usage/by-voice *)

Newer(d, c) == \E i, j \in DOMAIN order : i < j /\ order[i] = d /\ order[j] = c

\* How many rows ORDER BY created_at DESC puts before that of c.  (Calls that
\* failed in a worker leave rows in the history, too: they are left out.)
Offset(c) == Cardinality({d \in logged : Newer(d, c)})

\* The rows after the offset, up to the limit.  (First, with pages counted
\* from 0 in the offset.)
get_usage_history_shifted(page) ==
  {c \in logged : Offset(c) \in page * PageSize .. (page + 1) * PageSize - 1}
get_usage_history(page) ==
  {c \in logged : Offset(c) \in (page - 1) * PageSize .. page * PageSize - 1}

\* The client asks for the next page, until one is not full.
ReadPage ==
  /\ LET items == get_usage_history(pager.page + 1) IN
       pager' = [page |-> IF Cardinality(items) < PageSize THEN 0 ELSE pager.page + 1,
                 seen |-> (IF pager.page = 0 THEN {} ELSE pager.seen) \cup items,
                 owed |-> IF pager.page = 0 THEN logged ELSE pager.owed]
  /\ UNCHANGED <<ledgerVars, order, logged, cache, reader>>

get_usage_by_voice ==
  {[voice |-> v, total_chars |-> Chars({c \in logged : Voice[c] = v}),
    request_count |-> Cardinality({c \in logged : Voice[c] = v})] :
     v \in {Voice[c] : c \in logged}}

Usage(c) == Stamp(c) \/ Log(c) \/ ReadOrLeave(c)
SummaryRequest(r) ==
  usage_summary(r) \/ Hit(r) \/ Miss(r) \/ CountLogs(r) \/ Save(r) \/ SummaryEnds(r)

ReportsNext ==
  (\E c \in Callers : Usage(c)) \/ (\E r \in Readers : SummaryRequest(r)) \/ Tick \/ ReadPage

ReportsSpec == ReportsInit /\ [][ReportsNext]_reportsVars

----------------------------------------------------------------------------
(* Properties *)

\* The reports agree, whatever is served and kept between their queries: the
\* chars_used of a summary, cached or not, are characters of the requests the
\* same summary counts, and those are in the breakdown by voice of any later
\* moment.  (The counter is read before the logs, and is at most their sum.)
SummaryCoherent ==
  \A r \in Readers : reader[r].at = "answered" =>
    LET shown == reader[r].summary IN
      /\ shown.used <= Chars(shown.counted)
      /\ Chars(shown.counted) <= MapThenSumSet(LAMBDA row : row.total_chars, get_usage_by_voice)

\* "Usage summary is Redis-cached": however requests overlap, and although each
\* may write its old reading with a new SUMMARY_TTL, nobody is shown a counter
\* older than SUMMARY_TTL and the duration of one request.
SummaryFresh ==
  \A r \in Readers : reader[r].at = "answered" => reader[r].summary.age < SUMMARY_TTL + Span

\* A client that reads the history until a page is not full has seen every
\* log that was there when it began, although logs appear in front of and
\* between the rows it has read and move them to later pages.  (Of logs with
\* distinct created_at: the query breaks no tie.)
PagesMissNothing == pager.page = 0 => pager.owed \subseteq pager.seen
=============================================================================
