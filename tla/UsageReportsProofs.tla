------------------------- MODULE UsageReportsProofs -------------------------
(***************************************************************************)
(* That the reports are not too old, agree with each other and miss        *)
(* nothing, for any callers, readers, page size, lifetime of the cache and *)
(* duration of a request.                                                  *)
(***************************************************************************)
EXTENDS UsageReports

Stages == {"idle", "begun", "missed", "counted", "answered"}

\* The summaries kept and served, and their ages, have their types.
SummariesTyped ==
  /\ LedgerInv /\ logged \subseteq Callers
  /\ cache \in [left : 0 .. SUMMARY_TTL, summary : Summary]
  /\ reader \in [Readers -> [at : Stages, summary : Summary]]

\* The age of an entry and what it has left are at most what a reading may take
\* and the lifetime it got then: nobody prolongs it.
CacheAges == cache.left > 0 => cache.summary.age + cache.left <= SUMMARY_TTL + Span

\* A request at work has read the counter at most Span ago.
WorkingAges == \A r \in Working : reader[r].summary.age <= Span

FreshInv == SummariesTyped /\ CacheAges /\ WorkingAges /\ SummaryFresh

\* At first there is no summary.
LEMMA FreshInitial == ReportsInit => FreshInv
<1> SUFFICES ASSUME ReportsInit PROVE FreshInv
  OBVIOUS
<1>1. LedgerInv
  BY LedgerInitial DEF ReportsInit
<1>2. QED
  BY <1>1, ReportsAssumption
  DEF ReportsInit, FreshInv, SummariesTyped, CacheAges, WorkingAges, Working, SummaryFresh,
      Stages, Summary, Empty, Idle, Nothing

\* Every step of the reports is a step of the ledger or leaves it unchanged.
LEMMA ReportsStepLedger == [ReportsNext]_reportsVars => [Next]_ledgerVars
BY DEF ReportsNext, reportsVars, ledgerVars, Usage, SummaryRequest, Stamp, Log, ReadOrLeave,
       usage_summary, Hit, Miss, CountLogs, Save, SummaryEnds, Tick, ReadPage, Next

\* What one request puts into its record leaves the others fresh.
LEMMA ReaderStep ==
  ASSUME FreshInv, LedgerInv', NEW r \in Readers, NEW to \in [at : Stages, summary : Summary],
         SummaryStep(r, to), logged' \subseteq Callers,
         cache' \in [left : 0 .. SUMMARY_TTL, summary : Summary], CacheAges',
         to.at \in Stages \ {"idle", "answered"} => to.summary.age <= Span,
         to.at = "answered" => to.summary.age < SUMMARY_TTL + Span
  PROVE  FreshInv'
<1>1. reader' \in [Readers -> [at : Stages, summary : Summary]]
  BY DEF FreshInv, SummariesTyped, SummaryStep
<1>2. \A q \in Readers : reader'[q] = IF q = r THEN to ELSE reader[q]
  BY DEF FreshInv, SummariesTyped, SummaryStep
<1>3. WorkingAges'
  BY <1>2 DEF FreshInv, WorkingAges, Working, Stages
<1>4. SummaryFresh'
  BY <1>2 DEF FreshInv, SummaryFresh
<1>5. QED
  BY <1>1, <1>3, <1>4 DEF FreshInv, SummariesTyped

\* A request that counts the logs or grows older keeps its type.
LEMMA RequestTypes ==
  ASSUME NEW request \in [at : Stages, summary : Summary], logged \subseteq Callers
  PROVE  /\ [request EXCEPT !.summary.age = @ + 1] \in [at : Stages, summary : Summary]
         /\ LET to == [request EXCEPT !.at = "counted", !.summary.counted = logged] IN
              /\ to \in [at : Stages, summary : Summary]
              /\ to.at = "counted" /\ to.summary.age = request.summary.age
<1> DEFINE to == [request EXCEPT !.at = "counted", !.summary.counted = logged]
<1>1. request.at \in Stages /\ request.summary \in Summary
  OBVIOUS
<1>2. /\ [request.summary EXCEPT !.age = @ + 1] \in Summary
      /\ [request.summary EXCEPT !.counted = logged] \in Summary
  BY <1>1 DEF Summary
<1>3. [request EXCEPT !.summary.age = @ + 1] \in [at : Stages, summary : Summary]
  BY <1>2
<1>4. to \in [at : Stages, summary : Summary] /\ to.at = "counted"
  BY <1>2 DEF Stages
<1>5. to.summary.age = request.summary.age
  BY <1>1 DEF Summary
<1>6. QED
  BY <1>3, <1>4, <1>5

\* Each step keeps the ages.
LEMMA FreshInductive == FreshInv /\ [ReportsNext]_reportsVars => FreshInv'
<1> SUFFICES ASSUME FreshInv, [ReportsNext]_reportsVars PROVE FreshInv'
  OBVIOUS
<1>1. LedgerInv'
  BY ReportsStepLedger, LedgerInductive DEF FreshInv, SummariesTyped
<1>2. counter \in Nat
  BY DEF FreshInv, SummariesTyped, LedgerInv, LedgerTypeOK
<1> DEFINE Kept == UNCHANGED <<logged, cache, reader>>
<1>3. ASSUME Kept PROVE FreshInv'
  BY <1>1, <1>3 DEF FreshInv, SummariesTyped, CacheAges, WorkingAges, Working, SummaryFresh
<1>4. ASSUME NEW c \in Callers, Usage(c) PROVE FreshInv'
  <2>1. CASE Log(c)
    BY <1>1, <2>1
    DEF Log, FreshInv, SummariesTyped, CacheAges, WorkingAges, Working, SummaryFresh
  <2>2. CASE Stamp(c) \/ ReadOrLeave(c)
    BY <1>3, <2>2 DEF Stamp, ReadOrLeave, reportVars
  <2>3. QED
    BY <1>4, <2>1, <2>2 DEF Usage
<1>5. ASSUME NEW r \in Readers, SummaryRequest(r) PROVE FreshInv'
  <2> USE <1>1, ReaderStep, ReportsAssumption
      DEF FreshInv, SummariesTyped, CacheAges, Stages, Summary
  <2>1. CASE usage_summary(r)
    <3> DEFINE to == [at |-> "begun", summary |-> [Nothing EXCEPT !.used = counter]]
    <3>1. to \in [at : Stages, summary : Summary] /\ to.summary.age = 0
      BY <1>2 DEF Nothing
    <3>2. QED
      BY <2>1, <3>1 DEF usage_summary
  <2>2. CASE Hit(r)
    <3>1. cache.summary.age < SUMMARY_TTL + Span /\ cache.summary \in Summary
      BY <2>2 DEF Hit
    <3>2. QED
      BY <2>2, <3>1 DEF Hit, Answer
  <2>3. CASE Miss(r) \/ CountLogs(r)
    <3>1. reader[r].summary.age <= Span
      BY <2>3 DEF Miss, CountLogs, WorkingAges, Working
    <3>2. CASE Miss(r)
      BY <3>1, <3>2 DEF Miss
    <3>3. CASE CountLogs(r)
      <4> DEFINE to == [reader[r] EXCEPT !.at = "counted", !.summary.counted = logged]
      <4>1. /\ to \in [at : Stages, summary : Summary]
            /\ to.at = "counted" /\ to.summary.age = reader[r].summary.age
        <5> HIDE DEF Stages, Summary
        <5>1. QED
          BY RequestTypes
      <4>2. SummaryStep(r, to) /\ UNCHANGED <<ledgerVars, order, logged, cache, pager>>
        BY <3>3 DEF CountLogs
      <4> HIDE DEF to
      <4>3. QED
        BY <3>1, <4>1, <4>2
    <3>4. QED
      BY <2>3, <3>2, <3>3
  <2>4. CASE Save(r)
    <3>1. reader[r].summary.age <= Span
      BY <2>4 DEF Save, WorkingAges, Working
    <3>2. cache' \in [left : 0 .. SUMMARY_TTL, summary : Summary] /\ CacheAges'
      BY <2>4, <3>1 DEF Save
    <3>3. QED
      BY <2>4, <3>1, <3>2 DEF Save, Answer
  <2>5. CASE SummaryEnds(r)
    <3>1. Idle \in [at : Stages, summary : Summary] /\ Idle.at = "idle"
      BY DEF Idle, Nothing
    <3>2. QED
      BY <2>5, <3>1 DEF SummaryEnds
  <2>6. QED
    BY <1>5, <2>1, <2>2, <2>3, <2>4, <2>5 DEF SummaryRequest
<1>6. CASE Tick
  <2> USE <1>1, <1>6, ReportsAssumption DEF Tick, FreshInv, SummariesTyped, Summary, Stages
  <2> DEFINE older(summary) == [summary EXCEPT !.age = @ + 1]
  <2>0. \A summary \in Summary : older(summary) \in Summary /\ older(summary).age = summary.age + 1
    OBVIOUS
  <2>1. cache' \in [left : 0 .. SUMMARY_TTL, summary : Summary] /\ CacheAges'
    <3>1. CASE cache.left <= 1
      BY <3>1 DEF CacheAges, Empty, Nothing
    <3>2. CASE ~(cache.left <= 1)
      <4>1. cache' = [left |-> cache.left - 1, summary |-> older(cache.summary)]
        BY <3>2
      <4>2. older(cache.summary) \in Summary /\ older(cache.summary).age = cache.summary.age + 1
        BY <2>0
      <4>3. cache.left - 1 \in 0 .. SUMMARY_TTL /\ cache.summary.age \in Nat
        BY <3>2
      <4> HIDE DEF older
      <4>4. QED
        BY <3>2, <4>1, <4>2, <4>3 DEF CacheAges
    <3>3. QED
      BY <3>1, <3>2
  <2>2. reader' \in [Readers -> [at : Stages, summary : Summary]]
    <3> SUFFICES ASSUME NEW r \in Readers
                 PROVE  [reader[r] EXCEPT !.summary.age = @ + 1] \in [at : Stages, summary : Summary]
      OBVIOUS
    <3> HIDE DEF Stages, Summary
    <3>1. QED
      BY RequestTypes
  <2>3. \A r \in Readers : reader'[r].at = reader[r].at
    BY DEF Working
  <2>4. WorkingAges'
    BY <2>3 DEF WorkingAges, Working
  <2>5. SummaryFresh'
    BY <2>3 DEF SummaryFresh, Working
  <2>6. QED
    BY <2>1, <2>2, <2>4, <2>5
<1>7. CASE ReadPage \/ UNCHANGED reportsVars
  BY <1>3, <1>7 DEF ReadPage, reportsVars, reportVars
<1>8. QED
  BY <1>4, <1>5, <1>6, <1>7 DEF ReportsNext

\* "Usage summary is Redis-cached": nobody is shown a counter older than the
\* lifetime of the cache and the duration of one request, however many requests
\* compute and keep a summary at the same time.
THEOREM SummaryFreshCorrect == ReportsSpec => []SummaryFresh
<1>1. FreshInv => SummaryFresh
  BY DEF FreshInv
<1>2. QED
  BY FreshInitial, FreshInductive, <1>1, PTL DEF ReportsSpec

\* No reachable state has a reading that is too old.
LEMMA FreshInvariant == ReportsSpec => []FreshInv
BY FreshInitial, FreshInductive, PTL DEF ReportsSpec

----------------------------------------------------------------------------
(* The rows of the history                                                 *)

Stamped(c) == \E i \in DOMAIN order : order[i] = c

\* The transactions that have begun, each once, in a sequence; the rows that
\* are committed are among them, and their calls are over.
RowsInv ==
  /\ order \in Seq(Callers)
  /\ \A i, j \in DOMAIN order : order[i] = order[j] => i = j
  /\ IsFiniteSet(logged)
  /\ \A c \in logged : Stamped(c) /\ base[c] = Finished

\* A stamp puts one more call in front, and none behind another.
LEMMA StampOrder ==
  ASSUME RowsInv, NEW c \in Callers, Stamp(c)
  PROVE  /\ order' \in Seq(Callers)
         /\ \A i, j \in DOMAIN order' : order'[i] = order'[j] => i = j
         /\ \A d : Stamped(d) => Stamped(d)'
         /\ \A d, e : d # c => (Newer(d, e)' <=> Newer(d, e))
<1>1. order \in Seq(Callers) /\ Len(order) \in Nat /\ DOMAIN order = 1 .. Len(order)
  BY DEF RowsInv
<1>2. /\ order' \in Seq(Callers) /\ Len(order') = Len(order) + 1
      /\ DOMAIN order' = 1 .. Len(order) + 1
      /\ \A i \in 1 .. Len(order) + 1 : order'[i] = IF i = 1 THEN c ELSE order[i - 1]
  BY <1>1 DEF Stamp
<1>3. \A i \in 1 .. Len(order) : order[i] # c
  BY <1>1 DEF Stamp
<1>4. \A i, j \in DOMAIN order' : order'[i] = order'[j] => i = j
  <2> SUFFICES ASSUME NEW i \in DOMAIN order', NEW j \in DOMAIN order', order'[i] = order'[j]
               PROVE  i = j
    OBVIOUS
  <2>1. CASE i = 1 \/ j = 1
    BY <1>1, <1>2, <1>3, <2>1
  <2>2. CASE i # 1 /\ j # 1
    <3>1. /\ i - 1 \in DOMAIN order /\ j - 1 \in DOMAIN order /\ order[i - 1] = order[j - 1]
          /\ i \in Int /\ j \in Int
      BY <1>1, <1>2, <2>2
    <3>2. i - 1 = j - 1
      BY <3>1 DEF RowsInv
    <3>3. QED
      BY <3>1, <3>2
  <2>3. QED
    BY <2>1, <2>2
<1>5. \A i \in DOMAIN order : i + 1 \in DOMAIN order' /\ order'[i + 1] = order[i]
  BY <1>1, <1>2
<1>6. ASSUME NEW d, Stamped(d) PROVE Stamped(d)'
  BY <1>5, <1>6 DEF Stamped
<1>7. ASSUME NEW d, NEW e, d # c, Newer(d, e) PROVE Newer(d, e)'
  <2>1. PICK i \in DOMAIN order, j \in DOMAIN order : i < j /\ order[i] = d /\ order[j] = e
    BY <1>7 DEF Newer
  <2>2. i + 1 < j + 1
    BY <1>1, <2>1
  <2>3. QED
    BY <1>5, <2>1, <2>2 DEF Newer
<1>8. ASSUME NEW d, NEW e, d # c, Newer(d, e)' PROVE Newer(d, e)
  <2>1. PICK i \in DOMAIN order', j \in DOMAIN order' : i < j /\ order'[i] = d /\ order'[j] = e
    BY <1>8 DEF Newer
  <2>2. /\ i - 1 \in DOMAIN order /\ j - 1 \in DOMAIN order /\ i - 1 < j - 1
        /\ order[i - 1] = d /\ order[j - 1] = e
    BY <1>1, <1>2, <1>8, <2>1
  <2>3. QED
    BY <2>2 DEF Newer
<1>9. QED
  BY <1>2, <1>4, <1>6, <1>7, <1>8

\* Each step keeps the rows in order: a row is committed by a call that has
\* stamped it and has not committed one before.
LEMMA RowsInductive ==
  ASSUME FreshInv, RowsInv, [ReportsNext]_reportsVars
  PROVE  RowsInv'
<1>1. ASSUME UNCHANGED <<order, logged, base>> PROVE RowsInv'
  BY <1>1 DEF RowsInv, Stamped
<1>2. base \in [Callers -> Nat \cup {NotRead, Finished}] /\ logged \subseteq Callers
  BY DEF FreshInv, SummariesTyped, LedgerInv, LedgerTypeOK
<1>3. ASSUME NEW c \in Callers, Stamp(c) PROVE RowsInv'
  <2>1. UNCHANGED <<base, logged>>
    BY <1>3 DEF Stamp, ledgerVars
  <2>2. QED
    BY <1>3, <2>1, StampOrder DEF RowsInv
<1>4. ASSUME NEW c \in Callers, Log(c) PROVE RowsInv'
  <2>1. order' = order /\ logged' = logged \cup {c} /\ Stamped(c)
    BY <1>4 DEF Log, Stamped
  <2>2. IsFiniteSet(logged')
    BY <2>1, FS_AddElement DEF RowsInv
  <2>3. \A d \in logged' : base'[d] = Finished
    BY <1>2, <1>4, <2>1 DEF Log, Charge, RowsInv
  <2>4. \A d \in logged' : Stamped(d)'
    BY <2>1 DEF RowsInv, Stamped
  <2>5. QED
    BY <2>1, <2>2, <2>3, <2>4 DEF RowsInv
<1>5. ASSUME NEW c \in Callers, ReadOrLeave(c) PROVE RowsInv'
  <2>1. UNCHANGED <<order, logged>>
    BY <1>5 DEF ReadOrLeave, reportVars
  <2>2. \A d \in logged : base'[d] = Finished
    BY <1>2, <1>5 DEF ReadOrLeave, Read, Leave, RowsInv, NotRead, Finished
  <2>3. QED
    BY <2>1, <2>2 DEF RowsInv, Stamped
<1>6. ASSUME NEW r \in Readers, SummaryRequest(r) PROVE RowsInv'
  BY <1>1, <1>6
  DEF SummaryRequest, usage_summary, Hit, Miss, CountLogs, Save, SummaryEnds, ledgerVars
<1>7. ASSUME Tick \/ ReadPage \/ UNCHANGED reportsVars PROVE RowsInv'
  BY <1>1, <1>7 DEF Tick, ReadPage, reportsVars, reportVars, ledgerVars
<1>8. QED
  BY <1>3, <1>4, <1>5, <1>6, <1>7 DEF ReportsNext, Usage

\* So the committed rows are finitely many, each with one stamp, in every reachable state.
LEMMA RowsInvariant == ReportsSpec => []RowsInv
<1>1. ReportsInit => RowsInv
  BY FS_EmptySet DEF ReportsInit, RowsInv
<1>2. FreshInv /\ RowsInv /\ [ReportsNext]_reportsVars => RowsInv'
  BY RowsInductive
<1>3. QED
  BY FreshInvariant, <1>1, <1>2, PTL DEF ReportsSpec

----------------------------------------------------------------------------
(* The characters of the reports                                           *)

\* A summary claims no more characters than the rows it counts, which exist.
Coherent(summary) ==
  summary.counted \subseteq logged /\ summary.used <= SumOf(Size, summary.counted)

\* What was served is what is logged; whoever has not counted the rows yet has
\* read the counter when it was at most that, and it never shrinks.
SumsInv ==
  /\ total = SumOf(Size, logged)
  /\ Coherent(cache.summary)
  /\ \A r \in Readers :
       IF reader[r].at \in {"begun", "missed"}
         THEN reader[r].summary.used <= total
         ELSE Coherent(reader[r].summary)

\* More rows make no summary incoherent.
LEMMA CoherentStays ==
  ASSUME NEW summary, Coherent(summary), logged \subseteq logged'
  PROVE  Coherent(summary)'
BY DEF Coherent

\* A summary without rows claims nothing.
LEMMA NothingCoherent == Coherent(Nothing)
BY SumEmpty DEF Coherent, Nothing

\* The rows of a part add up to at most the rows of the whole.
LEMMA PartOfSum ==
  ASSUME NEW S \in SUBSET Callers, IsFiniteSet(S), NEW T \in SUBSET S
  PROVE  /\ SumOf(Size, S) \in Nat /\ SumOf(Size, T) \in Nat
         /\ SumOf(Size, T) <= SumOf(Size, S)
<1> DEFINE R == S \ T
<1>1. /\ IsFiniteSet(T) /\ IsFiniteSet(R) /\ T \cap R = {} /\ T \cup R = S
      /\ \A c \in T \cup R : Size[c] \in Nat
  BY FS_Subset, LedgerAssumption
<1> HIDE DEF R
<1>2. /\ SumOf(Size, T) \in Nat /\ SumOf(Size, R) \in Nat
      /\ SumOf(Size, T \cup R) = SumOf(Size, T) + SumOf(Size, R)
  BY <1>1, SumUnion
<1>3. SumOf(Size, S) = SumOf(Size, T) + SumOf(Size, R)
  BY Zenon, <1>1, <1>2
<1>4. QED
  BY <1>2, <1>3

\* Every step keeps the sums: a row and its characters come in one commit.
LEMMA SumsInductive ==
  ASSUME FreshInv, RowsInv, SumsInv, [ReportsNext]_reportsVars
  PROVE  SumsInv'
<1> USE DEF FreshInv, SummariesTyped
<1>1. counter \in Nat /\ total \in Nat /\ counter <= total
  BY DEF LedgerInv, LedgerTypeOK, CounterWithinTotal
<1>2. ASSUME NEW c \in Callers, Usage(c) PROVE SumsInv'
  <2>1. UNCHANGED <<cache, reader>>
    BY <1>2 DEF Usage, Stamp, Log, ReadOrLeave, reportVars
  <2>2. /\ logged \subseteq logged' /\ total' \in Nat /\ total <= total'
        /\ total' = SumOf(Size, logged')
    <3>1. CASE Log(c)
      <4>1. /\ logged' = logged \cup {c} /\ c \notin logged /\ IsFiniteSet(logged)
            /\ total' = total + Size[c] /\ \A d \in logged \cup {c} : Size[d] \in Nat
        BY <3>1, LedgerAssumption DEF Log, Charge, RowsInv
      <4>2. SumOf(Size, logged \cup {c}) = SumOf(Size, logged) + Size[c]
        BY <4>1, SumAdds
      <4>3. QED
        BY <1>1, <4>1, <4>2 DEF SumsInv
    <3>2. CASE Stamp(c) \/ ReadOrLeave(c)
      <4>1. UNCHANGED <<logged, total>>
        BY <3>2 DEF Stamp, ReadOrLeave, Read, Leave, ledgerVars, reportVars
      <4>2. QED
        BY <1>1, <4>1 DEF SumsInv
    <3>3. QED
      BY <1>2, <3>1, <3>2 DEF Usage
  <2>3. Coherent(cache.summary)'
    BY <2>1, <2>2, CoherentStays DEF SumsInv
  <2>4. ASSUME NEW r \in Readers, reader[r].at \in {"begun", "missed"}
        PROVE  reader[r].summary.used <= total'
    <3>1. reader[r].summary.used \in Nat /\ reader[r].summary.used <= total
      BY <2>4 DEF SumsInv, Summary
    <3>2. QED
      BY <1>1, <2>2, <3>1
  <2>5. ASSUME NEW r \in Readers, reader[r].at \notin {"begun", "missed"}
        PROVE  Coherent(reader[r].summary)'
    BY <2>1, <2>2, <2>5, CoherentStays DEF SumsInv
  <2>6. QED
    BY <2>1, <2>2, <2>3, <2>4, <2>5 DEF SumsInv
<1>3. ASSUME UNCHANGED <<logged, total>>, Coherent(cache'.summary),
             \A r \in Readers : IF reader'[r].at \in {"begun", "missed"}
                                  THEN reader'[r].summary.used <= total
                                  ELSE Coherent(reader'[r].summary)
      PROVE  SumsInv'
  BY <1>3 DEF SumsInv, Coherent
<1>4. ASSUME NEW r \in Readers, SummaryRequest(r) PROVE SumsInv'
  <2>1. UNCHANGED <<logged, total>>
    BY <1>4
    DEF SummaryRequest, usage_summary, Hit, Miss, CountLogs, Save, SummaryEnds, ledgerVars
  <2>2. ASSUME NEW to, SummaryStep(r, to), Coherent(cache'.summary),
               IF to.at \in {"begun", "missed"} THEN to.summary.used <= total
                                               ELSE Coherent(to.summary)
        PROVE  SumsInv'
    <3>1. \A q \in Readers : reader'[q] = IF q = r THEN to ELSE reader[q]
      BY <2>2 DEF SummaryStep
    <3>2. QED
      BY <1>3, <2>1, <2>2, <3>1 DEF SumsInv
  <2>3. CASE usage_summary(r)
    BY <1>1, <2>2, <2>3 DEF usage_summary, Nothing, SumsInv
  <2>4. CASE Hit(r)
    BY <2>2, <2>4 DEF Hit, Answer, SumsInv
  <2>5. CASE Miss(r)
    <3>1. reader[r].summary.used <= total
      BY <2>5 DEF Miss, SumsInv
    <3>2. QED
      BY <2>2, <2>5, <3>1 DEF Miss, SumsInv
  <2>6. CASE CountLogs(r)
    <3> DEFINE to == [reader[r] EXCEPT !.at = "counted", !.summary.counted = logged]
    <3>1. reader[r].summary.used <= total
      BY <2>6 DEF CountLogs, SumsInv
    <3>2. to.at = "counted" /\ Coherent(to.summary)
      BY <3>1 DEF Coherent, SumsInv, Summary
    <3>3. SummaryStep(r, to) /\ Coherent(cache'.summary)
      BY <2>6 DEF CountLogs, SumsInv
    <3> HIDE DEF to
    <3>4. QED
      BY <2>2, <3>2, <3>3
  <2>7. CASE Save(r)
    <3>1. Coherent(reader[r].summary)
      BY <2>7 DEF Save, SumsInv
    <3>2. QED
      BY <2>2, <2>7, <3>1 DEF Save, Answer
  <2>8. CASE SummaryEnds(r)
    BY <2>2, <2>8, NothingCoherent DEF SummaryEnds, Idle, SumsInv
  <2>9. QED
    BY <1>4, <2>3, <2>4, <2>5, <2>6, <2>7, <2>8 DEF SummaryRequest
<1>5. CASE Tick
  <2>1. UNCHANGED <<logged, total>>
    BY <1>5 DEF Tick, ledgerVars
  <2>2. ASSUME NEW summary \in Summary, Coherent(summary)
        PROVE  Coherent([summary EXCEPT !.age = @ + 1])
    BY <2>2 DEF Coherent, Summary
  <2>3. Coherent(cache'.summary)
    <3>1. CASE cache.left <= 1
      BY <1>5, <3>1, NothingCoherent DEF Tick, Empty
    <3>2. CASE ~(cache.left <= 1)
      <4>1. cache'.summary = [cache.summary EXCEPT !.age = @ + 1]
        BY <1>5, <3>2 DEF Tick, Summary
      <4>2. QED
        BY <2>2, <4>1 DEF SumsInv
    <3>3. QED
      BY <3>1, <3>2
  <2>4. ASSUME NEW r \in Readers
        PROVE  /\ reader'[r].at = reader[r].at
               /\ reader'[r].summary.used = reader[r].summary.used
               /\ reader'[r].summary.counted = reader[r].summary.counted
    BY <1>5 DEF Tick, Working, Summary, Stages
  <2>5. QED
    BY <1>3, <2>1, <2>3, <2>4 DEF SumsInv, Coherent
<1>6. CASE ReadPage \/ UNCHANGED reportsVars
  BY <1>3, <1>6 DEF ReadPage, reportsVars, reportVars, ledgerVars, SumsInv
<1>7. QED
  BY <1>2, <1>4, <1>5, <1>6 DEF ReportsNext

\* So every summary, being read or kept, is coherent in every reachable state.
LEMMA SumsInvariant == ReportsSpec => []SumsInv
<1>1. ReportsInit => SumsInv
  BY SumEmpty, NothingCoherent DEF ReportsInit, Init, SumsInv, Empty, Idle
<1>2. FreshInv /\ RowsInv /\ SumsInv /\ [ReportsNext]_reportsVars => SumsInv'
  BY SumsInductive
<1>3. QED
  BY FreshInvariant, RowsInvariant, <1>1, <1>2, PTL DEF ReportsSpec

----------------------------------------------------------------------------
(* The breakdown by voice *)

\* Adding up the rows of a breakdown is adding up their characters.
LEMMA SumOfRows ==
  ASSUME NEW R, IsFiniteSet(R), \A row \in R : row.total_chars \in Nat
  PROVE  MapThenSumSet(LAMBDA row : row.total_chars, R)
           = SumOf([row \in R |-> row.total_chars], R)
<1> DEFINE w == [row \in R |-> row.total_chars]
           Adds(i) == i = [S \in SUBSET R |->
                             IF S = {} THEN 0 ELSE Pick(S).total_chars + i[S \ {Pick(S)}]]
           iter == CHOOSE i : Adds(i)
<1>1. \A row \in R : w[row] \in Nat
  OBVIOUS
<1>2. \A i : Adds(i) <=> Picked(i, w, R)
  <2>1. \A S \in SUBSET R : S # {} => w[Pick(S)] = Pick(S).total_chars
    BY DEF Pick
  <2> HIDE DEF w
  <2>2. QED
    BY <2>1 DEF Picked
<1>3. MapThenSumSet(LAMBDA row : row.total_chars, R) = iter[R]
  BY Zenon DEF MapThenSumSet, MapThenFoldSet, Pick
<1> HIDE DEF w
<1>4. PICK V : SumsUp(V, w, R)
  BY <1>1, SumsExist
<1>5. Picked(V, w, R) /\ SumOf(w, R) = V[R]
  BY <1>1, <1>4, SumsArePicked, SumValue
<1>6. Adds(iter)
  <2>1. Adds(V)
    BY <1>2, <1>5
  <2> HIDE DEF Adds
  <2>2. QED
    BY <2>1
<1> HIDE DEF Adds, iter
<1>7. iter[R] = V[R]
  BY <1>1, <1>2, <1>4, <1>6, PickedIsSum
<1>8. QED
  BY <1>3, <1>5, <1>7 DEF w

\* However many voices there are, their rows add up to the characters of all rows.
LEMMA VoicesAddUp ==
  ASSUME FreshInv, RowsInv
  PROVE  MapThenSumSet(LAMBDA row : row.total_chars, get_usage_by_voice) = SumOf(Size, logged)
<1> DEFINE voices == {Voice[c] : c \in logged}
           spoken(V) == {c \in logged : Voice[c] \in V}
           row(v) == [voice |-> v, total_chars |-> SumOf(Size, spoken({v})),
                      request_count |-> Cardinality(spoken({v}))]
           rows(V) == {row(v) : v \in V}
           w == [r \in rows(voices) |-> r.total_chars]
           Good(V) == SumOf(w, rows(V)) = SumOf(Size, spoken(V))
<1>1. IsFiniteSet(logged) /\ logged \subseteq Callers /\ \A c \in logged : Size[c] \in Nat
  BY LedgerAssumption DEF RowsInv, FreshInv, SummariesTyped
<1>2. get_usage_by_voice = rows(voices)
  BY DEF get_usage_by_voice, Chars, SumOf
<1>3. IsFiniteSet(voices)
  <2>1. [c \in logged |-> Voice[c]] \in Surjection(logged, voices)
    BY DEF Surjection
  <2>2. QED
    BY <1>1, <2>1, FS_Surjection
<1>4. IsFiniteSet(rows(voices))
  <2>1. [v \in voices |-> row(v)] \in Surjection(voices, rows(voices))
    BY DEF Surjection
  <2>2. QED
    BY <1>3, <2>1, FS_Surjection
<1>5. \A V : IsFiniteSet(spoken(V)) /\ SumOf(Size, spoken(V)) \in Nat
  BY <1>1, PartOfSum, FS_Subset
<1>6. \A v \in voices : w[row(v)] = SumOf(Size, spoken({v})) /\ w[row(v)] \in Nat
  BY <1>5
<1>7. Good(voices)
  <2> DEFINE Bad == {V \in SUBSET voices : ~Good(V)}
  <2>1. SUFFICES ASSUME Bad # {} PROVE FALSE
    OBVIOUS
  <2>2. PICK V \in Bad : \A U \in SUBSET V : U # V => U \notin Bad
    <3>1. Bad \in SUBSET SUBSET voices
      OBVIOUS
    <3> HIDE DEF Bad
    <3>2. QED
      BY <1>3, <2>1, <3>1, SmallestSet
  <2>3. V \in SUBSET voices /\ ~Good(V) /\ \A U \in SUBSET V : U # V => Good(U)
    BY <2>2
  <2>4. V # {}
    <3>1. rows({}) = {} /\ spoken({}) = {}
      OBVIOUS
    <3>2. Good({})
      BY <3>1, SumEmpty
    <3>3. QED
      BY <2>3, <3>2
  <2>5. PICK v \in V : TRUE
    BY <2>4
  <2> DEFINE U == V \ {v}
  <2>6. U \in SUBSET voices /\ Good(U) /\ v \in voices
    BY <2>3, <2>5
  <2>7. SumOf(w, rows(V)) = SumOf(w, rows(U)) + SumOf(Size, spoken({v}))
    <3>1. rows(V) = rows(U) \cup {row(v)} /\ row(v) \notin rows(U)
      OBVIOUS
    <3>2. rows(U) \in SUBSET rows(voices)
      BY <2>6
    <3> HIDE DEF w, row, U
    <3>3. \A r \in rows(U) \cup {row(v)} : w[r] \in Nat
      BY <1>6, <2>6
    <3> DEFINE R == rows(U)
               x == row(v)
    <3>4. rows(V) = R \cup {x}
      BY <3>1
    <3>5. w[x] = SumOf(Size, spoken({v}))
      BY <1>6, <2>6
    <3>6. IsFiniteSet(R) /\ x \notin R /\ \A r \in R \cup {x} : w[r] \in Nat
      <4> HIDE DEF rows
      <4>1. QED
        BY <1>4, <3>1, <3>2, <3>3, FS_Subset
    <3> HIDE DEF R, x, rows, spoken, Good, Bad, voices
    <3>7. SumOf(w, R \cup {x}) = SumOf(w, R) + w[x]
      BY <3>6, SumAdds
    <3>8. QED
      BY <3>4, <3>5, <3>7 DEF R
  <2>8. SumOf(Size, spoken(V)) = SumOf(Size, spoken(U)) + SumOf(Size, spoken({v}))
    <3>1. /\ spoken(V) = spoken(U) \cup spoken({v})
          /\ spoken(U) \cap spoken({v}) = {}
          /\ \A c \in spoken(U) \cup spoken({v}) : Size[c] \in Nat
      BY <1>1
    <3> DEFINE A == spoken(U)
               B == spoken({v})
    <3>2. IsFiniteSet(A) /\ IsFiniteSet(B)
      BY <1>5
    <3>3. /\ spoken(V) = A \cup B /\ A \cap B = {}
          /\ \A c \in A \cup B : Size[c] \in Nat
      BY <3>1
    <3> HIDE DEF A, B, spoken
    <3>4. SumOf(Size, A \cup B) = SumOf(Size, A) + SumOf(Size, B)
      BY <3>2, <3>3, SumUnion
    <3>5. QED
      BY <3>3, <3>4 DEF A, B
  <2>9. QED
    BY <2>3, <2>6, <2>7, <2>8
<1>8. spoken(voices) = logged
  OBVIOUS
<1>9. \A v : row(v).total_chars \in Nat
  BY <1>5
<1>10. MapThenSumSet(LAMBDA r : r.total_chars, rows(voices)) = SumOf(w, rows(voices))
  <2>1. \A r \in rows(voices) : r.total_chars \in Nat
    <3> HIDE DEF row
    <3>1. QED
      BY <1>9
  <2> HIDE DEF rows
  <2>2. QED
    BY <1>4, <2>1, SumOfRows
<1>11. QED
  BY <1>2, <1>7, <1>8, <1>10

\* The reports agree: the chars_used of a summary, cached or not, are characters
\* of the requests the same summary counts, and those are in the breakdown by
\* voice of any later moment.
THEOREM SummaryCoherentCorrect == ReportsSpec => []SummaryCoherent
<1>1. FreshInv /\ RowsInv /\ SumsInv => SummaryCoherent
  <2> SUFFICES ASSUME FreshInv, RowsInv, SumsInv, NEW r \in Readers, reader[r].at = "answered"
               PROVE  LET shown == reader[r].summary IN
                        /\ shown.used <= Chars(shown.counted)
                        /\ Chars(shown.counted)
                             <= MapThenSumSet(LAMBDA row : row.total_chars, get_usage_by_voice)
    BY DEF SummaryCoherent
  <2>1. Coherent(reader[r].summary)
    BY DEF SumsInv
  <2>2. IsFiniteSet(logged) /\ logged \in SUBSET Callers
    BY DEF FreshInv, SummariesTyped, RowsInv
  <2>3. SumOf(Size, reader[r].summary.counted) <= SumOf(Size, logged)
    BY <2>1, <2>2, PartOfSum DEF Coherent
  <2>4. Chars(reader[r].summary.counted) = SumOf(Size, reader[r].summary.counted)
    BY DEF Chars, SumOf
  <2>5. QED
    BY <2>1, <2>3, <2>4, VoicesAddUp DEF Coherent
<1>2. QED
  BY FreshInvariant, RowsInvariant, SumsInvariant, <1>1, PTL

----------------------------------------------------------------------------
(* The pages *)

Ahead(c) == {d \in logged : Newer(d, c)}

\* Every row has a number of rows in front of it.
LEMMA OffsetType ==
  ASSUME RowsInv, NEW c
  PROVE  IsFiniteSet(Ahead(c)) /\ Offset(c) = Cardinality(Ahead(c)) /\ Offset(c) \in Nat
<1>1. IsFiniteSet(logged) /\ Ahead(c) \in SUBSET logged
  BY DEF RowsInv, Ahead
<1>2. IsFiniteSet(Ahead(c))
  BY <1>1, FS_Subset
<1>3. Cardinality(Ahead(c)) \in Nat
  BY <1>2, FS_CardinalityType
<1>4. QED
  BY <1>2, <1>3 DEF Offset, Ahead

\* A row has more rows in front of it than one that is newer.
LEMMA OffsetOrder ==
  ASSUME RowsInv, NEW d \in logged, NEW c, Newer(d, c)
  PROVE  Offset(d) < Offset(c)
<1>1. /\ DOMAIN order \subseteq Int
      /\ \A i, j \in DOMAIN order : order[i] = order[j] => i = j
  BY DEF RowsInv
<1>2. d \notin Ahead(d)
  BY <1>1 DEF Ahead, Newer
<1>3. Ahead(d) \cup {d} \in SUBSET Ahead(c)
  <2> SUFFICES ASSUME NEW e \in Ahead(d) PROVE e \in Ahead(c)
    BY DEF Ahead
  <2>1. PICK i \in DOMAIN order, j \in DOMAIN order : i < j /\ order[i] = e /\ order[j] = d
    BY DEF Ahead, Newer
  <2>2. PICK k \in DOMAIN order, l \in DOMAIN order : k < l /\ order[k] = d /\ order[l] = c
    BY DEF Newer
  <2>3. j = k /\ i < l
    BY <1>1, <2>1, <2>2
  <2>4. QED
    BY <2>1, <2>2, <2>3 DEF Ahead, Newer
<1>4. Cardinality(Ahead(d) \cup {d}) = Cardinality(Ahead(d)) + 1
  BY <1>2, OffsetType, FS_AddElement
<1>5. Cardinality(Ahead(d) \cup {d}) <= Cardinality(Ahead(c))
  BY <1>3, OffsetType, FS_Subset
<1>6. Offset(d) = Cardinality(Ahead(d)) /\ Offset(d) \in Nat
  BY OffsetType
<1>7. Offset(c) = Cardinality(Ahead(c)) /\ Offset(c) \in Nat
  BY OffsetType
<1>8. QED
  BY <1>4, <1>5, <1>6, <1>7

\* The rows of a history of n rows have the offsets 0, 1, ..., n - 1.
LEMMA OffsetsFill ==
  ASSUME RowsInv
  PROVE  /\ Cardinality(logged) \in Nat
         /\ \A c \in logged : Offset(c) < Cardinality(logged)
         /\ \A k \in 0 .. Cardinality(logged) - 1 : \E c \in logged : Offset(c) = k
<1> DEFINE n == Cardinality(logged)
           f == [c \in logged |-> Offset(c)]
<1>1. n \in Nat /\ IsFiniteSet(logged)
  BY FS_CardinalityType DEF RowsInv
<1>2. ASSUME NEW c \in logged PROVE Offset(c) \in 0 .. n - 1
  <2>1. c \notin Ahead(c)
    BY DEF RowsInv, Ahead, Newer
  <2>2. Ahead(c) \in SUBSET (logged \ {c})
    BY <2>1 DEF Ahead
  <2>3. IsFiniteSet(logged \ {c}) /\ Cardinality(logged \ {c}) = n - 1
    BY <1>1, FS_RemoveElement
  <2>4. Cardinality(Ahead(c)) <= n - 1
    BY <2>2, <2>3, FS_Subset
  <2>5. QED
    BY <1>1, <2>4, OffsetType
<1>3. ASSUME NEW c \in logged, NEW d \in logged, c # d PROVE Offset(c) # Offset(d)
  <2>1. Newer(c, d) \/ Newer(d, c)
    <3>1. PICK i \in DOMAIN order, j \in DOMAIN order : order[i] = c /\ order[j] = d
      BY DEF RowsInv, Stamped
    <3>2. i < j \/ j < i
      BY <1>3, <3>1 DEF RowsInv
    <3>3. QED
      BY <3>1, <3>2 DEF Newer
  <2>2. Offset(c) < Offset(d) \/ Offset(d) < Offset(c)
    BY <2>1, OffsetOrder
  <2>3. Offset(c) \in Nat /\ Offset(d) \in Nat
    BY OffsetType
  <2>4. QED
    BY <2>2, <2>3
<1>4. IsFiniteSet(0 .. n - 1) /\ Cardinality(0 .. n - 1) = n
  <2> HIDE DEF n
  <2>1. 0 \in Int /\ n - 1 \in Int
    BY <1>1
  <2>2. /\ IsFiniteSet(0 .. n - 1)
        /\ Cardinality(0 .. n - 1) = IF 0 > n - 1 THEN 0 ELSE n - 1 - 0 + 1
    BY Zenon, <2>1, FS_Interval
  <2>3. QED
    BY <1>1, <2>2
<1>5. f \in Injection(logged, 0 .. n - 1)
  BY <1>2, <1>3 DEF Injection, IsInjective
<1>6. f \in Surjection(logged, 0 .. n - 1)
  <2> HIDE DEF f
  <2>1. QED
    BY <1>1, <1>4, <1>5, FS_Injection
<1>7. \A k \in 0 .. n - 1 : \E c \in logged : Offset(c) = k
  BY <1>6 DEF Surjection
<1>8. \A c \in logged : Offset(c) < n
  BY <1>1, <1>2
<1>9. QED
  BY <1>1, <1>7, <1>8

\* Where a page begins and ends.
LEMMA PageBounds ==
  ASSUME NEW page \in Nat
  PROVE  /\ page * PageSize \in Nat /\ (page + 1) * PageSize \in Nat
         /\ (page + 1) * PageSize = page * PageSize + PageSize
         /\ (page + 1 - 1) * PageSize = page * PageSize
BY ReportsAssumption

\* The rows that a page shows.
LEMMA PageRows ==
  ASSUME NEW page \in Nat
  PROVE  get_usage_history(page + 1)
           = {c \in logged : Offset(c) \in page * PageSize .. page * PageSize + PageSize - 1}
<1> DEFINE first == page * PageSize
           begin == (page + 1 - 1) * PageSize
           end == (page + 1) * PageSize
<1>1. begin = first /\ end = first + PageSize /\ first \in Nat /\ PageSize \in Nat
  BY Zenon, PageBounds, ReportsAssumption
<1>2. get_usage_history(page + 1) = {c \in logged : Offset(c) \in begin .. end - 1}
  BY DEF get_usage_history
<1> HIDE DEF first, begin, end
<1>3. get_usage_history(page + 1)
        = {c \in logged : Offset(c) \in first .. first + PageSize - 1}
  BY <1>1, <1>2
<1>4. QED
  BY Zenon, <1>3 DEF first

\* A page that has rows behind it is full.
LEMMA FullPage ==
  ASSUME RowsInv, NEW page \in Nat, NEW c \in logged, Offset(c) >= (page + 1) * PageSize
  PROVE  Cardinality(get_usage_history(page + 1)) >= PageSize
<1> DEFINE first == page * PageSize
           items == get_usage_history(page + 1)
           f == [d \in items |-> Offset(d)]
<1>1. first \in Nat /\ PageSize \in Nat \ {0} /\ (page + 1) * PageSize = first + PageSize
  BY Zenon, PageBounds, ReportsAssumption
<1>2. items = {d \in logged : Offset(d) \in first .. first + PageSize - 1}
  BY Zenon, PageRows
<1> HIDE DEF first, items
<1>3. f \in Surjection(items, first .. first + PageSize - 1)
  <2>1. f \in [items -> first .. first + PageSize - 1]
    BY <1>2
  <2>2. ASSUME NEW k \in first .. first + PageSize - 1 PROVE \E d \in items : f[d] = k
    <3>1. Offset(c) \in Nat /\ Offset(c) < Cardinality(logged) /\ Cardinality(logged) \in Nat
      BY OffsetType, OffsetsFill
    <3>2. k \in 0 .. Cardinality(logged) - 1
      BY <1>1, <3>1
    <3>3. PICK d \in logged : Offset(d) = k
      BY <3>2, OffsetsFill
    <3>4. QED
      BY <1>2, <3>3
  <2>3. QED
    BY <2>1, <2>2 DEF Surjection
<1>4. IsFiniteSet(items)
  BY <1>2, FS_Subset DEF RowsInv
<1>5. Cardinality(first .. first + PageSize - 1) = PageSize
  BY <1>1, FS_Interval
<1>6. Cardinality(first .. first + PageSize - 1) <= Cardinality(items)
  <2> HIDE DEF f
  <2>1. QED
    BY <1>3, <1>4, FS_Surjection
<1>7. Cardinality(items) \in Nat
  BY <1>4, FS_CardinalityType
<1>8. QED
  BY <1>1, <1>5, <1>6, <1>7 DEF items

\* No row ever moves to the front: rows that arrive are put before it or behind.
LEMMA OffsetGrows ==
  ASSUME FreshInv, RowsInv, [ReportsNext]_reportsVars, NEW c
  PROVE  Offset(c) <= Offset(c)' /\ Offset(c)' \in Nat
<1>1. RowsInv'
  BY RowsInductive
<1>2. Ahead(c) \subseteq Ahead(c)'
  <2>1. ASSUME NEW d \in Callers, Stamp(d) PROVE Ahead(c) \subseteq Ahead(c)'
    <3>1. d \notin logged /\ logged' = logged
      BY <2>1 DEF Stamp, RowsInv
    <3>2. QED
      BY <2>1, <3>1, StampOrder DEF Ahead
  <2>2. ASSUME order' = order, logged \subseteq logged' PROVE Ahead(c) \subseteq Ahead(c)'
    BY <2>2 DEF Ahead, Newer
  <2>3. ASSUME NEW d \in Callers, Log(d) \/ ReadOrLeave(d) PROVE Ahead(c) \subseteq Ahead(c)'
    BY <2>2, <2>3 DEF Log, ReadOrLeave, reportVars
  <2>4. ASSUME NEW r \in Readers, SummaryRequest(r) PROVE Ahead(c) \subseteq Ahead(c)'
    BY <2>2, <2>4 DEF SummaryRequest, usage_summary, Hit, Miss, CountLogs, Save, SummaryEnds
  <2>5. ASSUME Tick \/ ReadPage \/ UNCHANGED reportsVars PROVE Ahead(c) \subseteq Ahead(c)'
    BY <2>2, <2>5 DEF Tick, ReadPage, reportsVars, reportVars
  <2>6. QED
    BY <2>1, <2>3, <2>4, <2>5 DEF ReportsNext, Usage
<1>3. IsFiniteSet(Ahead(c)) /\ Offset(c) = Cardinality(Ahead(c)) /\ Offset(c) \in Nat
  BY OffsetType
<1>4. (IsFiniteSet(Ahead(c)) /\ Offset(c) = Cardinality(Ahead(c)) /\ Offset(c) \in Nat)'
  BY <1>1, OffsetType, PTL
<1>5. Cardinality(Ahead(c)) <= Cardinality(Ahead(c)')
  BY <1>2, <1>3, <1>4, FS_Subset
<1>6. QED
  BY <1>3, <1>4, <1>5

\* What the client has still to see lies behind the pages it has read.
PagesInv ==
  /\ pager \in [page : Nat, seen : SUBSET Callers, owed : SUBSET Callers]
  /\ pager.owed \subseteq logged
  /\ IF pager.page = 0
       THEN pager.owed \subseteq pager.seen
       ELSE \A c \in pager.owed \ pager.seen : Offset(c) >= pager.page * PageSize

\* The next page contains what is behind the pages read so far, up to its own
\* end, and the page that is not full the rest.
LEMMA PagesInductive ==
  ASSUME FreshInv, RowsInv, PagesInv, [ReportsNext]_reportsVars
  PROVE  PagesInv'
<1>1. logged \subseteq Callers /\ pager.page \in Nat
  BY DEF FreshInv, SummariesTyped, PagesInv
<1>2. CASE ReadPage
  <2> DEFINE page == pager.page
             items == get_usage_history(page + 1)
  <2>1. /\ UNCHANGED <<logged, order>> /\ items \subseteq logged
        /\ pager'.page = IF Cardinality(items) < PageSize THEN 0 ELSE page + 1
        /\ pager'.seen = (IF page = 0 THEN {} ELSE pager.seen) \cup items
        /\ pager'.owed = IF page = 0 THEN logged ELSE pager.owed
        /\ pager' \in [page : Nat, seen : SUBSET Callers, owed : SUBSET Callers]
    <3>1. items \subseteq logged
      BY DEF get_usage_history
    <3> HIDE DEF items
    <3>2. pager' = [page |-> IF Cardinality(items) < PageSize THEN 0 ELSE page + 1,
                    seen |-> (IF page = 0 THEN {} ELSE pager.seen) \cup items,
                    owed |-> IF page = 0 THEN logged ELSE pager.owed]
      BY <1>2 DEF ReadPage, items
    <3>3. QED
      BY <1>1, <1>2, <3>1, <3>2 DEF ReadPage, PagesInv
  <2>2. pager'.owed \subseteq logged
    BY <2>1 DEF PagesInv
  <2>3. ASSUME NEW c \in pager'.owed, c \notin pager'.seen
        PROVE  Offset(c) >= (page + 1) * PageSize
    <3>1. c \in logged /\ c \notin items /\ (page # 0 => c \in pager.owed \ pager.seen)
      BY <2>1, <2>2, <2>3
    <3>2. Offset(c) \in Nat
      BY OffsetType
    <3>3. Offset(c) >= page * PageSize
      <4>1. CASE page = 0
        BY <3>2, <4>1, ReportsAssumption
      <4>2. CASE page # 0
        BY <3>1, <4>2 DEF PagesInv
      <4>3. QED
        BY <4>1, <4>2
    <3> DEFINE first == page * PageSize
    <3>4. Offset(c) \notin first .. first + PageSize - 1
      BY Zenon, <1>1, <3>1, PageRows
    <3>5. first \in Nat /\ (page + 1) * PageSize = first + PageSize /\ Offset(c) >= first
      BY Zenon, <1>1, <3>3, PageBounds
    <3> HIDE DEF first
    <3>6. Offset(c) >= first + PageSize
      BY <3>2, <3>4, <3>5, ReportsAssumption
    <3>7. QED
      BY <3>5, <3>6
  <2>4. IsFiniteSet(items) /\ Cardinality(items) \in Nat
    <3> HIDE DEF items
    <3>1. QED
      BY <2>1, FS_Subset, FS_CardinalityType DEF RowsInv
  <2>5. CASE Cardinality(items) < PageSize
    <3>1. \A c \in logged : ~(Offset(c) >= (page + 1) * PageSize)
      <4> SUFFICES ASSUME NEW c \in logged, Offset(c) >= (page + 1) * PageSize PROVE FALSE
        OBVIOUS
      <4>1. Cardinality(items) >= PageSize
        BY <1>1, FullPage
      <4>2. QED
        BY <2>4, <2>5, <4>1, ReportsAssumption
    <3>2. pager'.owed \subseteq pager'.seen
      BY <2>2, <2>3, <3>1
    <3> HIDE DEF items
    <3>3. QED
      BY <2>1, <2>2, <2>5, <3>2 DEF PagesInv
  <2>6. CASE ~(Cardinality(items) < PageSize)
    <3> HIDE DEF items
    <3>1. pager'.page = page + 1 /\ page + 1 # 0
      BY <1>1, <2>1, <2>6
    <3>2. \A c : Offset(c)' = Offset(c)
      BY <2>1 DEF Offset, Newer
    <3>3. QED
      BY <2>1, <2>2, <2>3, <3>1, <3>2 DEF PagesInv
  <2>7. QED
    BY <2>5, <2>6
<1>3. ASSUME pager' = pager, logged \subseteq logged' PROVE PagesInv'
  <2>1. ASSUME NEW c \in pager.owed \ pager.seen, pager.page # 0
        PROVE  Offset(c)' >= pager.page * PageSize
    <3>1. Offset(c) >= pager.page * PageSize /\ Offset(c) <= Offset(c)' /\ Offset(c)' \in Nat
      BY <2>1, OffsetGrows DEF PagesInv
    <3>2. Offset(c) \in Nat /\ pager.page * PageSize \in Nat
      BY <1>1, OffsetType, PageBounds
    <3>3. QED
      BY <3>1, <3>2
  <2>2. QED
    BY <1>3, <2>1 DEF PagesInv
<1>4. CASE ReportsNext /\ ~ReadPage
  <2>1. ASSUME NEW c \in Callers, Usage(c) PROVE pager' = pager /\ logged \subseteq logged'
    BY <2>1 DEF Usage, Stamp, Log, ReadOrLeave, reportVars
  <2>2. ASSUME NEW r \in Readers, SummaryRequest(r) PROVE pager' = pager /\ logged \subseteq logged'
    BY <2>2 DEF SummaryRequest, usage_summary, Hit, Miss, CountLogs, Save, SummaryEnds
  <2>3. CASE Tick
    BY <1>3, <2>3 DEF Tick
  <2>4. QED
    BY <1>3, <1>4, <2>1, <2>2, <2>3 DEF ReportsNext
<1>5. CASE UNCHANGED reportsVars
  BY <1>3, <1>5 DEF reportsVars, reportVars
<1>6. QED
  BY <1>2, <1>4, <1>5

\* So what a client has still to see is behind its pages in every reachable state.
LEMMA PagesInvariant == ReportsSpec => []PagesInv
<1>1. ReportsInit => PagesInv
  BY DEF ReportsInit, PagesInv, Closed
<1>2. FreshInv /\ RowsInv /\ PagesInv /\ [ReportsNext]_reportsVars => PagesInv'
  BY PagesInductive
<1>3. QED
  BY FreshInvariant, RowsInvariant, <1>1, <1>2, PTL DEF ReportsSpec

\* A client that reads the history until a page is not full has seen every row
\* that was there when it began, for every page size, however many rows arrive in
\* front of and between the rows it has read.
THEOREM PagesMissNothingCorrect == ReportsSpec => []PagesMissNothing
<1>1. PagesInv => PagesMissNothing
  BY DEF PagesInv, PagesMissNothing
<1>2. QED
  BY <1>1, PagesInvariant, PTL

\* Every report and everything it is made from keeps its type.
THEOREM ReportsTypeCorrect == ReportsSpec => []ReportsTypeOK
<1>1. FreshInv /\ RowsInv /\ PagesInv => ReportsTypeOK
  BY DEF FreshInv, SummariesTyped, LedgerInv, RowsInv, PagesInv, ReportsTypeOK, Stages
<1>2. QED
  BY <1>1, FreshInvariant, RowsInvariant, PagesInvariant, PTL
=============================================================================
