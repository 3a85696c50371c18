---------------------------- MODULE MCGeneration ----------------------------
(***************************************************************************)
(* Small workloads for Generation.  Sizes are scaled down so that a limit  *)
(* of 5 characters, a column of at most 8 and calls of 2 to 4 characters   *)
(* stand for 10,000, 2^31 - 1 and texts of up to 100,000.                  *)
(***************************************************************************)
EXTENDS Generation

MCRequest(chars, ssml, free, advanced, xAsync) ==
  [chars |-> chars, ssml |-> ssml, valid |-> TRUE, free |-> free,
   advanced |-> advanced, xAsync |-> xAsync]

\* A plain text, an advanced one, and a text long enough to become a job.
MixedCalls == {"plain", "advanced", "long"}
MixedRequest ==
  [plain    |-> MCRequest(2, FALSE, TRUE, FALSE, FALSE),
   advanced |-> MCRequest(3, TRUE, FALSE, TRUE, FALSE),
   long     |-> MCRequest(4, FALSE, TRUE, FALSE, FALSE)]

\* Two handlers of which the later leaves a column of 5, and a job that never
\* does, whatever overlaps.
LiveCalls == {"first", "second", "forced"}
LiveRequest ==
  [first  |-> MCRequest(3, FALSE, TRUE, FALSE, FALSE),
   second |-> MCRequest(3, FALSE, TRUE, FALSE, FALSE),
   forced |-> MCRequest(2, FALSE, TRUE, FALSE, TRUE)]

\* Two plain texts that fit the limit one after the other, not together.
PairCalls == {"first", "second"}
PairRequest ==
  [first  |-> MCRequest(3, FALSE, TRUE, FALSE, FALSE),
   second |-> MCRequest(3, FALSE, TRUE, FALSE, FALSE)]

OneJobCalls == {"forced"}
OneJobRequest == [forced |-> MCRequest(2, FALSE, TRUE, FALSE, TRUE)]

MCPro == [limit |-> 7, ssml |-> TRUE, voices |-> TRUE]
MCFree == [limit |-> 5, ssml |-> FALSE, voices |-> FALSE]
MCBusiness == [limit |-> Unlimited, ssml |-> TRUE, voices |-> TRUE]

FinitePlans == {"free", "pro"}
FiniteRows == [free |-> MCFree, pro |-> MCPro]
TwoPlans == {"free", "business"}
TwoPlanRows == [free |-> MCFree, business |-> MCBusiness]
FreeOnly == {"free"}
FreeRow == [free |-> MCFree]
=============================================================================
