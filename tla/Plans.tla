------------------------------- MODULE Plans -------------------------------
(***************************************************************************)
(* The plan gates of app/services/tts_service.py: what a plan row allows a *)
(* POST /tts request to do.  A plan is a record                            *)
(*   limit    monthly_char_limit, Unlimited (-1) for no limit              *)
(*   ssml     allows_ssml, which also gates every advanced option          *)
(*   voices   allows_all_voices                                            *)
(* and a request is a record                                               *)
(*   chars    len(req.text)                                                *)
(*   ssml     req.ssml                                                     *)
(*   valid    validate_ssml accepts the text                               *)
(*   free     req.voice is one of FREE_VOICES                              *)
(*   advanced a format other than mp3, a pitch or a volume is asked for    *)
(*   xAsync   the X-Async header is "true"                                 *)
(***************************************************************************)
EXTENDS Integers

Unlimited == -1

FREE_CHAR_LIMIT == 10000

ASYNC_CHAR_THRESHOLD == 5000

\* The set of plan records with the given character limits.
PlanRecord(limits) ==
  [limit : limits, ssml : BOOLEAN, voices : BOOLEAN]

RequestRecord(sizes) ==
  [chars : sizes, ssml : BOOLEAN, valid : BOOLEAN, free : BOOLEAN,
   advanced : BOOLEAN, xAsync : BOOLEAN]

\* What the gates see when the organisation has no plan row.
NoPlan == [limit |-> FREE_CHAR_LIMIT, ssml |-> FALSE, voices |-> FALSE]

\* The three rows the first migration inserts.
Seeded ==
  [free     |-> [limit |-> 10000, ssml |-> FALSE, voices |-> FALSE],
   pro      |-> [limit |-> 500000, ssml |-> TRUE,  voices |-> TRUE],
   business |-> [limit |-> Unlimited, ssml |-> TRUE,  voices |-> TRUE]]

\* (First, without the characters of the call itself.)
enforce_quota_used(plan, used, chars) ==
  \/ plan.limit = Unlimited
  \/ used <= plan.limit
enforce_quota(plan, used, chars) ==
  \/ plan.limit = Unlimited
  \/ used + chars <= plan.limit

enforce_voice_access(plan, request) == plan.voices \/ request.free

\* One column stands for every advanced feature.
enforce_plan_feature(plan, wanted) == wanted => plan.ssml

validate_ssml(request) == request.ssml => request.valid

\* The gates of generate_tts, in the order of the code; all must pass.
Gates(plan, used, request) ==
  /\ enforce_plan_feature(plan, request.ssml) /\ validate_ssml(request)
  /\ enforce_voice_access(plan, request)
  /\ enforce_plan_feature(plan, request.advanced)
  /\ enforce_quota(plan, used, request.chars)

\* The chars_remaining of a summary; Unlimited stands for null.
chars_remaining(plan, used) ==
  IF plan.limit = Unlimited THEN Unlimited
  ELSE IF plan.limit > used THEN plan.limit - used ELSE 0

\* text_to_speech answers with a job instead of audio.
ShouldAsync(request, threshold) == request.xAsync \/ request.chars > threshold
=============================================================================
