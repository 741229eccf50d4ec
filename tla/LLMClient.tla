------------------------------ MODULE LLMClient ------------------------------
(***************************************************************************)
(* The gateway every call of a language model passes:                      *)
(* agent/app/infra/llm_client.py, one client per process.  It is called    *)
(* from the event loop (HyDE, round table and recommendation of a run;     *)
(* parse_jd, generate_draft and analyze_reply), from the threads of the    *)
(* expert assessments, and from the threads that extract resumes.          *)
(*                                                                         *)
(* One chat is up to three attempts with pauses, for which nothing but the *)
(* last outcome is recorded: a chat is a state of its caller that begins   *)
(* with Ask and ends with an Answer or a Failure.  The API key is set.     *)
(***************************************************************************)
EXTENDS Naturals

CONSTANT FailMax  \* llm_breaker_fail_max: failed chats in a row that open the breaker

ASSUME FailMaxAssumption == FailMax \in Nat \ {0}

VARIABLES
  failures,  \* _consecutive_failures, counted up to FailMax: what lies above makes no difference
  breaker    \* _opened_at: zero, less than reset_timeout ago, or longer ago

breakerVars == <<failures, breaker>>

BreakerTypeOK ==
  /\ failures \in 0..FailMax
  /\ breaker \in {"closed", "cooling", "cooled"}

BreakerInit == failures = 0 /\ breaker = "closed"

\* Once it has cooled everybody may pass, not just one probe.
Allow == breaker # "cooling"

RecordSuccess == failures' = 0 /\ breaker' = "closed"

RecordFailure ==
  /\ failures' = IF failures < FailMax THEN failures + 1 ELSE FailMax
  /\ breaker' = IF failures' = FailMax THEN "cooling" ELSE breaker

\* chat_json: an answer that is no JSON object is an error to the caller, after chat has recorded
\* a success and counted what it cost.
Answer == RecordSuccess
Garbled == RecordSuccess
Failure == RecordFailure

\* reset_timeout seconds have passed.
CoolDown == breaker = "cooling" /\ breaker' = "cooled" /\ UNCHANGED failures

\* The breaker is open exactly after FailMax failed chats in a row: answers of calls sent before
\* it opened, arriving while it is open, close it and clear the count together.
BreakerAgrees == breaker # "closed" <=> failures = FailMax
=============================================================================
