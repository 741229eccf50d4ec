---------------------------- MODULE FineScreening ----------------------------
(***************************************************************************)
(* Screening runs inside the agent: the generator run_screening of         *)
(* agent/app/services/screening/orchestrator.py, the engine task it starts *)
(* (agent/app/agents/engine.py) and the experts' threads that task waits   *)
(* for (agent/app/agents/base.py), over the gateway of LLMClient, which    *)
(* they share with the other callers of their process: the extraction of   *)
(* resumes in threads, and job descriptions, drafts and replies in the     *)
(* loop.                                                                   *)
(*                                                                         *)
(* All coroutines of the process share one event loop, which runs one of   *)
(* them up to its next suspension.  HyDE, the round table, the             *)
(* recommendation and the other requests call the model without            *)
(* suspending: while such a call is under way only threads move.  What the *)
(* rough screening returns is given (RoughScreening models it), what the   *)
(* experts decide is left out (Roundtable models it).                      *)
(***************************************************************************)
EXTENDS LLMClient, FiniteSets, Sequences, Functions

CONSTANTS
  Requests,        \* POST /screening/run: bounds the runs
  MaxCandidates,   \* MaxCandidates[r]: max_candidates of the configuration of run r
  MaxPool,         \* bounds them
  Experts,         \* the experts of the job's category that ask the model
  MaxTurns,        \* contributions to a discussion at most: rounds times experts
  MaxConcurrency,  \* llm_max_concurrency, permits of the one semaphore
  Uploads,         \* resumes that may be extracted at the same time
  Other,           \* a request for a job description, a draft or the reading of a reply
  None             \* nobody

ASSUME FineAssumption ==
  /\ MaxPool \in Nat /\ MaxCandidates \in [Requests -> 0..MaxPool] /\ MaxTurns \in Nat
  /\ MaxConcurrency \in Nat \ {0}
  /\ IsFiniteSet(Requests) /\ IsFiniteSet(Experts) /\ IsFiniteSet(Uploads)
  /\ {None, Other} \cap Requests = {} /\ None # Other

VARIABLES
  loop,     \* whose coroutine blocks the event loop with a call of the model: a run, Other or None
  sync,     \* where that call is: "ask" for permission, "call"
  slots,    \* free permits of _llm_semaphore
  phase,    \* phase[r]: where the generator of r is
  pool,     \* pool[r]: fine_pool is the candidates 1..pool[r], in this order
  cached,   \* cached[r]: those for whom the request brings a verdict
  task,     \* task[r]: where the engine task of r is
  cand,     \* cand[r]: the candidate the engine is at
  turns,    \* turns[r]: contributions to the discussion still to come
  expert,   \* expert[r][k][e]: where the assessment of candidate k by e is
  queue,    \* queue[r]: outcomes the engine has put into the event queue
  sent,     \* sent[r]: outcomes the pump has sent
  reports,  \* reports[r]: candidates with a report
  session,  \* session[r]: usages of the candidate the engine is at
  usages,   \* usages[r]: usages of the candidates before
  billed,   \* billed[r]: cost events sent
  extract,  \* extract[u]: where the extraction of resume u is
  trial,    \* trial[u]: which of its trials this is
  answered  \* history: answered[r][k], usable answers about candidate k; 0 is HyDE

generator == <<phase, pool, cached, sent, billed>>
engine == <<task, cand, turns, queue, reports, session, usages>>
blocking == <<loop, sync>>
uploads == <<extract, trial>>
vars == <<breakerVars, blocking, slots, generator, engine, expert, uploads, answered>>

Candidates == 1..MaxPool
Outcomes == Candidates \X {"done", "failed"}
Asking == {"ask1", "ask2"}
Calling == {"call1", "call2"}
Holding == Asking \cup Calling \cup {"scored", "failed"}
Places == {"none", "queued", "over", "raised"} \cup Holding

\* retries + 1 of extract_candidate_profile.
Trials == 3

TypeOK ==
  /\ BreakerTypeOK
  /\ loop \in Requests \cup {None, Other} /\ sync \in {"none", "ask", "call"}
  /\ loop = None <=> sync = "none"
  /\ slots \in 0..MaxConcurrency
  /\ phase \in [Requests -> {"new", "hyde", "rough", "pump", "done", "error", "gone"}]
  /\ pool \in [Requests -> 0..MaxPool]
  /\ cached \in [Requests -> SUBSET Candidates]
  /\ task \in [Requests -> {"none", "gather", "discuss", "recommend", "done", "broken"}]
  /\ cand \in [Requests -> 0..MaxPool + 1]
  /\ turns \in [Requests -> 0..MaxTurns]
  /\ expert \in [Requests -> [Candidates -> [Experts -> Places]]]
  /\ queue \in [Requests -> Seq(Outcomes)] /\ sent \in [Requests -> Seq(Outcomes)]
  /\ reports \in [Requests -> SUBSET Candidates]
  /\ session \in [Requests -> Nat] /\ usages \in [Requests -> Nat] /\ billed \in [Requests -> Nat]
  /\ extract \in [Uploads -> {"none", "ask", "call"}] /\ trial \in [Uploads -> 1..Trials]
  /\ answered \in [Requests -> [0..MaxPool -> Nat]]

Init ==
  /\ BreakerInit
  /\ loop = None /\ sync = "none" /\ slots = MaxConcurrency
  /\ phase = [r \in Requests |-> "new"] /\ pool = [r \in Requests |-> 0]
  /\ cached = [r \in Requests |-> {}] /\ task = [r \in Requests |-> "none"]
  /\ cand = [r \in Requests |-> 0] /\ turns = [r \in Requests |-> 0]
  /\ expert = [r \in Requests |-> [k \in Candidates |-> [e \in Experts |-> "none"]]]
  /\ queue = [r \in Requests |-> <<>>] /\ sent = [r \in Requests |-> <<>>]
  /\ reports = [r \in Requests |-> {}]
  /\ session = [r \in Requests |-> 0] /\ usages = [r \in Requests |-> 0]
  /\ billed = [r \in Requests |-> 0]
  /\ extract = [u \in Uploads |-> "none"] /\ trial = [u \in Uploads |-> 1]
  /\ answered = [r \in Requests |-> [k \in 0..MaxPool |-> 0]]

-----------------------------------------------------------------------------
(* The event loop *)

Free == loop = None

Block(r) == loop' = r /\ sync' = "ask"
Unblock == loop' = None /\ sync' = "none"

\* The history of usable answers.
Count(r, k) == answered' = [answered EXCEPT ![r][k] = @ + 1]

-----------------------------------------------------------------------------
(* The generator, up to the engine *)

\* Without tenant or job the run is an error, without candidates it is done; the query is
\* rewritten unless the configuration says no.
Begin(r) ==
  /\ Free /\ phase[r] = "new"
  /\ \E p \in {"error", "done", "rough", "hyde"} :
       /\ phase' = [phase EXCEPT ![r] = p]
       /\ IF p = "hyde" THEN Block(r) ELSE UNCHANGED blocking
  /\ UNCHANGED <<breakerVars, slots, pool, cached, sent, billed, engine, expert, uploads, answered>>

\* _hyde_rewrite falls back on the query when the call fails.
HydeOver(r, usable) ==
  /\ phase[r] = "hyde" /\ phase' = [phase EXCEPT ![r] = "rough"] /\ Unblock
  /\ billed' = IF usable THEN [billed EXCEPT ![r] = @ + 1] ELSE billed
  /\ IF usable THEN Count(r, 0) ELSE UNCHANGED answered
  /\ UNCHANGED <<slots, pool, cached, sent, engine, expert>>

\* The engine goes from candidate k to the next one that has no verdict yet, and reports those
\* it passes without suspending; their outcomes are put into the queue at once.
Replayed(k, j) == [i \in 1..j - k |-> <<k + i - 1, "done">>]

\* The loop over the candidates from k to j, all of them hits, after the outcomes in events and
\* with the reports in known.
Replay(r, k, j, hits, events, known) ==
  /\ k..j - 1 \subseteq hits
  /\ queue' = [queue EXCEPT ![r] = @ \o events \o Replayed(k, j)]
  /\ reports' = [reports EXCEPT ![r] = known \cup k..j - 1]
  /\ cand' = [cand EXCEPT ![r] = j]

\* The experts of the next candidate are started together and wait for permits.
Proceed(r, k, n, hits, events, known) ==
  \E j \in (k..n + 1) \ hits :
    /\ Replay(r, k, j, hits, events, known)
    /\ task' = [task EXCEPT ![r] = IF j > n THEN "done" ELSE "gather"]
    /\ expert' = IF j > n THEN expert ELSE [expert EXCEPT ![r][j] = [e \in Experts |-> "queued"]]

\* A verdict that OverallReport cannot be built from ends the task, and later the run.
Break(r, k, n, hits, events, known) ==
  \E j \in (k..n) \cap hits :
    /\ Replay(r, k, j, hits, events, known)
    /\ task' = [task EXCEPT ![r] = "broken"]
    /\ UNCHANGED expert

Continue(r, k, n, hits, events, known) ==
  Proceed(r, k, n, hits, events, known) \/ Break(r, k, n, hits, events, known)

\* The rough screening runs in a thread and fails, finds nobody, or ranks n candidates.
RoughFails(r) ==
  /\ Free /\ phase[r] = "rough" /\ phase' = [phase EXCEPT ![r] = "error"]
  /\ UNCHANGED <<breakerVars, blocking, slots, pool, cached, sent, billed, engine, expert, uploads, answered>>

RoughOver(r) ==
  /\ Free /\ phase[r] = "rough"
  /\ \E n \in 0..MaxCandidates[r] : \E hits \in SUBSET (1..n) :
       /\ pool' = [pool EXCEPT ![r] = n] /\ cached' = [cached EXCEPT ![r] = hits]
       /\ phase' = [phase EXCEPT ![r] = IF n = 0 THEN "done" ELSE "pump"]
       /\ IF n = 0 THEN UNCHANGED <<queue, reports, cand, task, expert>>
          ELSE Continue(r, 1, n, hits, <<>>, {})
  /\ UNCHANGED <<breakerVars, blocking, slots, sent, billed, turns, session, usages, uploads, answered>>

-----------------------------------------------------------------------------
(* An expert: run_agent in the loop, evaluate_sync in a thread *)

Move(r, k, e, from, to) ==
  /\ expert[r][k][e] = from
  /\ expert' = [expert EXCEPT ![r][k][e] = to]

\* A call that does not work out is repeated once, with another temperature.
AfterTrial == [ask1 |-> "ask2", call1 |-> "ask2", ask2 |-> "failed", call2 |-> "failed"]
Sent == [ask1 |-> "call1", ask2 |-> "call2"]

\* The semaphore.  A faulty variant lets everybody pass.
NoPermitNeeded == UNCHANGED slots
TakePermit == slots > 0 /\ slots' = slots - 1

Acquire(r, k, e) ==
  /\ Free /\ TakePermit /\ Move(r, k, e, "queued", "ask1")
  /\ UNCHANGED <<breakerVars, blocking, generator, engine, uploads, answered>>

\* A refusal by the breaker is a failed trial.
Ask(r, k, e) ==
  /\ expert[r][k][e] \in Asking
  /\ Move(r, k, e, expert[r][k][e],
          IF Allow THEN Sent[expert[r][k][e]] ELSE AfterTrial[expert[r][k][e]])
  /\ UNCHANGED <<breakerVars, blocking, slots, generator, engine, uploads, answered>>

\* The model answers the thread; the result waits for the loop.
ExpertAnswered(r, k, e) ==
  /\ expert[r][k][e] \in Calling
  /\ Move(r, k, e, expert[r][k][e], "scored")
  /\ Answer /\ Count(r, k)
  /\ UNCHANGED <<blocking, slots, generator, engine, uploads>>

\* Garbled is here also the object that no evaluation can be made of.
ExpertFails(r, k, e) ==
  /\ expert[r][k][e] \in Calling
  /\ Move(r, k, e, expert[r][k][e], AfterTrial[expert[r][k][e]])
  /\ Garbled \/ Failure
  /\ UNCHANGED <<blocking, slots, generator, engine, uploads, answered>>

\* Leaving the semaphore, whatever the result.  A faulty variant forgets it after a failure.
PermitAfterSuccess(ok) == IF ok THEN slots + 1 ELSE slots
PermitAfter(ok) == slots + 1

\* The coroutine goes on: the usage is noted in the list of its candidate, which nobody reads any
\* more once another expert's failure has ended that candidate.
Return(r, k, e) ==
  /\ Free
  /\ \/ Move(r, k, e, "scored", "over") /\ slots' = PermitAfter(TRUE)
        /\ session' = IF cand[r] = k THEN [session EXCEPT ![r] = @ + 1] ELSE session
     \/ Move(r, k, e, "failed", "raised") /\ slots' = PermitAfter(FALSE) /\ UNCHANGED session
  /\ UNCHANGED <<breakerVars, blocking, generator, task, cand, turns, queue, reports, usages, uploads,
                 answered>>

-----------------------------------------------------------------------------
(* The engine task *)

\* Assessed by all: there is a discussion or not, then the recommendation.
Gathered(r) ==
  /\ Free /\ task[r] = "gather" /\ \A e \in Experts : expert[r][cand[r]][e] = "over"
  /\ \E t \in 0..MaxTurns :
       /\ turns' = [turns EXCEPT ![r] = t]
       /\ task' = [task EXCEPT ![r] = IF t = 0 THEN "recommend" ELSE "discuss"]
  /\ Block(r)
  /\ UNCHANGED <<breakerVars, slots, generator, cand, queue, reports, session, usages, expert,
                 uploads, answered>>

\* An exception ends the candidate and drops its usages so far.
CandidateFails(r) ==
  /\ session' = [session EXCEPT ![r] = 0]
  /\ Continue(r, cand[r] + 1, pool[r], cached[r], <<<<cand[r], "failed">>>>, reports[r])
  /\ UNCHANGED <<slots, generator, turns, usages>>

\* The first expert to fail raises it; the others go on.
GatherRaises(r) ==
  /\ Free /\ task[r] = "gather" /\ \E e \in Experts : expert[r][cand[r]][e] = "raised"
  /\ CandidateFails(r)
  /\ UNCHANGED <<breakerVars, blocking, uploads, answered>>

\* So does a contribution with sub-scores or evidence of an unexpected type.
TurnRaises(r) == task[r] = "discuss" /\ Unblock /\ Count(r, cand[r]) /\ CandidateFails(r)

\* A contribution that fails leaves the expert's opinion as it was.
TurnOver(r, usable) ==
  /\ task[r] = "discuss"
  /\ turns' = [turns EXCEPT ![r] = @ - 1]
  /\ task' = IF turns[r] = 1 THEN [task EXCEPT ![r] = "recommend"] ELSE task
  /\ Block(r)
  /\ session' = IF usable THEN [session EXCEPT ![r] = @ + 1] ELSE session
  /\ IF usable THEN Count(r, cand[r]) ELSE UNCHANGED answered
  /\ UNCHANGED <<slots, generator, cand, queue, reports, usages, expert>>

\* The usages of a finished candidate.  A faulty variant replaces those of the ones before.
Replacing(old, new) == new
Extended(old, new) == old + new

\* A recommendation that fails is left empty; the candidate is done either way.
RecommendOver(r, usable) ==
  LET new == IF usable THEN session[r] + 1 ELSE session[r]
  IN  /\ task[r] = "recommend" /\ Unblock
      /\ usages' = [usages EXCEPT ![r] = Extended(@, new)]
      /\ session' = [session EXCEPT ![r] = 0]
      /\ IF usable THEN Count(r, cand[r]) ELSE UNCHANGED answered
      /\ Continue(r, cand[r] + 1, pool[r], cached[r], <<<<cand[r], "done">>>>, reports[r] \cup {cand[r]})
      /\ UNCHANGED <<slots, generator, turns>>

SyncOver(r, usable) == HydeOver(r, usable) \/ TurnOver(r, usable) \/ RecommendOver(r, usable)

\* A call from the loop: asking the breaker, then waiting for the model.
SyncAsk(r) ==
  /\ loop = r /\ sync = "ask"
  /\ IF Allow
       THEN sync' = "call" /\ UNCHANGED <<loop, slots, generator, engine, expert, answered>>
       ELSE SyncOver(r, FALSE)
  /\ UNCHANGED <<breakerVars, uploads>>

SyncCall(r) ==
  /\ loop = r /\ sync = "call"
  /\ \/ Answer /\ (SyncOver(r, TRUE) \/ TurnRaises(r))
     \/ (Garbled \/ Failure) /\ SyncOver(r, FALSE)
  /\ UNCHANGED uploads

-----------------------------------------------------------------------------
(* The other callers of the gateway, which take no permit *)

\* ingest_resume, in a thread, starts extract_candidate_profile in another one.
StartExtract(u) ==
  /\ Free /\ extract[u] = "none"
  /\ extract' = [extract EXCEPT ![u] = "ask"]
  /\ UNCHANGED <<breakerVars, blocking, slots, generator, engine, expert, trial, answered>>

ExtractOver(u) == extract' = [extract EXCEPT ![u] = "none"] /\ trial' = [trial EXCEPT ![u] = 1]

\* Every exception, a refusal too, is answered by another trial until they are used up.
TrialFails(u) ==
  IF trial[u] < Trials
    THEN extract' = [extract EXCEPT ![u] = "ask"] /\ trial' = [trial EXCEPT ![u] = @ + 1]
    ELSE ExtractOver(u)

ExtractAsk(u) ==
  /\ extract[u] = "ask"
  /\ IF Allow THEN extract' = [extract EXCEPT ![u] = "call"] /\ UNCHANGED trial ELSE TrialFails(u)
  /\ UNCHANGED <<breakerVars, blocking, slots, generator, engine, expert, answered>>

\* An answer that no profile can be built from is repeated, too.
ExtractCall(u) ==
  /\ extract[u] = "call"
  /\ \/ Answer /\ (ExtractOver(u) \/ TrialFails(u))
     \/ (Garbled \/ Failure) /\ TrialFails(u)
  /\ UNCHANGED <<blocking, slots, generator, engine, expert, answered>>

\* parse_jd, generate_draft and analyze_reply call once, in the loop.
StartOther ==
  /\ Free /\ Block(Other)
  /\ UNCHANGED <<breakerVars, slots, generator, engine, expert, uploads, answered>>

OtherAsk ==
  /\ loop = Other /\ sync = "ask"
  /\ IF Allow THEN sync' = "call" /\ UNCHANGED loop ELSE Unblock
  /\ UNCHANGED <<breakerVars, slots, generator, engine, expert, uploads, answered>>

OtherCall ==
  /\ loop = Other /\ sync = "call" /\ Unblock
  /\ Answer \/ Garbled \/ Failure
  /\ UNCHANGED <<slots, generator, engine, expert, uploads, answered>>

-----------------------------------------------------------------------------
(* The event pump *)

Pump(r) ==
  /\ Free /\ phase[r] = "pump" /\ queue[r] # <<>>
  /\ sent' = [sent EXCEPT ![r] = Append(@, Head(queue[r]))]
  /\ queue' = [queue EXCEPT ![r] = Tail(@)]
  /\ UNCHANGED <<breakerVars, blocking, slots, phase, pool, cached, billed, task, cand, turns,
                 reports, session, usages, expert, uploads, answered>>

\* Whether the pump goes on.  A faulty variant stops with the task.
PumpingWhileRunning(r) == task[r] \notin {"done", "broken"}
Pumping(r) == task[r] \notin {"done", "broken"} \/ queue[r] # <<>>

\* The costs, then done with the reports; or the error of the task.
PumpOver(r) ==
  /\ Free /\ phase[r] = "pump" /\ ~Pumping(r)
  /\ phase' = [phase EXCEPT ![r] = IF task[r] = "done" THEN "done" ELSE "error"]
  /\ billed' = IF task[r] = "done" THEN [billed EXCEPT ![r] = @ + usages[r]] ELSE billed
  /\ UNCHANGED <<breakerVars, blocking, slots, pool, cached, sent, engine, expert, uploads, answered>>

\* The backend gives up the stream: the generator is closed where it is suspended, the task and
\* the threads it waits for go on.
Disconnect(r) ==
  /\ Free /\ phase[r] \in {"rough", "pump"}
  /\ phase' = [phase EXCEPT ![r] = "gone"]
  /\ UNCHANGED <<breakerVars, blocking, slots, pool, cached, sent, billed, engine, expert, uploads, answered>>

-----------------------------------------------------------------------------

RunStep(r) ==
  \/ Begin(r) \/ RoughFails(r) \/ RoughOver(r)
  \/ Gathered(r) \/ GatherRaises(r) \/ SyncAsk(r) \/ SyncCall(r)
  \/ Pump(r) \/ PumpOver(r)

ExpertStep(r, k, e) ==
  \/ Acquire(r, k, e) \/ Ask(r, k, e) \/ ExpertAnswered(r, k, e) \/ ExpertFails(r, k, e)
  \/ Return(r, k, e)

ExtractStep(u) == ExtractAsk(u) \/ ExtractCall(u)
OtherStep == OtherAsk \/ OtherCall

Cooling ==
  CoolDown /\ UNCHANGED <<blocking, slots, generator, engine, expert, uploads, answered>>

Next ==
  \/ \E r \in Requests : RunStep(r) \/ Disconnect(r)
  \/ \E r \in Requests, k \in Candidates, e \in Experts : ExpertStep(r, k, e)
  \/ \E u \in Uploads : StartExtract(u) \/ ExtractStep(u)
  \/ StartOther \/ OtherStep
  \/ Cooling

\* Every call of the model ends (llm_timeout_seconds) and the threads are scheduled.  The loop runs
\* its coroutines, and the semaphore its waiters, first come first served: whoever is ready again
\* and again gets his turn, however many other requests there are.
Fairness ==
  /\ \A r \in Requests : SF_vars(RunStep(r))
  /\ \A r \in Requests, k \in Candidates, e \in Experts : SF_vars(ExpertStep(r, k, e))
  /\ WF_vars(OtherStep)

Spec == Init /\ [][Next]_vars
FairSpec == Spec /\ Fairness
-----------------------------------------------------------------------------
(* Properties *)

Assessments == Requests \X Candidates \X Experts
At(a) == expert[a[1]][a[2]][a[3]]
Holders == {a \in Assessments : At(a) \in Holding}
Extracting == {u \in Uploads : extract[u] # "none"}

\* Calls of the model under way, by caller.
ExpertCalls == Cardinality({a \in Assessments : At(a) \in Calling})
LoopCalls == IF sync = "call" THEN 1 ELSE 0
ExtractCalls == Cardinality({u \in Uploads : extract[u] = "call"})
InFlight == ExpertCalls + LoopCalls + ExtractCalls

\* However many runs, failed candidates and abandoned runs there are, from them and the loop the
\* provider sees one call more than the semaphore permits at most: calls from the loop take no
\* permit, but it can make one at a time.  The extraction of a resume takes none either and adds a
\* call, so the permits alone do not bound what the process sends, as the docstring in engine.py:28
\* has it.  They are neither lost nor given back twice on the way.
UpstreamLoad ==
  /\ ExpertCalls + LoopCalls <= MaxConcurrency + 1
  /\ InFlight <= MaxConcurrency + 1 + Cardinality(Extracting)
  /\ Cardinality(Holders) = MaxConcurrency - slots

\* A run that ends with done has sent one outcome for each ranked candidate, in their order, and
\* its reports are those of the candidates it sent as done, among them all that had a verdict.
DoneIsComplete ==
  \A r \in Requests : phase[r] = "done" =>
    /\ sent[r] = [k \in 1..pool[r] |-> <<k, IF k \in reports[r] THEN "done" ELSE "failed">>]
    /\ reports[r] \subseteq 1..pool[r] /\ cached[r] \subseteq reports[r]

SumOver(f, S) == FoldFunctionOnSet(+, 0, f, S)

\* Of the usable answers to a run those that no usage is kept of: answers about candidates it has
\* not assessed to the end.
Assessed(r) == reports[r] \ cached[r]
Usable(r) == SumOver(answered[r], 0..MaxPool)
Lost(r) == SumOver(answered[r], Candidates \ Assessed(r))

\* A run that ends with done has billed all usable answers, once each, except those it lost with
\* failed candidates, the late ones of their experts included: none about an assessed candidate or
\* the rewriting is missing.  An answer that is not usable (Garbled) cost as much, whomever it was
\* about, and is billed nowhere.  REQUIREMENTS_V5.md:26 promises that every call is recorded: the
\* code falls short of it by Lost and by those.
CostsExplained == \A r \in Requests : phase[r] = "done" => Usable(r) = billed[r] + Lost(r)

\* Every run that begins ends, its engine task too, whether or not its client is still there: no
\* order of failures leaves the engine waiting for an expert or an expert for a permit.
Ended(r) == phase[r] \in {"done", "error", "gone"} /\ task[r] \in {"none", "done", "broken"}
EveryRunEnds == \A r \in Requests : phase[r] # "new" ~> Ended(r)
-----------------------------------------------------------------------------
(* The inductive invariant behind the invariants and BreakerAgrees *)

\* The engine task exists once the generator has ranked candidates, and is at one of them without
\* a verdict until it is past the last; the generator is done when there was none, or when it has
\* sent everything.
Stage(r) ==
  /\ phase[r] \in {"new", "hyde", "rough"} => task[r] = "none"
  /\ phase[r] = "pump" => task[r] # "none"
  /\ phase[r] = "done" => task[r] \in {"none", "done"} /\ queue[r] = <<>>
  /\ task[r] = "none" => /\ pool[r] = 0 /\ cand[r] = 0 /\ cached[r] = {} /\ reports[r] = {}
                         /\ queue[r] = <<>> /\ sent[r] = <<>>
  /\ task[r] # "none" => cand[r] \in 1..pool[r] + 1 /\ cached[r] \subseteq 1..pool[r]
  /\ task[r] \in {"gather", "discuss", "recommend"} => cand[r] \in 1..pool[r] \ cached[r]
  /\ task[r] = "discuss" => turns[r] > 0
  /\ task[r] = "done" => cand[r] = pool[r] + 1

\* What a run that has reported the candidates in S says of candidate k once it is past it.
Verdict(S, k) == <<k, IF k \in S THEN "done" ELSE "failed">>

\* A sequence of the outcomes of the candidates after m, in their order.
Lined(q, m, S) == \A i \in 1..Len(q) : q[i] = Verdict(S, m + i)

\* What was sent and what waits to be sent are the outcomes of the candidates passed.
InOrder(r) ==
  task[r] # "none" =>
    /\ Len(sent[r]) + Len(queue[r]) = cand[r] - 1
    /\ Lined(sent[r], 0, reports[r]) /\ Lined(queue[r], Len(sent[r]), reports[r])
    /\ reports[r] \subseteq 1..cand[r] - 1
    /\ cached[r] \cap (1..cand[r] - 1) \subseteq reports[r]

\* No expert has looked at a candidate the engine has not come to.
NotYet(r) == \A k \in Candidates, e \in Experts : k > cand[r] => expert[r][k][e] = "none"

\* Experts whose answer about the candidate waits for the loop.
Waiting(r) == {e \in Experts : cand[r] \in Candidates /\ expert[r][cand[r]][e] = "scored"}

\* The rewriting of the query is billed at once, the reports at the end; the answers about the
\* candidate the engine is at are in its session or wait, and there are none about later ones.
Costs(r) ==
  /\ billed[r] = answered[r][0] + IF phase[r] = "done" THEN usages[r] ELSE 0
  /\ usages[r] = SumOver(answered[r], Assessed(r))
  /\ task[r] = "none" => session[r] = 0
  /\ task[r] = "gather" => session[r] + Cardinality(Waiting(r)) = answered[r][cand[r]]
  /\ task[r] \in {"discuss", "recommend"} =>
       session[r] = answered[r][cand[r]] /\ \A e \in Experts : expert[r][cand[r]][e] = "over"
  /\ \A k \in Candidates : k > cand[r] => answered[r][k] = 0

\* Nobody's answer about an assessed candidate is still to come.
Settled(r) == \A k \in Assessed(r), e \in Experts : expert[r][k][e] = "over"

FineInv ==
  /\ TypeOK /\ BreakerAgrees /\ UpstreamLoad
  /\ \A r \in Requests : Stage(r) /\ InOrder(r) /\ NotYet(r) /\ Settled(r) /\ Costs(r)
=============================================================================
