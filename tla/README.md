# HireFlow, specified

TLA+ specifications of HireFlow, the resume screening service in `src/`: a Go backend
(`src/backend`), a stateless Python agent (`src/agent`) and a React front end (`src/frontend`).
Every definition is translated from the source; `PROJECT.json` maps it to its lines.

## 1. The system

A tenant's HR users upload resumes, describe jobs, and start *screening tasks*. The backend keeps
everything in MySQL, hands tasks to a pool of goroutines over a bounded channel, streams the
candidates' data to the agent and the agent's events through Redis pub/sub to the browser (SSE).
The agent ranks the candidates (hard filter, BM25 and vectors, re-ranking), lets four experts assess
those on top, has them discuss when they disagree, and streams one report per candidate.

| Component | State | Operations | Hard behaviour | Correct when |
|---|---|---|---|---|
| Screening task engine (`service/screening_service.go`, `repository/screening.go`) | `screening_tasks`, `match_results`, the channel, in-memory checkpoints, worker locals | Submit, RetryTask, worker/process, saveCheckpoint, persistResults, failTask, publish | workers race with requests and with users' edits; row writes and publications are lost; the process dies with queue and checkpoints | each task is processed once, settles or is known to be stranded; what clients are told agrees with rows; a cached verdict is about what it claims |
| Event stream (`handler/screen_handler.go` Events, `api/client.ts`, `Screening.tsx`) | subscription, page state | subscribe, heartbeat, event, close | subscription races with publication; no replay | a page ends its running state when the task ends |
| Interview invitations (`service/interview_service.go`, `pkg/redisclient`, agent `interview/`) | Redis guard `idem:interview:*`, mail sent | Draft, Send | ambiguous failures of a call with an effect, crash inside the guard | one mail per candidate and job in 24 h, and a failed one can be repeated |
| Candidate ingestion (`service/candidate_service.go`, agent `parsing/`, Chroma) | candidate rows, vectors | Upload, Delete, background vectorisation | three stores without a transaction, background work after the answer | vectors belong to existing rows and to their current resume |
| Jobs and overrides (`service/job_service.go`) | job row | Create, UpdateOverrides, Delete | edits during a run | see verdict cache |
| Fine screening (`screening/orchestrator.py`, `agents/engine.py`, `agents/base.py`) | one event loop, a semaphore, per run a generator, an engine task, an event queue, threads | run_screening, screen_candidates, run_agent | threads and coroutines of several runs; one expert's failure leaves the others behind; clients leave; calls from the loop block everybody | a run ends; what it sends is complete and in order; its share of the provider's load is bounded; costs are billed once |
| LLM client (`infra/llm_client.py`) | breaker (failures, opened at) | chat, chat_json | shared breaker, concurrent callers with and without a permit, late answers | it opens after `fail_max` failed chats in a row and closes on an answer |
| Round table (`agents/moderator.py`, `agents/experts.py`, `agents/registry.py`) | scores, stances, transcript | detect_divergence, run_discussion, arbitrate, StabilityAnalyzer | failing and odd answers, convergence, reachability of branches | the transcript can be audited, the result lies within what was said |
| Rough screening (`screening/hybrid_screener.py`, `hard_filter.py`, `bm25_index.py`, `reranker.py`, `parsing/skill_graph.py`) | merged recall of a run | screen_batch, hard_filter, fusion, finalize_ranking, match_skills | batches, two recall paths over different sets, modes and thresholds, fallbacks | who is ranked and who is not is so for a reason |
| Models (`infra/embedding_client.py`) | the embedder, its name, the reranker, locks, tag vectors | get_embedder, get_reranker, embed_texts, rerank | double-checked loading, fallback, one inference lock, restarts over a collection that stays | one model serves a process, and threads do not disturb each other |
| Feedback, rate limit, accounts, migrations, metrics, text extraction, JD parsing, routing, other pages | - | - | - | not modelled, see section 7 |

How they interact: the browser calls the backend (REST), the backend calls the agent (JSON and NDJSON
over HTTP), the agent calls the LLM, the embedding service and Chroma and never the database; workers
reach browsers only through Redis.

## 2. Modules

- `TaskLifecycle`: what the service promises about a task. A phase per task (`none`, `pending`,
  `running`, `succeeded`, `failed`, and `stranded`: open for ever) and the terminal event its channel
  was told. It has no queue, worker or agent.
- `Screening`: the task engine. One tenant, one job (rows, cache and fingerprints are keyed by both).
  `status` is the column of `screening_tasks`; `queue` the channel; `request[t]` the HTTP request that
  creates task *t* while it is between insert, send and checkpoint store; `pc`, `owns` and `run` are the
  workers inside `process()` with their locals; `checkpoints` is the `sync.Map`; `rows` is
  `match_results`; `resume` and `config` are what users edit; `told[t]` is the terminal event that
  reached the channel of *t*. A verdict is reduced to what it was computed from (`content`, `config`)
  and whether a checkpoint carried it (`carried`). `orphans` is a history variable:
  tasks the code has stranded.
- `ScreeningPage`: the screening page (`Screening.tsx`, `streamScreenEvents` of `client.ts`) and the
  SSE handler, composed with `TaskLifecycle` by `INSTANCE`: since `Screening` implements that, the page
  is checked against everything the engine may do to a task and its channel, without its queue and
  workers. `spinner`, `error`, `task`, `active` and `results` are the React state (`spinner` names the
  submission that turned it on), `stream[t]` is one SSE connection from the moment its `fetch` starts,
  `inbox[t]` what Redis handed to its subscription, `loads` the result queries under way, `stored` and
  `rows` what the upserts did to `match_results`. Tasks of the same job may come from somebody else.
- `InterviewSend`: the interview page (`Interview.tsx`), `InterviewService.Send` with the Redis guard of
  `redisclient`, and the agent's `send_interview`. An invitation is a candidate and a job. `form` and
  `draft` are the page's; `step[r]` is where request *r* is in `Send`, `key[r]` the invitation of its
  guard (the form's) and `to[r]` the one it mails (the draft's); `guard[i]` is the token under
  `idem:interview:*`; `mailed` and `forgotten` are history: mails delivered, and keys that expired or
  were lost.
- `CandidateIngest`: uploads and deletions across MySQL (`candidate_service.go`, `CandidateRepo`), the
  agent's parsing and Chroma. Every upload draws a fresh candidate id and has one resume, so ids, resumes
  and chunks are all named by their upload: `row[e]` has the id of one upload and the resume of a later
  one; `vectors` are the uploads with chunks in Chroma; `job[u]` is the vectorisation, before or after the
  answer according to `background`; `cleaning` the ids between the deletion of a row and of its vectors.
  `written`, `deleted` and `cleaned` are history.
- `LLMClient`: the breaker, with the outcomes of a chat as operators for its callers. The three attempts
  within one chat and the backup models record nothing until the last, so a chat is a state of its caller.
- `FineScreening` extends it with all callers of the client in the process: `loop` says whose coroutine
  blocks the event loop with a call of the model (a run with HyDE, a discussion or a recommendation; `Other`
  for a job description, a draft or a reply), `extract[u]` and `trial[u]` are the extraction of a resume in
  its own thread, which repeats a failed call twice and takes no permit, `slots` is the semaphore,
  `phase[r]` the generator of run *r*, `task[r]` and `cand[r]` its engine task, `expert[r][k][e]` a
  coroutine of `run_agent` with its thread, `queue` and `sent` the event queue and what left the pump,
  `session`, `usages` and `billed` the three places a usage passes. Candidates with a cached verdict are
  passed without suspending (`Replay`), and `Continue` is the loop body up to the next candidate that needs
  the model. `answered` is history.
- `WorkHistory`: what `StabilityAnalyzer` and the hard filter read out of a work history, as functions.
- `Roundtable` extends it: one candidate from the experts' answers to the overall score. `before` and
  `score` are the two dictionaries of a round (`current`, `next_round`), `turns` is the transcript; of a
  text only the round it was written in is kept (`said`). Scores and confidences are what the model may
  answer: numbers in or out of range, NaN, or none. NaN becomes 100 points as a score (`Clamp`), but stays
  NaN as a confidence (`ParsedConfidence`), and then the denominator of the mean is no positive number
  (`Muddled`).
- `HardFilter` extends `WorkHistory`: `match_skills` and the hard filter, as functions over names and tags.
- `RoughScreening` extends it: one request of batches through `screen_batch` to the final ranking. What
  Chroma and BM25 find and what models score is chosen; fusion, merge, cuts and thresholds are computed.
- `ModelServing`: threads that load, share and use the two models. `at[t]` is where thread *t* is,
  `model[t]` the model it got, `branch[t]` the backend name it read, `collection` the model whose vectors
  fixed the dimension of Chroma's collection; `crossed` and `excused` are history: calls that met another
  thread in a model, and calls that met a failure.
- `MC*`: constants and symmetry sets for TLC. `*Proofs`: the theorems (section 6).

`Screening` takes the agent as the events it may send; `FineScreening` is the agent between its rough
ranking and those events, `RoughScreening` the ranking before it, `Roundtable` what happens to one
candidate within it. They are checked apart: the interfaces are the ranked candidates (any
number up to `MaxCandidates`), the scores of one candidate (which decide nothing about a run's control
beyond the number of turns), and the outcomes of a run.

A step of the model is what runs between two points at which another goroutine or user may see or
change shared state: one database statement, one channel operation, one publication, one event of the
agent's stream. The agent appears as the events it may send for a candidate: it replays a verdict it
was given (`ReplayCandidate`), assesses one it has none for (`AssessCandidate`), gives up on one
(`CandidateFails`), ends, errs or breaks off. Its ranking is any subset of the pool.

What can fail in `Screening`: every read (`LoadFails`, an unreadable cache counts as empty), the two status
writes (both ignore the error), the upsert (`PersistFails`), every publication (the result is ignored and
the context may have expired), the stream, and the process (`Restart`, the same for SIGTERM as for a crash
because `main` never calls `Stop`, and because nothing scans for open rows at start-up). In `ScreeningPage`:
answers to POSTs are lost although the server acted, streams are refused, break or end early, events find
nobody subscribed, result queries overtake each other, the server restarts. In `InterviewSend`: Redis may
set the key and lose its answer, the mail may be delivered and reported as failed, the agent's answer may be
lost while it works on, the page may stop waiting and send again, the release may not reach Redis, the
backend may crash anywhere, Redis may forget a key. In `CandidateIngest`: extraction, vectorisation, every
database call and the clean-up of vectors may fail, answers may be lost, and two uploads and a deletion of
one candidate interleave statement by statement. In `FineScreening`: calls are refused, fail, or answer with
something that is no JSON object; the rough screening fails; a cached verdict does not parse; a contribution
raises and ends its candidate; clients leave while the engine goes on. In `Roundtable`: experts answer with
numbers out of range, NaN or none, and contributions fail. In `RoughScreening`: there is no query vector, no
recall, no cross-encoder, no embedding model. In `ModelServing`: loading and inference fail, tokenizers
report races, the process restarts.

## 3. Properties

`TypeOK` in each; for `Screening`:

- `TaskInOnePlace`: a task is with at most one worker, at most once in the channel, and never two of
  worker, channel and a request about to send it. `process()` uses no lock because of it.
- `NoTaskLost`: an open row has somebody who will work on it or is one of those the code strands
  (refused with 42901 after its insert, open at a restart, final write failed).
- `OrphansStay`: and those never change again, since `RetryTask` refuses open rows.
- `AnnouncedIsSettled`: a client that was told `done` reads `succeeded`; one told `error` reads
  `failed`, or the worker has only that write left.
- `DoneAfterResults`: everything a run reported has its row when `done` goes out.
- `CacheTellsTruth`, `ReportsAreCurrent`: the fingerprints of a row are those of the inputs of its
  verdict, and a run reports on what it loaded, whatever users edit meanwhile, as long as the verdict
  never travelled through a checkpoint.
- `ImplementsLifecycle`: the engine refines `TaskLifecycle`.
- `EveryTaskSettles`: every open task settles or is stranded.

For `ScreeningPage`:

- `SpinnerHasCause`: a running page has a POST or a stream that can still end its running state; a
  broken stream, whose close the page ignores, is the one exception.
- `OneStream`: two tasks never drive one page, unless the user submits while a retry is being posted or
  the other way round (`overlapped`): both answers then write the same `cancelRef`, and one stream is
  out of reach.
- `RetryMeansFailed`: the retry button refers to a task that was announced as failed.
- `ResultsComplete`: after `done` the page has a row for every candidate the task reported; one that is
  not shown was filed under another task of the same job meanwhile.

For `InterviewSend`:

- `GuardIsExclusive`: one request at a time acts under an invitation's guard while Redis keeps its key.
- `HeldForAReason`: a key keeps others out because the invitation was or is being sent, or because of a
  lost answer or a crash; a failed invitation can be repeated.
- `SentMeansMailed`: "sent" is true.
- `RepeatedMailsExplained`: two mails for one invitation mean that a draft was sent under another
  invitation's guard, that an error was reported for a mail that went out, or that the key was gone.
- `OnlyOwnGuardReleased`: giving back a guard never takes one that a later request got.

For `CandidateIngest`:

- `IdentityKept`: a candidate keeps its id until it is deleted, no other candidate has it or gets it, and it
  does not come back afterwards; match results and checkpoints refer to it.
- `SuccessIsStored`: an upload that reports success was in its candidate's row, unless the row it found
  was deleted meanwhile.
- `VectorsExplained`: vectors belong to a candidate or an upload under way, or were left behind by a
  failed upload, a repeated one, or a deletion that did not clean up or was overtaken.

For `FineScreening` (the first over `LLMClient` too):

- `UpstreamLoad`: from experts and the event loop the provider sees at most one call more than the semaphore
  permits, and free permits and holders add up, whatever failed or was abandoned: calls from the loop take
  no permit, but block each other. The extraction of a resume takes none and blocks nobody: with it the
  process sends one more call per resume under extraction, which nothing bounds but the number of uploads.
- `DoneIsComplete`: `done` comes after one outcome for every ranked candidate, in rank order, and its
  reports are those of the candidates sent as done, cached ones included.
- `CostsExplained`: what `done` bills is every usable answer of the run, once, except those about candidates
  that failed (`Lost`), answers of their experts that come late included. Answers that cost and are not
  usable (`Garbled`: no JSON object, or one no evaluation can be made of) have no usage, whomever they are
  about, and are outside of the equation. Both are costs the code does not record, see below.
- `EveryRunEnds`: generator and engine task end, whoever fails and whether or not the client stays.

For `Roundtable` and `WorkHistory`:

- `RecordIsTrue`: read back alone, the transcript leads each expert from its initial to its final score, one
  turn a round, only revisions written in that round change anything, and it says why the discussion ended.
- `OverallWithinExperts`: the overall score lies between scores of those who have weight, unless somebody's
  confidence, weight or not, is NaN; then it is 0, whatever was said.
- `HistoryReadRight`: the analyzer's points follow from the dates, except for the named misreadings: a job
  without a start (`Dated`), a job inside a longer one (`Nested`), one that lasts while another begins after
  the analyzer's present (`Overtaken`; `AnalyzerNow` is written into `experts.py:129`).

For `RoughScreening` and `HardFilter`:

- `RankedForAReason`: whoever is ranked fits the job or was recalled by vectors (which no filter stands
  before), and passed the threshold of the scale its score was measured in, except where the cross-encoder
  was to measure and could not, or the mode is unknown.
- `LeftOutForAReason`: whoever is not ranked does not fit, repeats a name without a rule, was recalled by
  no path while others of the batch were, had a full top N or a full ranking ahead, or missed the threshold;
  nobody is lost between batches.

For `ModelServing`:

- `OneModelServes`: one embedding model serves a process however many threads meet none; name, vectors and
  tags agree, and only a collection of an earlier process may differ.
- `NoneForAReason`: a call is answered with nothing after a failure of a model or in the moment before
  BGE-M3 has its name, never because of another thread.

Two statements of the documentation do not hold and have a run each that shows it: `VerdictsAreCurrent` and
`DevilIsHeard` (`findings` in `PROJECT.json`). Further divergences met on the way have no run of their own:

- `error` reaches the page before its row says `failed`; a retry in between is refused with 40902
  (`AnnouncedIsSettled` allows it).
- A worker may take a retried task before the request has stored the checkpoint; its candidates are done
  again.
- A page that subscribes after the terminal event waits for ever, there is no replay (the stream remains a
  cause of the spinner in `SpinnerHasCause`); REQUIREMENTS_V5.md:106 has "订阅 Pub/Sub + 回放 history".
- REQUIREMENTS_V5.md:264 promises "SIGTERM 优雅退出（在途任务 drain）"; `main` never calls `Stop`, and
  queued and running tasks are stranded (`NoTaskLost`, `OrphansStay` count them).
- REQUIREMENTS_V5.md:26 promises "**每次调用落 cost_records**", every call. Usages of failed candidates are
  dropped (`engine.py:97`: the exception leaves them in `_screen_one`), and of an answer that cannot be used
  nobody gets the usage (`chat_json` and `_parse` raise).
  `CostsExplained` says how far the code falls short: what it passes for is not the promise.
- The docstring of `engine.py:28` limits all LLM requests in flight ("限制同时在飞的 LLM 请求数"); calls from
  the loop and from extractions do not take the semaphore (`UpstreamLoad`).
- A confidence of NaN makes the overall score 0 (`OverallWithinExperts`). The agent writes it as `NaN`,
  which the backend cannot read: it skips that line (`screening_service.go:338`), and the task succeeds
  without the candidate.
- REQUIREMENTS_V5.md:159 lets a discussion converge when "分数变化 `Δ ≤ 3`"; the code asks for a second round
  first (`Converged`). REQUIREMENTS_V5.md:143 has the devil's advocate speak at 80 and more
  (`DevilIsHeard`).
- The interview page sends its draft under the guard of a form changed since (`RepeatedMailsExplained`).
- A candidate whose vectors are pending is not recalled by them, and the backend keeps no raw text
  (`parsing.py:72` removes it from the answer), so `resume_text` is empty and BM25 finds nobody either;
  BM25Plus scores all documents or none. The docstring of `parsing.py:45` counts on it ("粗筛有 BM25 兜底").
- `chunk_text` (`vectorization.py:16`) takes 0 as its default overlap, so `CHUNK_OVERLAP` has no effect.

## 4. Runs and bounds

| Run | Instance | Shows |
|---|---|---|
| `screening` | 2 tasks, 2 workers, 1 candidate, 2 contents (and a legacy one), 2 configurations, a channel of 1 | all safety properties and the refinement, over about 620 000 states up to symmetry |
| `screening_live` | 2 tasks, 2 workers, 1 candidate, 1 content, 1 configuration, a channel of 1 | `EveryTaskSettles` under fairness, without symmetry |
| `verdicts_current` | 2 tasks, 1 worker, 2 contents | a retry after a re-upload answers for the old resume |
| `page` | 3 tasks, 1 candidate | the page's safety properties, over about 2.2 million states up to symmetry |
| `interview` | 2 invitations, 2 pages, 2 requests | the invitations' safety properties, over about 680 000 states up to symmetry |
| `ingest` | 4 uploads, 2 candidates, both vectorisation modes | the safety properties of ingestion, over about 300 000 states up to symmetry |
| `fine` | 2 runs of 1 candidate, 2 experts, 1 permit, 1 extraction, other callers in the loop, a breaker of 2 failures, 1 turn | `UpstreamLoad` and types, over about 2.4 million states up to symmetry |
| `fine_live` | 1 run of 2 candidates, 2 experts, 1 permit, other callers in the loop, a breaker of 2 failures, 2 turns, with fairness | the order, completeness and costs of a run, and that it ends, over about 155 000 states |
| `roundtable` | 2 experts and the analyzer, 3 numbers, NaN and no number as scores, 2 numbers and NaN as confidences, 2 rounds, 9 histories, 5 overrides | the properties of the round table, over about 480 000 states |
| `devil_is_heard` | the same | everybody at 80 or above, and no devil's advocate |
| `rough` | 3 candidates and a stranger, up to 2 batches, 2 jobs, 5 settings, 2 scores | the properties of the rough screening, over about 1.1 million states |
| `models` | 2 threads | the properties of the models, over about 440 000 states up to symmetry |

Two tasks are enough for a task and its retry, for a full channel (one waiting, one refused) and for
two workers at once; two contents and two configurations for a verdict that is about the wrong one.
One candidate suffices because candidates meet only in the pool being empty or not and in the whole-entry
overwrite of a checkpoint, which the single candidate shows as well. `Tasks` is finite, so the number of
submissions is the only bound of the behaviours. Tasks, workers, candidates and contents are symmetric;
configurations are not (`EmptyRun` chooses one). Deadlock is checked: users can always edit.

Three tasks of the page make a submission, its retry and a task of somebody else, or a submission and a
retry at once beside the task they follow. The page runs out of tasks to click for, so it does not
check deadlock; neither does `interview`, which ends when no request is left. Two requests under one
guard show every race of acquiring, releasing and forgetting: a release concerns the holder of the key
and itself. Two invitations are needed for a draft under the wrong guard, two pages for two users.
Four uploads are a first upload, two that race to repeat it, and one that creates the row anew after a
deletion; a second candidate shows that rows do not mix. `ingest` ends when all uploads are spent, so it
does not check deadlock.

Two runs share the semaphore, the breaker and the loop; with one permit and two experts each, one holds it
while others fail and wait, of the same run or the other. One extraction shows that it adds a call, and
records outcomes while others wait for theirs. One run of two candidates has a candidate after a failed one,
whose experts may still be at work, and costs to add up; there are no extractions in it, as they meet the
run in the breaker only, where `Other` does as well. Failures of the breaker are counted up to `FailMax`, as
more make no difference. Runs end, so neither run checks deadlock; nor does `roundtable`, which ends with
the score. The numbers of `roundtable` are near and far enough for a discussion to open, converge and go on,
and one is out of range; of the confidences one is replaced by the default, one is taken, one is NaN;
weights and thresholds are those of the code (12, 3, 80, two rounds, category `general`). Scores of `rough`
are in hundredths, one above both thresholds and one between them; the second batch of one request repeats a
candidate of the first. Two threads are enough for every race of `models`: locks and flags are shared by
pairs.

Each property has a mutant, an operator beside the one it replaces (`HasRoomOffByOne`, `Fail...`), with
which the run must fail.

## 5. Fairness

`WF_vars(WorkerStep(w))` and `WF_vars(Enqueue(t))`: a goroutine that can run does, database calls
return, and a stream ends by the deadline of its task (`context.WithTimeout` in `process`). Nothing is
assumed of users, of the agent beyond that, of restarts, or of checkpoints expiring. Weak fairness
of a worker as a whole is enough: each step disables itself, and a stream has finitely many candidates.

In `FineScreening`, `SF_vars(RunStep(r))`, `SF_vars(ExpertStep(r, k, e))` and `WF_vars(OtherStep)`: calls of
the model end by `llm_timeout_seconds`, and threads are scheduled. Other requests may take the loop again
and again, so a step of a run is enabled again and again, not continuously; but asyncio runs callbacks in
the order in which they became ready, and its semaphore wakes the first waiter, so whoever is ready gets his
turn: strong fairness. Nothing is assumed of clients leaving, of new requests or of the breaker cooling
down. The other runs check safety and need no fairness.

## 6. Proofs

`ScreeningProofs` proves for every number of tasks, workers, candidates, contents and configurations
and every channel size, from the four assumptions on constants in `Screening`, with tlapm:

`Inductive` (`Spec => []IInv`), and from it `TypeCorrect`, `OnePlace`, `NothingLost`,
`AnnouncementsAgree`, `CacheIsTrue`, `ReportsCurrent`, `StrandedStay`, `ResultsFirst` and `Implements`
(the refinement of `TaskLifecycle`).

The argument. None of the properties is inductive. `Placement` says what a row and its channel look
like depending on where the task is: waiting tasks are untouched, a worker's early steps own an open
row nobody has announced, its late steps own a row with the matching status. `TaskInOnePlace`,
`NoTaskLost` and `AnnouncedIsSettled` are preserved together with it. `RunDiscipline` (a run starts
empty and answers only for what it loaded), `Provenance` (its verdicts are about what it loaded) and
`CacheTellsTruth` support each other around the cycle row, cache hit, report, row; the key step is that
fingerprints of different stored contents differ and that a row without one is never hit.
`ResultsStored` carries what the upsert achieved to the announcement. The proof has a lemma per kind
of step; steps that do not touch a group of variables are dismissed together.

`ScreeningPageProofs` proves for any number of tasks and candidates, assuming only that `NoTask` is not
a task: `Inductive`, `SpinnerNeverOrphaned`, `OneStreamAtATime` and `RetryContinuesFailed`. The invariant
`PageInv` adds `InboxWasTold` (only what was announced is delivered) and `OneThingAtATime`: without
overlapping requests the page posts, or listens to the task it shows, or shows the error that task ended
with. The latter is what connects the stream that sets `error` to the task the button names.

`InterviewSendProofs` proves for any invitations, pages and requests, assuming only that `None` is
neither: `GuardExclusive`, `SentIsMailed`, `RepetitionsExplained` and `ReleaseTakesOwn`. The
strengthening `SendInv` says that a request keeps its guard from the moment it has it until it gives it
back, a crashed one for good, unless the key was forgotten (`GuardKept`), that the agent works only for
requests past their guard (`AgentCalled`), and that mails and answers of the agent agree (`AnswersTrue`).

`CandidateIngestProofs` proves for any uploads and candidates, assuming that `None` is no upload, address or
row: `SuccessStored`, `VectorsHaveReason` and `IdKept`. `IngestInv` adds that a row has the id of an upload
for its address, the one that created it (`RowOrigin`), so that no two share one, that who created a row
still has it unless it was deleted (`CreatorKnown`), that an update goes to such a row (`FoundOrigin`), and
that vectors deleted after their vectorisation had ended do not come back (`Order`).

`ScreeningPageProofs` also proves `ResultsAreComplete`; its `ResultsInv` says that what a task reported has
a row, whoever wrote it last, and that a page that shows a task as done has loaded since: a query is asked
at the end of a stream only, and all rows of that task were stored before. `InterviewSendProofs` also proves
`HeldWithReason`.

`FineScreeningProofs` proves for any runs, candidates, experts, permits and turns `RunTypes`,
`BreakerConsistent` (`BreakerAgrees`: the breaker is open exactly after `FailMax` failed chats in a row),
`LoadBounded` (over all callers of the client, any number of extractions included), `DoneSaysAll` and
`BillIsExplained`. `FineInv` (in `FineScreening`) adds where the engine is at each stage of the generator
(`Stage`), that what was sent and what is queued are, in this order, the outcomes of the candidates passed
(`InOrder`), and that nobody has looked at later ones (`NotYet`), without which starting the experts would
lose permits they hold. Permits are counted as the cardinality of the assessments that hold one. `Costs`
says where a usage is on its way to the bill: with the session of the candidate at work, with the usages of
those reported, or billed. Answers are counted when they come, also those about a candidate that has failed,
so `Settled` is needed: about an assessed candidate none is still to come. All answers are then those about
assessed candidates and the others (`SumSplit`), and sums grow by what the next candidate adds. What a fold
over a set amounts to would take induction over data; the section on sums does without, by a smallest
counterexample: among the subsets for which an equation fails one is minimal (`Smallest`, from
`FiniteSetTheorems`), and taking one element away from it makes the equation hold.

`ModelServingProofs` proves for any number of threads `Serving` (`ServingInv`), `ServingTypes`, `OneModel`,
`NothingForAReason` and `OneInference`. `Locks` says who may load and infer, `Encoding` which model and
which name an inference has; `NoneForAReason` needs both, as a thread with the wrong name is excused only if
the name was missing.

`RoundtableProofs` proves for any panel without repetitions, thresholds, number of rounds, overrides and
histories `RoundtableTypes`, `Recorded`, `TranscriptIsTrue` (`RecordIsTrue`), `VerdictWithinPanel`
(`OverallWithinExperts`) and `HistoryIsRead` (`HistoryReadRight`). `RecordInv` says which turns there are at
each point of a round (`TurnsMatch`), and that the scores a round began with are those the round before
ended with (`ScoresMatch`), which ties the changes of the transcript to the changes convergence is decided
on. `VerdictMatch` adds that the overall score is made of what is on record and that somebody has weight;
without a NaN a weighted mean with positive weights cannot leave the range of what is weighed
(`MeanWithin`), nor can its rounding (`RoundedWithin`). The history properties are facts about functions:
the places that sorting gives are a permutation (`PlacesTaken`), so tenures and gaps are those of the jobs,
and a gap between neighbours is idle time unless one of the misreadings applies (`GapInDates`). They need
`Now >= AnalyzerNow`: the code is not older than itself.

`RoughScreeningProofs` proves for any candidates, strangers, batches, jobs, profiles, settings, limits and
thresholds `FilterIsFair`, `RoughInvariant`, `RoughTypes`, `RankedHasReason` (`RankedForAReason`) and
`LeftOutHasReason` (`LeftOutForAReason`). It assumes that scores and thresholds are whole numbers (of the
unit they are compared in), that resumes are lists of names, and that nobody stands twice in one batch,
which is a page of one query by primary key. It goes bottom up:

- What `Kept` selects from a list and what `Sorted` makes of it are permutations of positions
  (`PlacesTaken`), so a selection keeps what it should and nothing else (`KeptIs`), sorted rows are the same
  rows by falling score (`SortedRows`), and a prefix leaves out only what is no higher (`FirstRows`).
- `FilterIsFair` follows how names become tags. `SemanticMap` counts what was found off against names by
  position, so it moves only tags of names on the same resume (`NothingForeign`), and as long as no name
  without a rule repeats it loses none of them (`NothingMissed`), even when two names have the same tag.
- One batch: the fusion consists of exactly those recalled on either path (`FuseIs`), with natural scores
  because a fold of natural numbers is natural (`SumIsNat`), and of the pool when nobody was (`FoundIs`).
- The merge has everybody of both, once, with the higher score (`MergeIs`).

The invariant `RoughInv` (in `RoughScreening`) puts these together. `MergedIsBest` says that nobody is
merged twice and everybody has the best score of any batch, 0 for those in none; without the latter a first
score could not be compared with what is there. `MergedForAReason` says why somebody is merged, and that a
batch with no recall has merged everybody who passed. `FinalMatch` accounts for the final ranking: who has a
final score, that each of them is ranked or below the threshold or behind a full ranking, and that who has
none although recalled has `TopN` others ahead, which is counted by an injection of the first `TopN` rows
(`AheadCounted`).

Only model-checked: `EveryTaskSettles` and `EveryRunEnds` (liveness is out of the prover's reach) and the
two refutations.

## 7. Not modelled, and why

Metrics, logging, progress numbers, text extraction, JD parsing, prompts, JWT and password hashing, routing,
configuration and the other pages: no state that anything here depends on, or a library's. Feedback (one
counter and its clamp), the rate limit (commands of Redis), accounts (two SQL statements) and migrations
(files run at start-up) have no behaviour beyond a statement or two; their hazards are listed in
`PROJECT.json` with the reason. Paging: `Screening` reads the pool at once, where the code reads pages by
offset.

Within `Screening`: progress events (only terminal events matter to the properties), cost records, the
interaction log, the tenant dimension. Within `ScreeningPage`: progress events, heartbeats, feedback
buttons. Within `InterviewSend`: the calendar entry (best effort, nothing depends on it) and the analysis of
replies. Within `CandidateIngest`: file checks and chunking. Within `FineScreening`: progress events and
texts, a missing API key (every call fails at once, as with an open breaker), and the number of threads of
the default executor: a coroutine that wants one finds one.

Within `Roundtable`: evidence, sub-scores, the visual evaluator's tool, and the entry the devil's advocate
would leave in `turns` for round 0 (`moderator.py:107`), which no scores reach with the default thresholds;
a contribution that raises ends the candidate in `FineScreening`, and here the behaviour stops. Within
`RoughScreening`: `HybridScreener.screen`, which nothing calls, and the reasons shown; BM25 and similarities
are chosen, not computed. Within `ModelServing`: the number of torch threads, what a vector is, and that
`_tag_vectors` reads its global again after writing it (`skill_graph.py:117`): write and read are one step.

## 8. Plan

1. `TaskLifecycle`, `Screening`, `ScreeningPage`, `InterviewSend`, `CandidateIngest`: done, all invariants
   proved.
2. `LLMClient`, `FineScreening`, `ModelServing`: done, proved but for liveness.
3. `WorkHistory`, `Roundtable`, `HardFilter`, `RoughScreening`: done, all invariants proved.
4. Left: a composition of `FineScreening` with `Screening` in place of the latter's own agent steps, and the
   paging of candidates under insertions.

