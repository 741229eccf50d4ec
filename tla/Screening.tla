------------------------------ MODULE Screening ------------------------------
(***************************************************************************)
(* The screening task engine of the Go backend:                            *)
(* backend/internal/service/screening_service.go over                      *)
(* backend/internal/repository/screening.go.                               *)
(*                                                                         *)
(* HTTP handlers submit and retry tasks, a bounded channel feeds a pool of *)
(* workers, a worker assembles the payload, streams the candidates'        *)
(* verdicts from the agent, checkpoints each, stores the rows and announces*)
(* the end.  Around it HR users re-upload and delete resumes and change the*)
(* job's configuration, checkpoints expire, and the process may go away.   *)
(*                                                                         *)
(* One tenant and one job: rows, verdict cache and configuration           *)
(* fingerprint are all keyed by tenant and job, so two jobs share nothing  *)
(* but the queue and the workers.                                          *)
(***************************************************************************)
EXTENDS Naturals, Sequences, FiniteSets

CONSTANTS
  Tasks,        \* the task identifiers ever submitted: bounds the submissions
  NoTask,       \* what an idle worker owns
  Workers,      \* worker goroutines (SCREEN_WORKER_COUNT)
  Candidates,   \* candidate rows of the tenant
  Contents,     \* resume contents, each standing for its own fingerprint
  Configs,      \* job configurations, each standing for its own fingerprint
  QueueSize     \* capacity of the task channel (SCREEN_QUEUE_SIZE)

\* A candidate row that does not exist yet, one that was deleted (whoever uploads that resume
\* again gets a row with a new id), and one stored before resumes had a fingerprint.
Absent == "absent"
Gone   == "gone"
Legacy == "legacy"
NoFingerprint == ""

ASSUME TasksAssumption    == NoTask \notin Tasks
ASSUME QueueAssumption    == QueueSize \in Nat \ {0}
ASSUME ContentsAssumption == {Absent, Gone, Legacy, NoFingerprint} \cap Contents = {}
ASSUME ConfigsAssumption  == Configs # {}

VARIABLES
  status,       \* status[t]: column status of screening_tasks, "none" before the insert
  queue,        \* the channel ScreeningService.queue
  request,      \* request[t]: the HTTP request that creates t, between its steps
  pc,           \* pc[w]: where worker w is in process()
  owns,         \* owns[w]: the task w processes
  run,          \* run[w]: the local variables of process()
  checkpoints,  \* checkpoints[t]: ScreeningService.checkpoints, {} for no entry
  rows,         \* match_results of the job, one per candidate
  resume,       \* resume[c]: the content of candidate c's stored resume
  config,       \* the job's configuration
  told,         \* told[t]: the terminal event that reached the Redis channel of t
  orphans       \* history: open tasks nobody will ever work on again

vars == <<status, queue, request, pc, owns, run, checkpoints, rows, resume, config,
          told, orphans>>

-----------------------------------------------------------------------------
(* Data *)

Settled  == {"succeeded", "failed"}
Open     == {"pending", "running"}
Statuses == {"none"} \cup Open \cup Settled

Stored  == Contents \cup {Legacy}           \* contents a stored resume can have
Missing == {Absent, Gone}

\* candidates.profile_hash of a content: legacy rows have none.
Fingerprint(v) == IF v = Legacy THEN NoFingerprint ELSE v

\* An OverallReport, reduced to what it was computed from.  carried: somewhere on its way it
\* was taken over from a checkpoint instead of from the agent or the fingerprinted cache.
Verdict == [cand: Candidates, content: Stored, config: Configs, carried: BOOLEAN]

\* A match_results row: the verdict and the two fingerprints it is stamped with.
Row == [verdict: Verdict, profileHash: Contents \cup {NoFingerprint}, configHash: Configs]

CandidatesOf(verdicts) == {v.cand : v \in verdicts}

Requests == [step: {"none", "enqueue", "handover"}, done: SUBSET Verdict]
NoRequest == [step |-> "none", done |-> {}]

Steps == {"idle", "job", "pool", "cache", "stream", "persist", "settle", "clean",
          "announce", "fail", "announceError"}

\* The locals of process(): config and loaded are what was read from the database, verdicts
\* is cached_reports of the payload, todo the candidates the agent still answers, reports
\* what it answered.
Runs == [config: Configs, loaded: [Candidates -> Stored \cup Missing],
         verdicts: SUBSET Verdict, todo: SUBSET Candidates, reports: SUBSET Verdict]

EmptyRun == [config |-> CHOOSE k \in Configs : TRUE,
             loaded |-> [c \in Candidates |-> Absent],
             verdicts |-> {}, todo |-> {}, reports |-> {}]

Pool(loaded) == {c \in Candidates : loaded[c] \notin Missing}

Queued == {queue[i] : i \in 1..Len(queue)}

TypeOK ==
  /\ status \in [Tasks -> Statuses]
  /\ queue \in Seq(Tasks) /\ Len(queue) <= QueueSize
  /\ request \in [Tasks -> Requests]
  /\ pc \in [Workers -> Steps]
  /\ owns \in [Workers -> Tasks \cup {NoTask}]
  /\ run \in [Workers -> Runs]
  /\ checkpoints \in [Tasks -> SUBSET Verdict]
  /\ rows \subseteq Row
  /\ resume \in [Candidates -> Stored \cup Missing]
  /\ config \in Configs
  /\ told \in [Tasks -> {"none", "done", "error"}]
  /\ orphans \subseteq Tasks

Init ==
  /\ status = [t \in Tasks |-> "none"]
  /\ queue = <<>>
  /\ request = [t \in Tasks |-> NoRequest]
  /\ pc = [w \in Workers |-> "idle"]
  /\ owns = [w \in Workers |-> NoTask]
  /\ run = [w \in Workers |-> EmptyRun]
  /\ checkpoints = [t \in Tasks |-> {}]
  /\ rows = {}
  /\ resume \in [Candidates -> Stored \cup {Absent}]
  /\ config \in Configs
  /\ told = [t \in Tasks |-> "none"]
  /\ orphans = {}

-----------------------------------------------------------------------------
(* Requests: Submit, RetryTask *)

\* The row is inserted as pending before the task is offered to the queue.
CreateTask(t, done) ==
  /\ status[t] = "none"
  /\ status' = [status EXCEPT ![t] = "pending"]
  /\ request' = [request EXCEPT ![t] = [step |-> "enqueue", done |-> done]]
  /\ UNCHANGED <<queue, pc, owns, run, checkpoints, rows, resume, config, told, orphans>>

Submit(t) == CreateTask(t, {})

\* A settled task is retried as a new task with what its checkpoint holds.
RetryTask(parent, t) ==
  /\ status[parent] \in Settled
  /\ CreateTask(t, checkpoints[parent])

\* Room in the channel buffer.  A faulty variant: one more than its capacity.
HasRoomOffByOne == Len(queue) <= QueueSize
HasRoom == Len(queue) < QueueSize

\* The non-blocking send into the channel.  When the channel is full the request is
\* answered 42901; the row inserted before stays.
Enqueue(t) ==
  /\ request[t].step = "enqueue"
  /\ \/ /\ HasRoom
        /\ queue' = Append(queue, t)
        /\ request' = [request EXCEPT ![t] =
             IF @.done = {} THEN NoRequest ELSE [@ EXCEPT !.step = "handover"]]
        /\ UNCHANGED orphans
     \/ /\ ~HasRoom
        /\ request' = [request EXCEPT ![t] = NoRequest]
        /\ orphans' = orphans \cup {t}
        /\ UNCHANGED queue
  /\ UNCHANGED <<status, pc, owns, run, checkpoints, rows, resume, config, told>>

\* RetryTask stores the parent's checkpoint under the new task, which a worker may already
\* have taken.
Handover(t) ==
  /\ request[t].step = "handover"
  /\ checkpoints' = [checkpoints EXCEPT ![t] = request[t].done]
  /\ request' = [request EXCEPT ![t] = NoRequest]
  /\ UNCHANGED <<status, queue, pc, owns, run, rows, resume, config, told, orphans>>

-----------------------------------------------------------------------------
(* A worker: process() *)

Goto(w, from, to) == pc[w] = from /\ pc' = [pc EXCEPT ![w] = to]

\* Writes the status column; the error of the write is ignored or only logged.
WriteStatus(t, s) == status' = [status EXCEPT ![t] = s]

\* What the channel holds after a receive.  A faulty variant: a queue that redelivers what
\* has not been acknowledged.
AfterReceiveRedelivering(q) == q
AfterReceive(q) == Tail(q)

Dequeue(w) ==
  /\ Goto(w, "idle", "job")
  /\ queue # <<>>
  /\ queue' = AfterReceive(queue)
  /\ owns' = [owns EXCEPT ![w] = Head(queue)]
  /\ WriteStatus(Head(queue), "running") \/ UNCHANGED status
  /\ UNCHANGED <<request, run, checkpoints, rows, resume, config, told, orphans>>

LoadJob(w) ==
  /\ Goto(w, "job", "pool")
  /\ run' = [run EXCEPT ![w].config = config]
  /\ UNCHANGED <<status, queue, request, owns, checkpoints, rows, resume, config, told,
                 orphans>>

LoadPool(w) ==
  /\ Pool(resume) # {}
  /\ Goto(w, "pool", "cache")
  /\ run' = [run EXCEPT ![w].loaded = resume]
  /\ UNCHANGED <<status, queue, request, owns, checkpoints, rows, resume, config, told,
                 orphans>>

\* A faulty variant: the early return forgets failTask.
LoadFailsSilently(w) ==
  /\ Goto(w, "job", "idle") \/ Goto(w, "pool", "idle")
  /\ owns' = [owns EXCEPT ![w] = NoTask]
  /\ run' = [run EXCEPT ![w] = EmptyRun]
  /\ UNCHANGED <<status, queue, request, checkpoints, rows, resume, config, told, orphans>>

\* The job or a page of candidates cannot be read, or the tenant has no candidate.
LoadFails(w) ==
  /\ Goto(w, "job", "fail") \/ Goto(w, "pool", "fail")
  /\ UNCHANGED <<status, queue, request, owns, run, checkpoints, rows, resume, config, told,
                 orphans>>

\* Faulty variants: the key of the cache before configurations had a fingerprint, and a
\* cache keyed by the configuration alone.
CacheHitByResume(row, loaded, conf) ==
  /\ row.profileHash # NoFingerprint
  /\ loaded[row.verdict.cand] \notin Missing
  /\ row.profileHash = Fingerprint(loaded[row.verdict.cand])

CacheHitByConfig(row, loaded, conf) ==
  /\ row.profileHash # NoFingerprint
  /\ loaded[row.verdict.cand] \notin Missing
  /\ row.configHash = conf

\* A stored verdict is reused only for the resume and the configuration it is stamped with.
CacheHit(row, loaded, conf) ==
  /\ row.profileHash # NoFingerprint
  /\ loaded[row.verdict.cand] \notin Missing
  /\ row.profileHash = Fingerprint(loaded[row.verdict.cand])
  /\ row.configHash = conf

\* mergeCheckpointVerdicts: a checkpoint fills in the candidates the cache does not answer;
\* its entries carry no fingerprint and none is compared.
MergeCheckpoint(hits, checkpoint) ==
  hits \cup {[v EXCEPT !.carried = TRUE] :
               v \in {u \in checkpoint : u.cand \notin CandidatesOf(hits)}}

\* Reads cache and checkpoint and opens the stream.  A cache that cannot be read counts as
\* empty.  The agent answers for the candidates its coarse ranking picks.
OpenStream(w) ==
  LET hits == {row.verdict : row \in {r \in rows : CacheHit(r, run[w].loaded, run[w].config)}}
  IN
  /\ Goto(w, "cache", "stream")
  /\ \E known \in {hits, {}}, picked \in SUBSET Pool(run[w].loaded) :
       run' = [run EXCEPT
                 ![w].verdicts = MergeCheckpoint(known, checkpoints[owns[w]]),
                 ![w].todo = picked]
  /\ UNCHANGED <<status, queue, request, owns, checkpoints, rows, resume, config, told,
                 orphans>>

\* saveCheckpoint replaces the whole entry of the task.
SaveCheckpoint(t, reports) == checkpoints' = [checkpoints EXCEPT ![t] = reports]

\* The agent replays a verdict it was given.
ReplayCandidate(w, v) ==
  /\ pc[w] = "stream" /\ v.cand \in run[w].todo
  /\ run' = [run EXCEPT ![w].todo = @ \ {v.cand}, ![w].reports = @ \cup {v}]
  /\ SaveCheckpoint(owns[w], run[w].reports \cup {v})
  /\ UNCHANGED <<status, queue, request, pc, owns, rows, resume, config, told, orphans>>

\* The agent has its experts assess a candidate it was given no verdict for.
AssessCandidate(w, c) ==
  LET v == [cand |-> c, content |-> run[w].loaded[c], config |-> run[w].config,
            carried |-> FALSE]
  IN
  /\ pc[w] = "stream" /\ c \in run[w].todo /\ c \notin CandidatesOf(run[w].verdicts)
  /\ run' = [run EXCEPT ![w].todo = @ \ {c}, ![w].reports = @ \cup {v}]
  /\ SaveCheckpoint(owns[w], run[w].reports \cup {v})
  /\ UNCHANGED <<status, queue, request, pc, owns, rows, resume, config, told, orphans>>

\* candidate_failed: the agent gives up on one candidate and goes on with the others.  A
\* report the service cannot decode is dropped the same way.
CandidateFails(w, c) ==
  /\ pc[w] = "stream" /\ c \in run[w].todo
  /\ run' = [run EXCEPT ![w].todo = @ \ {c}]
  /\ UNCHANGED <<status, queue, request, pc, owns, checkpoints, rows, resume, config, told,
                 orphans>>

\* PUBLISH.  Its result is not looked at: it is lost when Redis is down or when the deadline
\* of the task has passed, the reason why many tasks fail.
Announce(t, event) ==
  \E e \in {event, told[t]} : told' = [told EXCEPT ![t] = e]

\* A faulty variant: the agent's done goes straight to the client.
StreamEndsForwardingDone(w) ==
  /\ run[w].todo = {}
  /\ Goto(w, "stream", "persist")
  /\ told' = [told EXCEPT ![owns[w]] = "done"]
  /\ UNCHANGED <<status, queue, request, owns, run, checkpoints, rows, resume, config,
                 orphans>>

\* The agent's own done is not forwarded.
StreamEnds(w) ==
  /\ run[w].todo = {}
  /\ Goto(w, "stream", "persist")
  /\ UNCHANGED <<status, queue, request, owns, run, checkpoints, rows, resume, config, told,
                 orphans>>

\* The agent's error event is forwarded at once, before the row says failed.
AgentError(w) ==
  /\ Goto(w, "stream", "fail")
  /\ Announce(owns[w], "error")
  /\ UNCHANGED <<status, queue, request, owns, run, checkpoints, rows, resume, config,
                 orphans>>

\* A broken stream, or the deadline of the task.
StreamFails(w) ==
  /\ Goto(w, "stream", "fail")
  /\ UNCHANGED <<status, queue, request, owns, run, checkpoints, rows, resume, config, told,
                 orphans>>

\* persistResults stamps every report with the fingerprints of this run.
Stamped(v, r) ==
  [verdict |-> v, profileHash |-> Fingerprint(r.loaded[v.cand]), configHash |-> r.config]

\* One upsert per candidate, in one statement.
Persist(w) ==
  /\ Goto(w, "persist", "settle")
  /\ rows' = {row \in rows : row.verdict.cand \notin CandidatesOf(run[w].reports)}
               \cup {Stamped(v, run[w]) : v \in run[w].reports}
  /\ UNCHANGED <<status, queue, request, owns, run, checkpoints, resume, config, told,
                 orphans>>

PersistFails(w) ==
  /\ Goto(w, "persist", "fail")
  /\ UNCHANGED <<status, queue, request, owns, run, checkpoints, rows, resume, config, told,
                 orphans>>

\* The final status; when its write fails the row stays open for good.
WriteOutcome(w, s) ==
  /\ \/ WriteStatus(owns[w], s) /\ UNCHANGED orphans
     \/ orphans' = orphans \cup {owns[w]} /\ UNCHANGED status
  /\ UNCHANGED <<queue, request, owns, run, checkpoints, rows, resume, config, told>>

Settle(w) == Goto(w, "settle", "clean") /\ WriteOutcome(w, "succeeded")

\* Faulty variants of failTask and its callers: the row is not written; process() goes on
\* after it; the task is tried again until it succeeds.
FailWithoutUpdate(w) ==
  /\ Goto(w, "fail", "announceError")
  /\ UNCHANGED <<status, queue, request, owns, run, checkpoints, rows, resume, config, told,
                 orphans>>

FailWithoutReturn(w) == Goto(w, "fail", "settle") /\ WriteOutcome(w, "failed")

FailByStartingOver(w) ==
  /\ Goto(w, "fail", "job")
  /\ UNCHANGED <<status, queue, request, owns, run, checkpoints, rows, resume, config, told,
                 orphans>>

Fail(w) == Goto(w, "fail", "announceError") /\ WriteOutcome(w, "failed")

CleanCheckpoint(w) ==
  /\ Goto(w, "clean", "announce")
  /\ checkpoints' = [checkpoints EXCEPT ![owns[w]] = {}]
  /\ UNCHANGED <<status, queue, request, owns, run, rows, resume, config, told, orphans>>

\* The terminal event, and back to the queue.
Publish(w, step, event) ==
  /\ Goto(w, step, "idle")
  /\ Announce(owns[w], event)
  /\ owns' = [owns EXCEPT ![w] = NoTask]
  /\ run' = [run EXCEPT ![w] = EmptyRun]
  /\ UNCHANGED <<status, queue, request, checkpoints, rows, resume, config, orphans>>

AnnounceDone(w)  == Publish(w, "announce", "done")
AnnounceError(w) == Publish(w, "announceError", "error")

-----------------------------------------------------------------------------
(* Around the service *)

\* Upload: a new candidate, or a new resume for a known one.
UploadResume(c, v) ==
  /\ resume[c] # Gone
  /\ resume' = [resume EXCEPT ![c] = v]
  /\ UNCHANGED <<status, queue, request, pc, owns, run, checkpoints, rows, config, told,
                 orphans>>

DeleteCandidate(c) ==
  /\ c \in Pool(resume)
  /\ resume' = [resume EXCEPT ![c] = Gone]
  /\ UNCHANGED <<status, queue, request, pc, owns, run, checkpoints, rows, config, told,
                 orphans>>

UpdateOverrides(k) ==
  /\ config' = k
  /\ UNCHANGED <<status, queue, request, pc, owns, run, checkpoints, rows, resume, told,
                 orphans>>

\* checkpointTTL.  It is longer than a task may run, so no running task loses its own.
ExpireCheckpoint(t) ==
  /\ checkpoints[t] # {}
  /\ \A w \in Workers : owns[w] # t
  /\ checkpoints' = [checkpoints EXCEPT ![t] = {}]
  /\ UNCHANGED <<status, queue, request, pc, owns, run, rows, resume, config, told, orphans>>

\* A faulty variant: the queue outlives the process.
RestartKeepingQueue ==
  /\ request' = [t \in Tasks |-> NoRequest]
  /\ pc' = [w \in Workers |-> "idle"]
  /\ owns' = [w \in Workers |-> NoTask]
  /\ run' = [w \in Workers |-> EmptyRun]
  /\ checkpoints' = [t \in Tasks |-> {}]
  /\ orphans' = orphans \cup {t \in Tasks : status[t] \in Open}
  /\ UNCHANGED <<status, queue, rows, resume, config, told>>

\* The process goes away, by SIGTERM or by a crash, and is started again: main never calls
\* Stop, so both drop queue, workers, requests and checkpoints.  Nothing reads the open
\* rows at start-up.
Restart ==
  /\ queue' = <<>>
  /\ request' = [t \in Tasks |-> NoRequest]
  /\ pc' = [w \in Workers |-> "idle"]
  /\ owns' = [w \in Workers |-> NoTask]
  /\ run' = [w \in Workers |-> EmptyRun]
  /\ checkpoints' = [t \in Tasks |-> {}]
  /\ orphans' = orphans \cup {t \in Tasks : status[t] \in Open}
  /\ UNCHANGED <<status, rows, resume, config, told>>

-----------------------------------------------------------------------------

RequestStep ==
  \E t \in Tasks :
    \/ Submit(t)
    \/ \E parent \in Tasks : RetryTask(parent, t)
    \/ Enqueue(t)
    \/ Handover(t)

StreamStep(w) ==
  \/ \E v \in run[w].verdicts : ReplayCandidate(w, v)
  \/ \E c \in Candidates : AssessCandidate(w, c) \/ CandidateFails(w, c)
  \/ StreamEnds(w)
  \/ AgentError(w) \/ StreamFails(w)

WorkerStep(w) ==
  \/ Dequeue(w)
  \/ LoadJob(w) \/ LoadPool(w) \/ LoadFails(w)
  \/ OpenStream(w)
  \/ StreamStep(w)
  \/ Persist(w) \/ PersistFails(w)
  \/ Settle(w) \/ CleanCheckpoint(w) \/ AnnounceDone(w)
  \/ Fail(w) \/ AnnounceError(w)

Environment ==
  \/ \E c \in Candidates, v \in Contents : UploadResume(c, v)
  \/ \E c \in Candidates : DeleteCandidate(c)
  \/ \E k \in Configs : UpdateOverrides(k)
  \/ \E t \in Tasks : ExpireCheckpoint(t)
  \/ Restart

Next == RequestStep \/ (\E w \in Workers : WorkerStep(w)) \/ Environment

Spec == Init /\ [][Next]_vars

\* A goroutine that can go on does, and a stream ends by its deadline at the latest.
Fairness ==
  /\ \A t \in Tasks : WF_vars(Enqueue(t))
  /\ \A w \in Workers : WF_vars(WorkerStep(w))

FairSpec == Spec /\ Fairness
-----------------------------------------------------------------------------
(* Properties *)

Owners(t) == {w \in Workers : owns[w] = t}

\* A task is in one place: at most one worker has it, the channel holds it at most once and
\* not together with a worker, and its request is not about to enqueue it again.  Everything
\* process() does without a lock rests on this.
TaskInOnePlace ==
  /\ \A i, j \in 1..Len(queue) : queue[i] = queue[j] => i = j
  /\ \A v, w \in Workers : owns[v] = owns[w] /\ owns[v] # NoTask => v = w
  /\ \A t \in Tasks :
       /\ t \in Queued => Owners(t) = {}
       /\ request[t].step = "enqueue" => t \notin Queued /\ Owners(t) = {}

\* An open row has somebody who will still work on it, unless it is one of those the code
\* strands: refused with 42901 after the insert, open when the process went away, or its
\* final write failed.
NoTaskLost ==
  \A t \in Tasks : status[t] \in Open =>
    t \in Queued \/ Owners(t) # {} \/ request[t].step = "enqueue" \/ t \in orphans

\* A stranded row never changes again: no start-up scan, no sweeper, and RetryTask refuses it.
OrphansStay == [][\A t \in orphans : status'[t] = status[t]]_vars

\* The terminal event agrees with the row a client reads after it: the reason why the agent's
\* done is held back.  An error may be ahead of its row by one write, of a worker that has
\* nothing else left to do; only a failed write of the final status breaks it for good.
AnnouncedIsSettled ==
  \A t \in Tasks \ orphans :
    /\ told[t] = "done"  => status[t] = "succeeded"
    /\ told[t] = "error" => status[t] = "failed" \/ \E w \in Owners(t) : pc[w] = "fail"

\* Results first, done after: when done goes out, every candidate the run reported has a row.
DoneAfterResults ==
  [][\A w \in Workers :
       (owns[w] # NoTask /\ told[owns[w]] = "none" /\ told'[owns[w]] = "done")
         => CandidatesOf(run[w].reports) \subseteq {row.verdict.cand : row \in rows}]_vars

\* The idempotent cache tells the truth: a row that claims a fingerprint holds a verdict
\* computed from that resume and that configuration, unless the verdict once travelled
\* through a checkpoint.
RowMatchesFingerprints(row) ==
  row.profileHash # NoFingerprint =>
    /\ row.profileHash = Fingerprint(row.verdict.content)
    /\ row.configHash = row.verdict.config

CacheTellsTruth == \A row \in rows : ~row.verdict.carried => RowMatchesFingerprints(row)

\* Verdict v is about the inputs run r loaded.
Current(v, r) == v.content = r.loaded[v.cand] /\ v.config = r.config

\* What a run reports for a candidate was computed from the resume and the configuration the
\* run loaded, unless the verdict travelled through a checkpoint: users edit both meanwhile.
ReportsAreCurrent ==
  \A w \in Workers : \A v \in run[w].reports :
    ~v.carried => Current(v, run[w])

\* The task engine keeps the promise of one task's life cycle.
Phase == [t \in Tasks |-> IF t \in orphans THEN "stranded" ELSE status[t]]

Life == INSTANCE TaskLifecycle WITH phase <- Phase

ImplementsLifecycle == Life!SafeSpec

\* Every accepted task settles or is given up: no worker hangs on an error path, no task
\* starves in the queue.
EveryTaskSettles == Life!NoTaskStaysOpen

-----------------------------------------------------------------------------
(* The inductive invariant behind the properties *)

\* The steps at which a worker has not written the final status yet.
Early == {"job", "pool", "cache", "stream", "persist", "settle", "fail"}

\* A task nobody has worked on: its row waits and nothing has been announced.
Untouched(t) == status[t] = "pending" /\ told[t] = "none" /\ t \notin orphans

\* Where a task is tells what its row and its channel can hold.
QueuePlacement == \A t \in Queued : Untouched(t) /\ request[t].step # "enqueue"

RequestPlacement ==
  \A t \in Tasks : request[t].step = "enqueue" => Untouched(t) /\ Owners(t) = {}

WorkerPlacement ==
  \A w \in Workers :
    /\ owns[w] = NoTask <=> pc[w] = "idle"
    /\ owns[w] # NoTask =>
         /\ owns[w] \notin Queued
         /\ \/ told[owns[w]] = "none"
            \/ told[owns[w]] = "error" /\ pc[w] \in {"fail", "announceError"}
         /\ pc[w] \in Early => status[owns[w]] \in Open /\ owns[w] \notin orphans
         /\ pc[w] \in {"clean", "announce"} =>
              owns[w] \in orphans \/ status[owns[w]] = "succeeded"
         /\ pc[w] = "announceError" => owns[w] \in orphans \/ status[owns[w]] = "failed"

DistinctOwners == \A v, w \in Workers : owns[v] = owns[w] /\ owns[v] # NoTask => v = w

DistinctInQueue == \A i, j \in 1..Len(queue) : queue[i] = queue[j] => i = j

NewPlacement ==
  \A t \in Tasks : status[t] = "none" =>
    /\ told[t] = "none" /\ t \notin orphans /\ request[t].step = "none"
    /\ t \notin Queued /\ Owners(t) = {}

Placement ==
  /\ QueuePlacement /\ RequestPlacement /\ WorkerPlacement /\ NewPlacement
  /\ DistinctOwners /\ DistinctInQueue

\* A run starts with nothing, and answers only for candidates it has loaded.
RunDiscipline ==
  \A w \in Workers :
    /\ pc[w] \in {"idle", "job", "pool", "cache"} =>
         run[w].verdicts = {} /\ run[w].todo = {} /\ run[w].reports = {}
    /\ run[w].todo \subseteq Pool(run[w].loaded)
    /\ CandidatesOf(run[w].reports) \subseteq Pool(run[w].loaded)

\* Verdicts taken or given by a run that did not come through a checkpoint are about what
\* the run loaded.
Provenance ==
  \A w \in Workers :
    \A v \in run[w].verdicts \cup run[w].reports : ~v.carried => Current(v, run[w])

\* From the upsert on, what a run reported has its row.
ResultsStored ==
  \A w \in Workers : pc[w] \in {"settle", "clean", "announce"} =>
    CandidatesOf(run[w].reports) \subseteq {row.verdict.cand : row \in rows}

IInv == TypeOK /\ Placement /\ NoTaskLost /\ AnnouncedIsSettled
          /\ RunDiscipline /\ Provenance /\ CacheTellsTruth /\ ResultsStored

-----------------------------------------------------------------------------
(* What documents and comments say and the code does not keep *)

\* RUNBOOK: re-uploading a resume or changing the job's configuration invalidates what was
\* cached and has it recomputed.  So a run answers only for what it loaded itself.
VerdictsAreCurrent ==
  \A w \in Workers : \A v \in run[w].reports : Current(v, run[w])
=============================================================================
