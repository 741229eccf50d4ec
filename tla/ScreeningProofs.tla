--------------------------- MODULE ScreeningProofs ---------------------------
(***************************************************************************)
(* Proofs about Screening, for every set of tasks, workers, candidates,    *)
(* contents and configurations and every queue size.                       *)
(***************************************************************************)
EXTENDS Screening, SequenceTheorems, TLAPS

USE TasksAssumption, QueueAssumption, ContentsAssumption, ConfigsAssumption

-----------------------------------------------------------------------------
(* Data *)

\* The locals a worker starts with are well typed.
LEMMA EmptyRunType == EmptyRun \in Runs
BY DEF EmptyRun, Runs, Stored, Missing

\* The updates of a run's locals keep them well typed.
LEMMA RunUpdateType ==
  ASSUME NEW r \in Runs
  PROVE  /\ \A k \in Configs : [r EXCEPT !.config = k] \in Runs
         /\ \A l \in [Candidates -> Stored \cup Missing] : [r EXCEPT !.loaded = l] \in Runs
         /\ \A vs \in SUBSET Verdict, cs \in SUBSET Candidates :
              [r EXCEPT !.verdicts = vs, !.todo = cs] \in Runs
         /\ \A c \in Candidates : [r EXCEPT !.todo = @ \ {c}] \in Runs
         /\ \A c \in Candidates, v \in Verdict :
              [r EXCEPT !.todo = @ \ {c}, !.reports = @ \cup {v}] \in Runs
BY DEF Runs

\* A fingerprint is a content or nothing.
LEMMA FingerprintType == \A v \in Stored : Fingerprint(v) \in Contents \cup {NoFingerprint}
BY DEF Fingerprint, Stored

\* Marking verdicts as carried keeps them verdicts.
LEMMA MergeType ==
  ASSUME NEW hits \in SUBSET Verdict, NEW cp \in SUBSET Verdict
  PROVE  MergeCheckpoint(hits, cp) \in SUBSET Verdict
BY DEF MergeCheckpoint, Verdict

\* A verdict a merge adds is carried; the others are the cache hits.
LEMMA MergeCarried ==
  ASSUME NEW hits \in SUBSET Verdict, NEW cp \in SUBSET Verdict,
         NEW v \in MergeCheckpoint(hits, cp), ~v.carried
  PROVE  v \in hits
BY DEF MergeCheckpoint, Verdict

-----------------------------------------------------------------------------
(* The type invariant *)

\* Variables have their types at the start.
LEMMA InitType == Init => TypeOK
<1> SUFFICES ASSUME Init PROVE TypeOK
  OBVIOUS
<1> USE DEF Init
<1>1. queue \in Seq(Tasks) /\ Len(queue) <= QueueSize
  OBVIOUS
<1>2. run \in [Workers -> Runs]
  BY EmptyRunType
<1>3. request \in [Tasks -> Requests]
  BY DEF NoRequest, Requests
<1> QED
  BY <1>1, <1>2, <1>3 DEF TypeOK, Statuses, Steps, Stored, Missing

\* Steps of a request.
LEMMA RequestType == TypeOK /\ RequestStep => TypeOK'
<1> SUFFICES ASSUME TypeOK, RequestStep PROVE TypeOK'
  OBVIOUS
<1> USE DEF TypeOK
<1>1. ASSUME NEW t \in Tasks, NEW done \in SUBSET Verdict, CreateTask(t, done)
      PROVE  TypeOK'
  <2>1. CandidatesOf(done) \subseteq Candidates
    BY DEF CandidatesOf, Verdict
  <2> QED
    BY <1>1, <2>1 DEF CreateTask, Statuses, Open, Requests
<1>2. ASSUME NEW t \in Tasks, Enqueue(t) PROVE TypeOK'
  <2>1. CASE HasRoom
    <3>1. queue' \in Seq(Tasks) /\ Len(queue') <= QueueSize
      <4>1. queue \in Seq(Tasks) /\ queue' = Append(queue, t) /\ Len(queue) < QueueSize
        BY <1>2, <2>1 DEF Enqueue, HasRoom
      <4> QED
        BY <4>1, AppendProperties
    <3>2. request' \in [Tasks -> Requests]
      <4>1. request[t] \in Requests
        OBVIOUS
      <4>2. (IF request[t].done = {} THEN NoRequest ELSE [request[t] EXCEPT !.step = "handover"])
              \in Requests
        BY <4>1 DEF Requests, NoRequest
      <4> QED
        BY <1>2, <2>1, <4>2 DEF Enqueue
    <3> QED
      BY <1>2, <2>1, <3>1, <3>2 DEF Enqueue
  <2>2. CASE ~HasRoom
    BY <1>2, <2>2 DEF Enqueue, Requests, NoRequest
  <2> QED
    BY <2>1, <2>2
<1>3. ASSUME NEW t \in Tasks, Handover(t) PROVE TypeOK'
  BY <1>3 DEF Handover, Requests, NoRequest
<1> QED
  BY <1>1, <1>2, <1>3 DEF RequestStep, Submit, RetryTask

\* Steps of a worker.
LEMMA WorkerType ==
  ASSUME NEW w \in Workers, TypeOK, WorkerPlacement, RunDiscipline, WorkerStep(w)
  PROVE  TypeOK'
<1> USE DEF TypeOK
<1>0. run[w] \in Runs /\ (pc[w] # "idle" => owns[w] \in Tasks)
  BY DEF WorkerPlacement
<1>1. CASE Dequeue(w)
  <2>1. Head(queue) \in Tasks /\ Tail(queue) \in Seq(Tasks) /\ Len(Tail(queue)) <= QueueSize
    BY <1>1 DEF Dequeue
  <2> QED
    BY <1>1, <2>1
    DEF Dequeue, AfterReceive, Goto, Steps, WriteStatus, Statuses, Open
<1>2. CASE LoadJob(w)
  <2>1. [run[w] EXCEPT !.config = config] \in Runs
    BY <1>0, RunUpdateType
  <2>2. run' \in [Workers -> Runs]
    BY <1>2, <2>1 DEF LoadJob
  <2>3. pc' \in [Workers -> Steps]
    BY <1>2 DEF LoadJob, Goto, Steps
  <2> QED
    BY <1>2, <2>2, <2>3 DEF LoadJob
<1>3. CASE LoadPool(w)
  <2>1. [run[w] EXCEPT !.loaded = resume] \in Runs
    BY <1>0, RunUpdateType
  <2>2. run' \in [Workers -> Runs]
    BY <1>3, <2>1 DEF LoadPool
  <2>3. pc' \in [Workers -> Steps]
    BY <1>3 DEF LoadPool, Goto, Steps
  <2> QED
    BY <1>3, <2>2, <2>3 DEF LoadPool
<1>4. CASE LoadFails(w)
  BY <1>4 DEF LoadFails, Goto, Steps
<1>5. CASE OpenStream(w)
  <2> DEFINE hits == {row.verdict : row \in {r \in rows : CacheHit(r, run[w].loaded, run[w].config)}}
  <2>1. hits \in SUBSET Verdict
    BY DEF Row
  <2>2. PICK known \in {hits, {}}, picked \in SUBSET Pool(run[w].loaded) :
          run' = [run EXCEPT
                    ![w].verdicts = MergeCheckpoint(known, checkpoints[owns[w]]),
                    ![w].todo = picked]
    BY <1>5 DEF OpenStream
  <2>3. MergeCheckpoint(known, checkpoints[owns[w]]) \in SUBSET Verdict
    BY <1>0, <1>5, <2>1, MergeType DEF OpenStream, Goto
  <2>4. picked \in SUBSET Candidates
    BY DEF Pool
  <2>5. [run[w] EXCEPT !.verdicts = MergeCheckpoint(known, checkpoints[owns[w]]),
                       !.todo = picked] \in Runs
    BY <1>0, <2>3, <2>4, RunUpdateType
  <2>6. run' \in [Workers -> Runs]
    BY <2>2, <2>5
  <2> QED
    BY <1>5, <2>6 DEF OpenStream, Goto, Steps
<1>6. CASE StreamStep(w)
  <2>0. run[w].reports \in SUBSET Verdict /\ run[w].verdicts \in SUBSET Verdict
    BY <1>0 DEF Runs
  <2>1. ASSUME NEW v \in run[w].verdicts, ReplayCandidate(w, v) PROVE TypeOK'
    <3>1. v \in Verdict /\ v.cand \in Candidates
      BY <2>0 DEF Verdict
    <3>2. run' \in [Workers -> Runs]
      BY <1>0, <2>1, <3>1, RunUpdateType DEF ReplayCandidate
    <3>3. checkpoints' \in [Tasks -> SUBSET Verdict]
      BY <2>0, <2>1, <3>1 DEF ReplayCandidate, SaveCheckpoint
    <3> QED
      BY <2>1, <3>2, <3>3 DEF ReplayCandidate
  <2>2. ASSUME NEW c \in Candidates, AssessCandidate(w, c) PROVE TypeOK'
    <3> DEFINE v == [cand |-> c, content |-> run[w].loaded[c], config |-> run[w].config,
                     carried |-> FALSE]
    <3>1. v \in Verdict
      BY <1>0, <2>2 DEF AssessCandidate, RunDiscipline, Pool, Verdict, Runs
    <3> HIDE DEF v
    <3>2. run' \in [Workers -> Runs]
      BY <1>0, <2>2, <3>1, RunUpdateType DEF AssessCandidate, v
    <3>3. checkpoints' \in [Tasks -> SUBSET Verdict]
      BY <2>0, <2>2, <3>1 DEF AssessCandidate, SaveCheckpoint, v
    <3> QED
      BY <2>2, <3>2, <3>3 DEF AssessCandidate
  <2>3. ASSUME NEW c \in Candidates, CandidateFails(w, c) PROVE TypeOK'
    BY <1>0, <2>3, RunUpdateType DEF CandidateFails
  <2>4. CASE StreamEnds(w)
    BY <2>4 DEF StreamEnds, Goto, Steps
  <2>5. CASE StreamFails(w)
    BY <2>5 DEF StreamFails, Goto, Steps
  <2>6. CASE AgentError(w)
    <3>1. told' \in [Tasks -> {"none", "done", "error"}]
      BY <1>0, <2>6 DEF AgentError, Announce, Goto
    <3> QED
      BY <2>6, <3>1 DEF AgentError, Goto, Steps
  <2> QED
    BY <1>6, <2>1, <2>2, <2>3, <2>4, <2>5, <2>6 DEF StreamStep
<1>7. CASE Persist(w)
  <2>1. ASSUME NEW v \in run[w].reports PROVE Stamped(v, run[w]) \in Row
    <3>1. v \in Verdict /\ run[w].config \in Configs
      BY <1>0 DEF Runs
    <3>2. run[w].loaded[v.cand] \in Stored
      BY <1>0 DEF RunDiscipline, CandidatesOf, Pool, Runs
    <3> QED
      BY <3>1, <3>2, FingerprintType DEF Stamped, Row
  <2>2. rows' \subseteq Row
    BY <1>7, <2>1 DEF Persist
  <2> QED
    BY <1>7, <2>2 DEF Persist, Goto, Steps
<1>8. CASE PersistFails(w)
  BY <1>8 DEF PersistFails, Goto, Steps
<1>9. CASE Settle(w) \/ Fail(w)
  <2>1. owns[w] \in Tasks
    BY <1>0, <1>9 DEF Settle, Fail, Goto
  <2> QED
    BY <1>9, <2>1 DEF Settle, Fail, Goto, WriteOutcome, WriteStatus, Steps, Statuses, Settled
<1>10. CASE CleanCheckpoint(w)
  BY <1>10 DEF CleanCheckpoint, Goto, Steps
<1>11. CASE AnnounceDone(w) \/ AnnounceError(w)
  <2>1. run' \in [Workers -> Runs]
    BY <1>11, EmptyRunType DEF AnnounceDone, AnnounceError, Publish
  <2>2. pc' \in [Workers -> Steps]
    BY <1>11 DEF AnnounceDone, AnnounceError, Publish, Goto, Steps
  <2>3. told' \in [Tasks -> {"none", "done", "error"}]
    BY <1>0, <1>11 DEF AnnounceDone, AnnounceError, Publish, Announce, Goto
  <2> QED
    BY <1>11, <2>1, <2>2, <2>3 DEF AnnounceDone, AnnounceError, Publish
<1> QED
  BY <1>1, <1>2, <1>3, <1>4, <1>5, <1>6, <1>7, <1>8, <1>9, <1>10, <1>11 DEF WorkerStep

\* Steps of the users, the clock and the process.
LEMMA EnvironmentType == TypeOK /\ Environment => TypeOK'
<1> SUFFICES ASSUME TypeOK, Environment PROVE TypeOK'
  OBVIOUS
<1> USE DEF TypeOK
<1>1. ASSUME NEW c \in Candidates, NEW v \in Contents, UploadResume(c, v) PROVE TypeOK'
  BY <1>1 DEF UploadResume, Stored
<1>2. ASSUME NEW c \in Candidates, DeleteCandidate(c) PROVE TypeOK'
  BY <1>2 DEF DeleteCandidate, Missing
<1>3. ASSUME NEW k \in Configs, UpdateOverrides(k) PROVE TypeOK'
  BY <1>3 DEF UpdateOverrides
<1>4. ASSUME NEW t \in Tasks, ExpireCheckpoint(t) PROVE TypeOK'
  BY <1>4 DEF ExpireCheckpoint
<1>5. CASE Restart
  <2>1. request' \in [Tasks -> Requests] /\ queue' \in Seq(Tasks) /\ Len(queue') <= QueueSize
    BY <1>5 DEF Restart, NoRequest, Requests
  <2>2. run' \in [Workers -> Runs]
    BY <1>5, EmptyRunType DEF Restart
  <2> QED
    BY <1>5, <2>1, <2>2 DEF Restart, Steps
<1> QED
  BY <1>1, <1>2, <1>3, <1>4, <1>5 DEF Environment

\* Every step keeps the types.
LEMMA NextType == TypeOK /\ WorkerPlacement /\ RunDiscipline /\ [Next]_vars => TypeOK'
<1>1. ASSUME TypeOK, UNCHANGED vars PROVE TypeOK'
  BY <1>1 DEF TypeOK, vars
<1> QED
  BY <1>1, RequestType, WorkerType, EnvironmentType DEF Next

-----------------------------------------------------------------------------
(* The queue *)

\* The tasks in a queue.
ElementsOf(q) == {q[i] : i \in 1..Len(q)}

\* A send adds its task, and keeps the tasks distinct if it was not there.
LEMMA QueueAppend ==
  ASSUME NEW q \in Seq(Tasks), NEW t \in Tasks
  PROVE  /\ ElementsOf(Append(q, t)) = ElementsOf(q) \cup {t}
         /\ (\A i, j \in 1..Len(q) : q[i] = q[j] => i = j) /\ t \notin ElementsOf(q)
              => \A i, j \in 1..Len(Append(q, t)) : Append(q, t)[i] = Append(q, t)[j] => i = j
<1>1. /\ Len(Append(q, t)) = Len(q) + 1 /\ Len(q) \in Nat
      /\ \A i \in 1..Len(q) : Append(q, t)[i] = q[i]
      /\ Append(q, t)[Len(q) + 1] = t
  BY AppendProperties
<1>2. 1..(Len(q) + 1) = (1..Len(q)) \cup {Len(q) + 1}
  BY <1>1
<1> QED
  BY <1>1, <1>2 DEF ElementsOf

\* A receive removes exactly the head of a queue of distinct tasks.
LEMMA QueueReceive ==
  ASSUME NEW q \in Seq(Tasks), q # <<>>, \A i, j \in 1..Len(q) : q[i] = q[j] => i = j
  PROVE  /\ Head(q) \in ElementsOf(q)
         /\ ElementsOf(Tail(q)) = ElementsOf(q) \ {Head(q)}
         /\ \A i, j \in 1..Len(Tail(q)) : Tail(q)[i] = Tail(q)[j] => i = j
<1>1. /\ Len(q) \in Nat \ {0} /\ Len(Tail(q)) = Len(q) - 1 /\ Head(q) = q[1]
      /\ \A i \in 1..(Len(q) - 1) : Tail(q)[i] = q[i + 1]
  BY HeadTailProperties
<1>2. Head(q) \in ElementsOf(q)
  BY <1>1 DEF ElementsOf
<1>3. ASSUME NEW x \in ElementsOf(Tail(q)) PROVE x \in ElementsOf(q) \ {Head(q)}
  BY <1>1 DEF ElementsOf
<1>4. ASSUME NEW x \in ElementsOf(q) \ {Head(q)} PROVE x \in ElementsOf(Tail(q))
  <2>1. PICK i \in 1..Len(q) : x = q[i]
    BY DEF ElementsOf
  <2>2. i - 1 \in 1..Len(Tail(q)) /\ Tail(q)[i - 1] = q[i]
    BY <1>1, <2>1
  <2> QED
    BY <2>1, <2>2 DEF ElementsOf
<1>5. ASSUME NEW i \in 1..Len(Tail(q)), NEW j \in 1..Len(Tail(q)), Tail(q)[i] = Tail(q)[j]
      PROVE  i = j
  BY <1>1, <1>5
<1> QED
  BY <1>2, <1>3, <1>4, <1>5

\* The channel of the model.
LEMMA QueuedElements == Queued = ElementsOf(queue) /\ Queued' = ElementsOf(queue')
BY DEF Queued, ElementsOf

-----------------------------------------------------------------------------
(* Where a task is, and what its row and its channel say *)

Whereabouts == Placement /\ NoTaskLost /\ AnnouncedIsSettled

\* Steps that touch neither tasks nor workers.
LEMMA WhereaboutsAlone ==
  Whereabouts /\ UNCHANGED <<status, queue, request, pc, owns, told, orphans>> => Whereabouts'
BY DEF Whereabouts, Placement, NoTaskLost, AnnouncedIsSettled, QueuePlacement,
       RequestPlacement, WorkerPlacement, NewPlacement, DistinctOwners, DistinctInQueue,
       Untouched, Owners, Queued

\* What was announced of a task stays right while its row and the worker failing it stay.
LEMMA AnnouncedAlone ==
  ASSUME AnnouncedIsSettled, NEW u \in Tasks, u \notin orphans,
         told'[u] = told[u], status'[u] = status[u],
         \A v \in Workers : owns[v] = u /\ pc[v] = "fail" => owns'[v] = u /\ pc'[v] = "fail"
  PROVE  AnnouncedIsSettled!(u)'
BY DEF AnnouncedIsSettled, Owners

\* A worker goes on within the steps before its final write, or after it.
LEMMA WhereaboutsMove ==
  ASSUME NEW w \in Workers, NEW s \in Steps, TypeOK, Whereabouts,
         \/ pc[w] \in Early \ {"fail"} /\ s \in Early
         \/ pc[w] = "clean" /\ s = "announce",
         pc' = [pc EXCEPT ![w] = s],
         UNCHANGED <<status, queue, request, owns, told, orphans>>
  PROVE  Whereabouts'
<1> USE DEF Whereabouts, Placement
<1>1. Queued' = Queued /\ \A t \in Tasks : Owners(t)' = Owners(t) /\ Untouched(t)' = Untouched(t)
  BY DEF Queued, Owners, Untouched
<1>2. QueuePlacement' /\ RequestPlacement' /\ NewPlacement' /\ DistinctOwners' /\ DistinctInQueue'
  <2>1. \A t \in Queued : t \in Tasks
    BY DEF Queued, TypeOK
  <2> QED
    BY <1>1, <2>1
    DEF QueuePlacement, RequestPlacement, NewPlacement, DistinctOwners, DistinctInQueue
<1>3. WorkerPlacement'
  <2> SUFFICES ASSUME NEW v \in Workers PROVE WorkerPlacement!(v)'
    BY DEF WorkerPlacement
  <2> QED
    BY <1>1 DEF WorkerPlacement, TypeOK, Early
<1>4. NoTaskLost'
  BY <1>1 DEF NoTaskLost
<1>5. AnnouncedIsSettled'
  <2>1. \A v \in Workers : pc[v] = "fail" => pc'[v] = "fail" /\ owns'[v] = owns[v]
    BY DEF TypeOK
  <2> QED
    BY <2>1, AnnouncedAlone DEF AnnouncedIsSettled
<1> QED
  BY <1>2, <1>3, <1>4, <1>5

\* A request inserts its row.
LEMMA WhereaboutsCreate ==
  ASSUME NEW t \in Tasks, NEW done \in SUBSET Verdict, TypeOK, Whereabouts, CreateTask(t, done)
  PROVE  Whereabouts'
<1> USE DEF Whereabouts, Placement
<1>1. /\ status[t] = "none" /\ told[t] = "none" /\ t \notin orphans
      /\ t \notin Queued /\ Owners(t) = {}
  BY DEF CreateTask, NewPlacement
<1>2. /\ Queued' = Queued /\ \A u \in Tasks : Owners(u)' = Owners(u)
      /\ status' = [status EXCEPT ![t] = "pending"]
      /\ request' = [request EXCEPT ![t] = [step |-> "enqueue", done |-> done]]
      /\ UNCHANGED <<queue, pc, owns, told, orphans>>
  BY DEF CreateTask, Queued, Owners
<1>3. Queued \subseteq Tasks
  BY DEF Queued, TypeOK
<1>4. QueuePlacement' /\ RequestPlacement' /\ NewPlacement' /\ DistinctOwners' /\ DistinctInQueue'
  <2> USE <1>1, <1>2, <1>3 DEF TypeOK
  <2>1. QueuePlacement'
    BY DEF QueuePlacement, Untouched
  <2>2. RequestPlacement'
    BY DEF RequestPlacement, Untouched
  <2>3. NewPlacement'
    BY DEF NewPlacement
  <2>4. DistinctOwners' /\ DistinctInQueue'
    BY DEF DistinctOwners, DistinctInQueue
  <2> QED
    BY <2>1, <2>2, <2>3, <2>4
<1>5. WorkerPlacement'
  <2> SUFFICES ASSUME NEW v \in Workers PROVE WorkerPlacement!(v)'
    BY DEF WorkerPlacement
  <2>1. owns[v] # t
    BY <1>1 DEF Owners
  <2> QED
    BY <1>2, <2>1 DEF WorkerPlacement, TypeOK
<1>6. NoTaskLost'
  BY <1>1, <1>2 DEF NoTaskLost, TypeOK
<1>7. AnnouncedIsSettled'
  BY <1>1, <1>2 DEF AnnouncedIsSettled, TypeOK
<1> QED
  BY <1>4, <1>5, <1>6, <1>7

\* A request offers its task to the channel, which takes or refuses it.
LEMMA WhereaboutsEnqueue ==
  ASSUME NEW t \in Tasks, TypeOK, Whereabouts, Enqueue(t)
  PROVE  Whereabouts'
<1> USE DEF Whereabouts, Placement
<1>1. /\ request[t].step = "enqueue" /\ Untouched(t) /\ Owners(t) = {} /\ t \notin Queued
  BY DEF Enqueue, RequestPlacement, QueuePlacement
<1>2. /\ \A u \in Tasks : Owners(u)' = Owners(u)
      /\ UNCHANGED <<status, pc, owns, told>>
      /\ request'[t].step # "enqueue"
      /\ \A u \in Tasks \ {t} : request'[u] = request[u]
  BY DEF Enqueue, Owners, NoRequest, TypeOK, Requests
<1>3. Queued \subseteq Tasks /\ queue \in Seq(Tasks)
  BY DEF Queued, TypeOK
<1>4. CASE HasRoom
  <2>1. queue' = Append(queue, t) /\ orphans' = orphans
    BY <1>4 DEF Enqueue
  <2>2. Queued' = Queued \cup {t} /\ DistinctInQueue'
    BY <1>1, <1>3, <2>1, QueueAppend, QueuedElements DEF DistinctInQueue
  <2>3. QueuePlacement' /\ RequestPlacement' /\ DistinctOwners'
    BY <1>1, <1>2, <1>3, <2>1, <2>2
    DEF QueuePlacement, RequestPlacement, DistinctOwners, Untouched
  <2>4. NewPlacement'
    BY <1>1, <1>2, <2>1, <2>2 DEF NewPlacement, Untouched
  <2>5. WorkerPlacement'
    <3> SUFFICES ASSUME NEW v \in Workers PROVE WorkerPlacement!(v)'
      BY DEF WorkerPlacement
    <3>1. owns[v] # t
      BY <1>1 DEF Owners
    <3> QED
      BY <1>2, <2>1, <2>2, <3>1 DEF WorkerPlacement
  <2>6. NoTaskLost' /\ AnnouncedIsSettled'
    BY <1>2, <2>1, <2>2 DEF NoTaskLost, AnnouncedIsSettled
  <2> QED
    BY <2>2, <2>3, <2>4, <2>5, <2>6
<1>5. CASE ~HasRoom
  <2>1. queue' = queue /\ Queued' = Queued /\ orphans' = orphans \cup {t}
    BY <1>5 DEF Enqueue, Queued
  <2>2. QueuePlacement' /\ RequestPlacement' /\ DistinctOwners' /\ DistinctInQueue'
    BY <1>1, <1>2, <1>3, <2>1
    DEF QueuePlacement, RequestPlacement, DistinctOwners, DistinctInQueue, Untouched
  <2>3. NewPlacement'
    BY <1>1, <1>2, <2>1 DEF NewPlacement, Untouched
  <2>4. WorkerPlacement'
    <3> SUFFICES ASSUME NEW v \in Workers PROVE WorkerPlacement!(v)'
      BY DEF WorkerPlacement
    <3>1. owns[v] # t
      BY <1>1 DEF Owners
    <3> QED
      BY <1>2, <2>1, <3>1 DEF WorkerPlacement
  <2>5. NoTaskLost' /\ AnnouncedIsSettled'
    BY <1>2, <2>1 DEF NoTaskLost, AnnouncedIsSettled
  <2> QED
    BY <2>2, <2>3, <2>4, <2>5
<1> QED
  BY <1>4, <1>5

\* The handover of a checkpoint ends a request.
LEMMA WhereaboutsHandover ==
  ASSUME NEW t \in Tasks, TypeOK, Whereabouts, Handover(t)
  PROVE  Whereabouts'
<1> USE DEF Whereabouts, Placement
<1>1. /\ Queued' = Queued /\ (\A u \in Tasks : Owners(u)' = Owners(u))
      /\ UNCHANGED <<status, queue, pc, owns, told, orphans>>
      /\ request[t].step = "handover" /\ request'[t].step = "none"
      /\ \A u \in Tasks \ {t} : request'[u] = request[u]
  BY DEF Handover, Queued, Owners, NoRequest, TypeOK
<1>2. Queued \subseteq Tasks
  BY DEF Queued, TypeOK
<1>3. QueuePlacement' /\ RequestPlacement' /\ NewPlacement' /\ DistinctOwners' /\ DistinctInQueue'
  BY <1>1, <1>2
  DEF QueuePlacement, RequestPlacement, NewPlacement, DistinctOwners, DistinctInQueue, Untouched
<1>4. WorkerPlacement'
  BY <1>1 DEF WorkerPlacement
<1>5. NoTaskLost' /\ AnnouncedIsSettled'
  BY <1>1 DEF NoTaskLost, AnnouncedIsSettled
<1> QED
  BY <1>3, <1>4, <1>5

\* A worker takes the head of the queue.
LEMMA WhereaboutsDequeue ==
  ASSUME NEW w \in Workers, TypeOK, Whereabouts, Dequeue(w)
  PROVE  Whereabouts'
<1> USE DEF Whereabouts, Placement
<1>1. queue \in Seq(Tasks) /\ queue # <<>> /\ queue' = Tail(queue) /\ pc[w] = "idle"
  BY DEF TypeOK, Dequeue, AfterReceive, Goto
<1>2. PICK t \in Tasks : t = Head(queue)
  BY <1>1
<1>3. /\ t \in Queued /\ Queued' = Queued \ {t} /\ DistinctInQueue'
      /\ t \in Tasks /\ t # NoTask
  BY <1>1, <1>2, QueueReceive, QueuedElements DEF DistinctInQueue
<1>4. Untouched(t) /\ request[t].step # "enqueue" /\ owns[w] = NoTask
  BY <1>1, <1>3 DEF QueuePlacement, WorkerPlacement
<1>5. Owners(t) = {}
  BY <1>3 DEF Owners, WorkerPlacement
<1>6. /\ owns' = [owns EXCEPT ![w] = t] /\ pc' = [pc EXCEPT ![w] = "job"]
      /\ status' = [status EXCEPT ![t] = "running"] \/ status' = status
      /\ UNCHANGED <<request, told, orphans>>
  BY <1>2 DEF Dequeue, Goto, WriteStatus
<1>7. /\ Owners(t)' = {w}
      /\ \A u \in Tasks \ {t} : Owners(u)' = Owners(u) /\ status'[u] = status[u]
  BY <1>3, <1>4, <1>5, <1>6 DEF Owners, TypeOK
<1>8. Queued' \subseteq Tasks \ {t}
  BY <1>1, <1>3 DEF Queued
<1>9. status'[t] \in Open
  BY <1>3, <1>4, <1>6 DEF TypeOK, Untouched, Open
<1>10. QueuePlacement'
  BY <1>3, <1>6, <1>7, <1>8 DEF QueuePlacement, Untouched
<1>11. RequestPlacement'
  BY <1>3, <1>4, <1>6, <1>7 DEF RequestPlacement, Untouched
<1>12. NewPlacement'
  BY <1>3, <1>6, <1>7, <1>9 DEF NewPlacement, Open
<1>13. DistinctOwners'
  BY <1>5, <1>6 DEF DistinctOwners, Owners, TypeOK
<1>14. WorkerPlacement'
  <2> SUFFICES ASSUME NEW v \in Workers PROVE WorkerPlacement!(v)'
    BY DEF WorkerPlacement
  <2>1. CASE v = w
    BY <1>3, <1>4, <1>6, <1>9, <2>1 DEF TypeOK, Early, Untouched
  <2>2. CASE v # w
    <3>1. owns'[v] = owns[v] /\ pc'[v] = pc[v] /\ owns[v] # t
      BY <1>5, <1>6, <2>2 DEF Owners, TypeOK
    <3>2. owns[v] # NoTask => owns[v] \in Tasks \ {t}
      BY <3>1 DEF TypeOK
    <3> QED
      BY <1>3, <1>6, <1>7, <3>1, <3>2 DEF WorkerPlacement
  <2> QED
    BY <2>1, <2>2
<1>15. NoTaskLost'
  BY <1>3, <1>6, <1>7 DEF NoTaskLost
<1>16. AnnouncedIsSettled'
  <2> SUFFICES ASSUME NEW u \in Tasks \ orphans PROVE AnnouncedIsSettled!(u)'
    BY <1>6 DEF AnnouncedIsSettled
  <2>1. CASE u = t
    BY <1>4, <1>6, <2>1 DEF Untouched
  <2>2. CASE u # t
    <3>1. \A v \in Workers : pc[v] = "fail" => pc'[v] = "fail" /\ owns'[v] = owns[v]
      BY <1>1, <1>6 DEF TypeOK
    <3> QED
      BY <1>6, <1>7, <2>2, <3>1, AnnouncedAlone
  <2> QED
    BY <2>1, <2>2
<1> QED
  BY <1>3, <1>10, <1>11, <1>12, <1>13, <1>14, <1>15, <1>16

\* A worker writes the final status, or fails to.
LEMMA WhereaboutsOutcome ==
  ASSUME NEW w \in Workers, TypeOK, Whereabouts, Settle(w) \/ Fail(w)
  PROVE  Whereabouts'
<1> USE DEF Whereabouts, Placement
<1>1. PICK t \in Tasks : t = owns[w] /\ t # NoTask
  BY DEF Settle, Fail, Goto, WorkerPlacement, TypeOK
<1>2. /\ status[t] \in Open /\ t \notin orphans /\ t \notin Queued
      /\ \/ pc[w] = "settle" /\ told[t] = "none"
         \/ pc[w] = "fail" /\ told[t] \in {"none", "error"}
  BY <1>1 DEF Settle, Fail, Goto, WorkerPlacement, Early
<1>3. request[t].step # "enqueue"
  BY <1>1 DEF RequestPlacement, Owners
<1>4. \A v \in Workers \ {w} : owns[v] # t
  BY <1>1 DEF DistinctOwners
<1>5. \/ /\ pc[w] = "settle" /\ pc' = [pc EXCEPT ![w] = "clean"]
         /\ \/ status' = [status EXCEPT ![t] = "succeeded"] /\ orphans' = orphans
            \/ status' = status /\ orphans' = orphans \cup {t}
      \/ /\ pc[w] = "fail" /\ pc' = [pc EXCEPT ![w] = "announceError"]
         /\ \/ status' = [status EXCEPT ![t] = "failed"] /\ orphans' = orphans
            \/ status' = status /\ orphans' = orphans \cup {t}
  <2>1. CASE Settle(w)
    BY <1>1, <2>1 DEF Settle, Goto, WriteOutcome, WriteStatus
  <2>2. CASE Fail(w)
    BY <1>1, <2>2 DEF Fail, Goto, WriteOutcome, WriteStatus
  <2> QED
    BY <2>1, <2>2
<1>6. /\ UNCHANGED <<queue, request, owns, told>>
      /\ Queued' = Queued /\ \A u \in Tasks : Owners(u)' = Owners(u)
  BY DEF Settle, Fail, WriteOutcome, Queued, Owners
<1>7. /\ \A u \in Tasks \ {t} : status'[u] = status[u] /\ (u \in orphans' <=> u \in orphans)
      /\ status'[t] # "none"
      /\ t \in orphans' \/ status'[t] \in Settled
  BY <1>2, <1>5 DEF TypeOK, Open, Settled
<1>8. Queued \subseteq Tasks \ {t}
  BY <1>2 DEF Queued, TypeOK
<1>9. QueuePlacement' /\ RequestPlacement' /\ NewPlacement' /\ DistinctOwners' /\ DistinctInQueue'
  <2>1. QueuePlacement'
    BY <1>6, <1>7, <1>8 DEF QueuePlacement, Untouched
  <2>2. RequestPlacement'
    BY <1>3, <1>6, <1>7 DEF RequestPlacement, Untouched
  <2>3. NewPlacement'
    BY <1>6, <1>7 DEF NewPlacement
  <2> QED
    BY <1>6, <2>1, <2>2, <2>3 DEF DistinctOwners, DistinctInQueue
<1>10. WorkerPlacement'
  <2> SUFFICES ASSUME NEW v \in Workers PROVE WorkerPlacement!(v)'
    BY DEF WorkerPlacement
  <2>1. CASE v = w
    <3>1. owns'[v] = t /\ t # NoTask /\ t \notin Queued' /\ told'[t] = told[t]
      BY <1>1, <1>2, <1>6, <2>1
    <3>2. \/ /\ pc'[v] = "clean" /\ told[t] = "none"
             /\ t \in orphans' \/ status'[t] = "succeeded"
          \/ /\ pc'[v] = "announceError" /\ told[t] \in {"none", "error"}
             /\ t \in orphans' \/ status'[t] = "failed"
      BY <1>2, <1>5, <2>1 DEF TypeOK
    <3> QED
      BY <3>1, <3>2 DEF Early
  <2>2. CASE v # w
    <3>1. owns'[v] = owns[v] /\ pc'[v] = pc[v] /\ owns[v] # t
      BY <1>4, <1>5, <1>6, <2>2 DEF TypeOK
    <3>2. owns[v] # NoTask => owns[v] \in Tasks \ {t}
      BY <3>1 DEF TypeOK
    <3> QED
      BY <1>6, <1>7, <3>1, <3>2 DEF WorkerPlacement
  <2> QED
    BY <2>1, <2>2
<1>11. NoTaskLost'
  BY <1>6, <1>7 DEF NoTaskLost, Open, Settled
<1>12. AnnouncedIsSettled'
  <2> SUFFICES ASSUME NEW u \in Tasks, u \notin orphans' PROVE AnnouncedIsSettled!(u)'
    BY DEF AnnouncedIsSettled
  <2>1. CASE u = t
    BY <1>2, <1>5, <1>6, <2>1 DEF TypeOK
  <2>2. CASE u # t
    <3>1. u \notin orphans /\ status'[u] = status[u] /\ told'[u] = told[u]
      BY <1>6, <1>7, <2>2
    <3>2. \A v \in Workers : owns[v] = u => owns'[v] = u /\ pc'[v] = pc[v]
      BY <1>1, <1>5, <1>6, <2>2 DEF TypeOK
    <3> QED
      BY <3>1, <3>2, AnnouncedAlone
  <2> QED
    BY <2>1, <2>2
<1> QED
  BY <1>9, <1>10, <1>11, <1>12

\* The agent's error is announced while its worker still has the task.
LEMMA WhereaboutsAgentError ==
  ASSUME NEW w \in Workers, TypeOK, Whereabouts, AgentError(w)
  PROVE  Whereabouts'
<1> USE DEF Whereabouts, Placement
<1>1. PICK t \in Tasks : t = owns[w] /\ t # NoTask
  BY DEF AgentError, Goto, WorkerPlacement, TypeOK
<1>2. /\ status[t] \in Open /\ t \notin orphans /\ told[t] = "none" /\ t \notin Queued
      /\ request[t].step # "enqueue"
      /\ \A v \in Workers \ {w} : owns[v] # t
  BY <1>1
  DEF AgentError, Goto, WorkerPlacement, Early, RequestPlacement, DistinctOwners, Owners
<1>3. /\ pc[w] = "stream" /\ pc' = [pc EXCEPT ![w] = "fail"]
      /\ UNCHANGED <<status, queue, request, owns, orphans>>
      /\ told'[t] \in {"none", "error"}
      /\ \A u \in Tasks \ {t} : told'[u] = told[u]
  BY <1>1, <1>2 DEF AgentError, Announce, Goto, TypeOK
<1>4. /\ Queued' = Queued /\ Queued \subseteq Tasks \ {t}
      /\ \A u \in Tasks : Owners(u)' = Owners(u)
  BY <1>2, <1>3 DEF Queued, Owners, TypeOK
<1>5. QueuePlacement' /\ RequestPlacement' /\ NewPlacement' /\ DistinctOwners' /\ DistinctInQueue'
  <2>1. QueuePlacement'
    BY <1>3, <1>4 DEF QueuePlacement, Untouched
  <2>2. RequestPlacement'
    BY <1>2, <1>3, <1>4 DEF RequestPlacement, Untouched
  <2>3. NewPlacement'
    BY <1>2, <1>3, <1>4 DEF NewPlacement, Open
  <2> QED
    BY <1>3, <2>1, <2>2, <2>3 DEF DistinctOwners, DistinctInQueue
<1>6. WorkerPlacement'
  <2> SUFFICES ASSUME NEW v \in Workers PROVE WorkerPlacement!(v)'
    BY DEF WorkerPlacement
  <2>1. CASE v = w
    BY <1>1, <1>2, <1>3, <1>4, <2>1 DEF TypeOK, Early
  <2>2. CASE v # w
    <3>1. owns'[v] = owns[v] /\ pc'[v] = pc[v] /\ owns[v] # t
      BY <1>2, <1>3, <2>2 DEF TypeOK
    <3>2. owns[v] # NoTask => owns[v] \in Tasks \ {t}
      BY <3>1 DEF TypeOK
    <3> QED
      BY <1>3, <1>4, <3>1, <3>2 DEF WorkerPlacement
  <2> QED
    BY <2>1, <2>2
<1>7. NoTaskLost'
  BY <1>3, <1>4 DEF NoTaskLost
<1>8. AnnouncedIsSettled'
  <2> SUFFICES ASSUME NEW u \in Tasks \ orphans PROVE AnnouncedIsSettled!(u)'
    BY <1>3 DEF AnnouncedIsSettled
  <2>1. CASE u = t
    BY <1>1, <1>3, <1>4, <2>1 DEF Owners, TypeOK
  <2>2. CASE u # t
    <3>1. \A v \in Owners(u) : pc'[v] = pc[v]
      BY <1>1, <1>3, <2>2 DEF Owners, TypeOK
    <3> QED
      BY <1>3, <1>4, <2>2, <3>1 DEF AnnouncedIsSettled
  <2> QED
    BY <2>1, <2>2
<1> QED
  BY <1>5, <1>6, <1>7, <1>8

\* A worker announces the end and is free again.
LEMMA WhereaboutsPublish ==
  ASSUME NEW w \in Workers, TypeOK, Whereabouts, AnnounceDone(w) \/ AnnounceError(w)
  PROVE  Whereabouts'
<1> USE DEF Whereabouts, Placement
<1>1. PICK t \in Tasks : t = owns[w] /\ t # NoTask
  BY DEF AnnounceDone, AnnounceError, Publish, Goto, WorkerPlacement, TypeOK
<1>2. /\ t \notin Queued /\ request[t].step # "enqueue"
      /\ \A v \in Workers \ {w} : owns[v] # t
  BY <1>1 DEF WorkerPlacement, RequestPlacement, DistinctOwners, Owners
<1>3. /\ pc' = [pc EXCEPT ![w] = "idle"] /\ owns' = [owns EXCEPT ![w] = NoTask]
      /\ UNCHANGED <<status, queue, request, orphans>>
      /\ \A u \in Tasks \ {t} : told'[u] = told[u]
  BY <1>1 DEF AnnounceDone, AnnounceError, Publish, Announce, Goto, TypeOK
<1>4. \/ pc[w] = "announce" /\ told'[t] \in {"done", "none"}
      \/ pc[w] = "announceError" /\ told'[t] \in {"error", "none"}
  <2>1. CASE AnnounceDone(w)
    BY <1>1, <2>1 DEF AnnounceDone, Publish, Announce, Goto, TypeOK, WorkerPlacement
  <2>2. CASE AnnounceError(w)
    BY <1>1, <2>2 DEF AnnounceError, Publish, Announce, Goto, TypeOK, WorkerPlacement
  <2> QED
    BY <2>1, <2>2
<1>5. \/ t \in orphans
      \/ pc[w] = "announce" /\ status[t] = "succeeded"
      \/ pc[w] = "announceError" /\ status[t] = "failed"
  BY <1>1, <1>4 DEF WorkerPlacement
<1>6. /\ Queued' = Queued /\ Queued \subseteq Tasks \ {t}
      /\ \A u \in Tasks \ {t} : Owners(u)' = Owners(u)
      /\ \A u \in Tasks : Owners(u)' \subseteq Owners(u)
  BY <1>1, <1>2, <1>3 DEF Queued, Owners, TypeOK
<1>7. QueuePlacement'
  BY <1>3, <1>6 DEF QueuePlacement, Untouched
<1>8. RequestPlacement'
  BY <1>2, <1>3, <1>6 DEF RequestPlacement, Untouched
<1>9. NewPlacement'
  BY <1>1, <1>3, <1>5, <1>6 DEF NewPlacement, Owners
<1>10. DistinctOwners' /\ DistinctInQueue'
  BY <1>3 DEF DistinctOwners, DistinctInQueue, TypeOK
<1>11. WorkerPlacement'
  <2> SUFFICES ASSUME NEW v \in Workers PROVE WorkerPlacement!(v)'
    BY DEF WorkerPlacement
  <2>1. CASE v = w
    BY <1>3, <2>1 DEF TypeOK
  <2>2. CASE v # w
    <3>1. owns'[v] = owns[v] /\ pc'[v] = pc[v] /\ owns[v] # t
      BY <1>2, <1>3, <2>2 DEF TypeOK
    <3>2. owns[v] # NoTask => owns[v] \in Tasks \ {t}
      BY <3>1 DEF TypeOK
    <3> QED
      BY <1>3, <1>6, <3>1, <3>2 DEF WorkerPlacement
  <2> QED
    BY <2>1, <2>2
<1>12. NoTaskLost'
  BY <1>3, <1>5, <1>6 DEF NoTaskLost, Open
<1>13. AnnouncedIsSettled'
  <2> SUFFICES ASSUME NEW u \in Tasks \ orphans PROVE AnnouncedIsSettled!(u)'
    BY <1>3 DEF AnnouncedIsSettled
  <2>1. CASE u = t
    BY <1>3, <1>4, <1>5, <2>1
  <2>2. CASE u # t
    <3>1. \A v \in Workers : owns[v] = u => owns'[v] = u /\ pc'[v] = pc[v]
      BY <1>1, <1>3, <2>2 DEF TypeOK
    <3> QED
      BY <1>3, <2>2, <3>1, AnnouncedAlone
  <2> QED
    BY <2>1, <2>2
<1> QED
  BY <1>7, <1>8, <1>9, <1>10, <1>11, <1>12, <1>13

\* The process goes away with everything it held in memory.
LEMMA WhereaboutsRestart ==
  ASSUME TypeOK, Whereabouts, Restart
  PROVE  Whereabouts'
<1> USE DEF Whereabouts, Placement
<1>1. /\ queue' = <<>> /\ UNCHANGED <<status, told>>
      /\ \A t \in Tasks : request'[t] = NoRequest
      /\ \A w \in Workers : pc'[w] = "idle" /\ owns'[w] = NoTask
      /\ orphans' = orphans \cup {t \in Tasks : status[t] \in Open}
  BY DEF Restart
<1>2. Queued' = {} /\ \A t \in Tasks : Owners(t)' = {}
  BY <1>1 DEF Queued, Owners
<1>3. QueuePlacement' /\ RequestPlacement' /\ DistinctOwners' /\ DistinctInQueue'
  BY <1>1, <1>2
  DEF QueuePlacement, RequestPlacement, DistinctOwners, DistinctInQueue, NoRequest
<1>4. WorkerPlacement'
  BY <1>1 DEF WorkerPlacement
<1>5. NewPlacement'
  BY <1>1, <1>2 DEF NewPlacement, NoRequest, Open
<1>6. NoTaskLost'
  BY <1>1 DEF NoTaskLost
<1>7. AnnouncedIsSettled'
  <2> SUFFICES ASSUME NEW t \in Tasks, t \notin orphans' PROVE AnnouncedIsSettled!(t)'
    BY DEF AnnouncedIsSettled
  <2>1. \A w \in Owners(t) : pc[w] # "fail"
    BY <1>1 DEF WorkerPlacement, Owners, Early
  <2> QED
    BY <1>1, <2>1 DEF AnnouncedIsSettled
<1> QED
  BY <1>3, <1>4, <1>5, <1>6, <1>7

\* Every step keeps the tasks where they belong.
LEMMA NextWhereabouts == TypeOK /\ Whereabouts /\ [Next]_vars => Whereabouts'
<1> SUFFICES ASSUME TypeOK, Whereabouts, [Next]_vars PROVE Whereabouts'
  OBVIOUS
<1>1. CASE UNCHANGED vars
  BY <1>1, WhereaboutsAlone DEF vars
<1>2. CASE RequestStep
  <2>1. ASSUME NEW t \in Tasks, NEW parent \in Tasks, RetryTask(parent, t) PROVE Whereabouts'
    <3>1. checkpoints[parent] \in SUBSET Verdict
      BY DEF TypeOK
    <3> QED
      BY <2>1, <3>1, WhereaboutsCreate DEF RetryTask
  <2>2. ASSUME NEW t \in Tasks, Submit(t) PROVE Whereabouts'
    BY <2>2, WhereaboutsCreate DEF Submit
  <2> QED
    BY <1>2, <2>1, <2>2, WhereaboutsEnqueue, WhereaboutsHandover DEF RequestStep
<1>3. ASSUME NEW w \in Workers, WorkerStep(w) PROVE Whereabouts'
  <2>1. CASE \/ LoadJob(w) \/ LoadPool(w) \/ LoadFails(w) \/ OpenStream(w) \/ StreamEnds(w)
             \/ StreamFails(w) \/ Persist(w) \/ PersistFails(w) \/ CleanCheckpoint(w)
    <3>1. UNCHANGED <<status, queue, request, owns, told, orphans>>
      BY <2>1
      DEF LoadJob, LoadPool, LoadFails, OpenStream, StreamEnds, StreamFails, Persist,
          PersistFails, CleanCheckpoint
    <3>2. PICK s \in Steps :
            /\ pc' = [pc EXCEPT ![w] = s]
            /\ \/ pc[w] \in Early \ {"fail"} /\ s \in Early
               \/ pc[w] = "clean" /\ s = "announce"
      BY <2>1
      DEF LoadJob, LoadPool, LoadFails, OpenStream, StreamEnds, StreamFails, Persist,
          PersistFails, CleanCheckpoint, Goto, Steps, Early
    <3> QED
      BY <3>1, <3>2, WhereaboutsMove
  <2>2. ASSUME \/ \E v \in run[w].verdicts : ReplayCandidate(w, v)
               \/ \E c \in Candidates : AssessCandidate(w, c) \/ CandidateFails(w, c)
        PROVE  Whereabouts'
    BY <2>2, WhereaboutsAlone DEF ReplayCandidate, AssessCandidate, CandidateFails
  <2> QED
    BY <1>3, <2>1, <2>2, WhereaboutsDequeue, WhereaboutsOutcome, WhereaboutsAgentError,
       WhereaboutsPublish
    DEF WorkerStep, StreamStep
<1>4. CASE Environment
  <2>1. ASSUME \/ \E c \in Candidates, v \in Contents : UploadResume(c, v)
               \/ \E c \in Candidates : DeleteCandidate(c)
               \/ \E k \in Configs : UpdateOverrides(k)
               \/ \E t \in Tasks : ExpireCheckpoint(t)
        PROVE  Whereabouts'
    BY <2>1, WhereaboutsAlone
    DEF UploadResume, DeleteCandidate, UpdateOverrides, ExpireCheckpoint
  <2> QED
    BY <1>4, <2>1, WhereaboutsRestart DEF Environment
<1> QED
  BY <1>1, <1>2, <1>3, <1>4 DEF Next

-----------------------------------------------------------------------------
(* What a run answers, and what the rows claim *)

Answers == RunDiscipline /\ Provenance /\ CacheTellsTruth /\ ResultsStored

\* Worker w's part of Answers.
AnswersOf(w) ==
  /\ pc[w] \in {"idle", "job", "pool", "cache"} =>
       run[w].verdicts = {} /\ run[w].todo = {} /\ run[w].reports = {}
  /\ run[w].todo \subseteq Pool(run[w].loaded)
  /\ CandidatesOf(run[w].reports) \subseteq Pool(run[w].loaded)
  /\ \A v \in run[w].verdicts \cup run[w].reports : ~v.carried => Current(v, run[w])
  /\ pc[w] \in {"settle", "clean", "announce"} =>
       CandidatesOf(run[w].reports) \subseteq {row.verdict.cand : row \in rows}

\* Answers is what holds of each worker and of each row.
LEMMA AnswersSplit == Answers <=> (\A w \in Workers : AnswersOf(w)) /\ CacheTellsTruth
BY DEF Answers, AnswersOf, RunDiscipline, Provenance, ResultsStored

\* A step that leaves worker v and the rows alone leaves its answers alone.
LEMMA AnswersAlone ==
  ASSUME NEW v \in Workers, AnswersOf(v), pc'[v] = pc[v], run'[v] = run[v], rows' = rows
  PROVE  AnswersOf(v)'
BY DEF AnswersOf, Pool, CandidatesOf, Current

\* A worker that starts, or starts over, has nothing.
LEMMA AnswersEmpty ==
  ASSUME NEW v \in Workers, run'[v] = EmptyRun, pc'[v] = "idle"
  PROVE  AnswersOf(v)'
BY DEF AnswersOf, EmptyRun, Pool, CandidatesOf

\* Two stored contents with one and the same fingerprint are the same content.
LEMMA FingerprintInjective ==
  \A u, v \in Stored :
    Fingerprint(u) # NoFingerprint /\ Fingerprint(u) = Fingerprint(v) => u = v
BY DEF Fingerprint, Stored

\* A cache hit that did not come through a checkpoint is about the inputs it is used for.
LEMMA CacheHitCurrent ==
  ASSUME TypeOK, CacheTellsTruth, NEW r \in Runs, NEW row \in rows,
         CacheHit(row, r.loaded, r.config), ~row.verdict.carried
  PROVE  Current(row.verdict, r)
<1>1. /\ row.profileHash = Fingerprint(row.verdict.content) /\ row.configHash = row.verdict.config
      /\ row.profileHash = Fingerprint(r.loaded[row.verdict.cand])
      /\ row.profileHash # NoFingerprint /\ row.configHash = r.config
  BY DEF CacheHit, CacheTellsTruth, RowMatchesFingerprints
<1>2. row.verdict.content \in Stored /\ r.loaded[row.verdict.cand] \in Stored
  BY DEF TypeOK, Row, Verdict, Runs, CacheHit
<1> QED
  BY <1>1, <1>2, FingerprintInjective DEF Current

\* A worker opens its stream.
LEMMA AnswersOpen ==
  ASSUME NEW w \in Workers, TypeOK, CacheTellsTruth, AnswersOf(w), WorkerPlacement, OpenStream(w)
  PROVE  AnswersOf(w)'
<1> DEFINE r == run[w]
           hits == {row.verdict : row \in {x \in rows : CacheHit(x, run[w].loaded, run[w].config)}}
           cp == checkpoints[owns[w]]
<1>1. PICK known \in {hits, {}}, picked \in SUBSET Pool(run[w].loaded) :
        run' = [run EXCEPT ![w].verdicts = MergeCheckpoint(known, cp), ![w].todo = picked]
  BY DEF OpenStream
<1>2. r \in Runs /\ pc[w] = "cache" /\ pc'[w] = "stream" /\ rows' = rows
  BY DEF OpenStream, Goto, TypeOK
<1>3. run'[w] = [r EXCEPT !.verdicts = MergeCheckpoint(known, cp), !.todo = picked]
  BY <1>1 DEF TypeOK
<1>4. /\ run'[w].verdicts = MergeCheckpoint(known, cp) /\ run'[w].todo = picked
      /\ run'[w].loaded = r.loaded /\ run'[w].config = r.config /\ run'[w].reports = r.reports
  BY <1>2, <1>3 DEF Runs
<1>5. r.reports = {}
  BY <1>2 DEF AnswersOf
<1>6. known \in SUBSET Verdict /\ cp \in SUBSET Verdict
  BY <1>2 DEF TypeOK, Row, WorkerPlacement
<1>7. ASSUME NEW v \in MergeCheckpoint(known, cp), ~v.carried PROVE Current(v, r)
  <2>1. v \in hits
    BY <1>6, <1>7, MergeCarried
  <2>2. PICK row \in rows : v = row.verdict /\ CacheHit(row, r.loaded, r.config)
    BY <2>1
  <2> QED
    BY <1>2, <1>7, <2>2, CacheHitCurrent
<1>8. \A v \in run'[w].verdicts \cup run'[w].reports :
        ~v.carried => v.content = run'[w].loaded[v.cand] /\ v.config = run'[w].config
  BY <1>4, <1>5, <1>7 DEF Current
<1> HIDE DEF r, hits, cp
<1> QED
  BY <1>2, <1>4, <1>5, <1>8 DEF AnswersOf, Current, CandidatesOf, Pool, r

\* The agent answers for one candidate, or gives up on it.
LEMMA AnswersStream ==
  ASSUME NEW w \in Workers, TypeOK, AnswersOf(w), StreamStep(w)
  PROVE  AnswersOf(w)'
<1>1. run[w] \in Runs /\ rows' = rows /\ pc[w] = "stream"
  BY DEF TypeOK, StreamStep, ReplayCandidate, AssessCandidate, CandidateFails, StreamEnds,
         AgentError, StreamFails, Goto
<1>2. ASSUME NEW c \in run[w].todo, NEW v \in Verdict, v.cand = c, ~v.carried => Current(v, run[w]),
             run'[w] = [run[w] EXCEPT !.todo = @ \ {c}, !.reports = @ \cup {v}],
             pc' = pc
      PROVE  AnswersOf(w)'
  <2>1. /\ run'[w].todo = run[w].todo \ {c} /\ run'[w].reports = run[w].reports \cup {v}
        /\ run'[w].loaded = run[w].loaded /\ run'[w].config = run[w].config
        /\ run'[w].verdicts = run[w].verdicts
    BY <1>1, <1>2 DEF Runs
  <2>2. c \in Pool(run[w].loaded)
    BY DEF AnswersOf
  <2> QED
    BY <1>1, <1>2, <2>1, <2>2 DEF AnswersOf, Current, CandidatesOf, Pool
<1>3. ASSUME NEW v \in run[w].verdicts, ReplayCandidate(w, v) PROVE AnswersOf(w)'
  <2>1. v \in Verdict /\ v.cand \in run[w].todo /\ (~v.carried => Current(v, run[w])) /\ pc' = pc
    BY <1>1, <1>3 DEF ReplayCandidate, Runs, AnswersOf
  <2>2. run'[w] = [run[w] EXCEPT !.todo = @ \ {v.cand}, !.reports = @ \cup {v}]
    BY <1>3 DEF ReplayCandidate, TypeOK
  <2> QED
    BY <1>2, <2>1, <2>2
<1>4. ASSUME NEW c \in Candidates, AssessCandidate(w, c) PROVE AnswersOf(w)'
  <2> DEFINE v == [cand |-> c, content |-> run[w].loaded[c], config |-> run[w].config,
                   carried |-> FALSE]
  <2>1. v \in Verdict /\ v.cand = c /\ c \in run[w].todo /\ Current(v, run[w]) /\ pc' = pc
    BY <1>1, <1>4 DEF AssessCandidate, Current, AnswersOf, Pool, Runs, Verdict
  <2>2. run'[w] = [run[w] EXCEPT !.todo = @ \ {c}, !.reports = @ \cup {v}]
    BY <1>1, <1>4 DEF AssessCandidate, TypeOK
  <2> HIDE DEF v
  <2> QED
    BY <1>2, <2>1, <2>2
<1>5. ASSUME NEW c \in Candidates, CandidateFails(w, c) PROVE AnswersOf(w)'
  <2>1. /\ run'[w] = [run[w] EXCEPT !.todo = @ \ {c}] /\ pc' = pc
    BY <1>5 DEF CandidateFails, TypeOK
  <2>2. /\ run'[w].todo \subseteq run[w].todo /\ run'[w].reports = run[w].reports
        /\ run'[w].loaded = run[w].loaded /\ run'[w].config = run[w].config
        /\ run'[w].verdicts = run[w].verdicts
    BY <1>1, <2>1 DEF Runs
  <2> QED
    BY <1>1, <2>1, <2>2 DEF AnswersOf, Current, CandidatesOf, Pool
<1>6. ASSUME StreamEnds(w) \/ AgentError(w) \/ StreamFails(w) PROVE AnswersOf(w)'
  <2>1. run'[w] = run[w] /\ pc'[w] \in {"persist", "fail"}
    BY <1>6 DEF StreamEnds, AgentError, StreamFails, Goto, TypeOK
  <2> QED
    BY <1>1, <2>1 DEF AnswersOf, Current, CandidatesOf, Pool
<1> QED
  BY <1>3, <1>4, <1>5, <1>6 DEF StreamStep

\* A worker stores what it reported, each row stamped with the fingerprints of the run.
LEMMA AnswersPersist ==
  ASSUME NEW w \in Workers, TypeOK, Answers, Persist(w)
  PROVE  Answers'
<1> DEFINE r == run[w]
<1>1. r \in Runs /\ pc[w] = "persist" /\ pc' = [pc EXCEPT ![w] = "settle"] /\ run' = run
  BY DEF Persist, Goto, TypeOK
<1>2. rows' = {row \in rows : row.verdict.cand \notin CandidatesOf(r.reports)}
                \cup {Stamped(v, r) : v \in r.reports}
  BY DEF Persist
<1>3. CandidatesOf(r.reports) \subseteq {row.verdict.cand : row \in rows'}
  <2> SUFFICES ASSUME NEW v \in r.reports
               PROVE  \E row \in rows' : v.cand = row.verdict.cand
    BY DEF CandidatesOf
  <2>1. Stamped(v, r) \in rows'
    BY <1>2
  <2>2. Stamped(v, r).verdict = v
    BY DEF Stamped
  <2> QED
    BY <2>1, <2>2
<1>4. {row.verdict.cand : row \in rows} \subseteq {row.verdict.cand : row \in rows'}
  <2> SUFFICES ASSUME NEW row \in rows
               PROVE  \E new \in rows' : new.verdict.cand = row.verdict.cand
    OBVIOUS
  <2>1. CASE row.verdict.cand \notin CandidatesOf(r.reports)
    BY <1>2, <2>1
  <2>2. CASE row.verdict.cand \in CandidatesOf(r.reports)
    BY <1>3, <2>2
  <2> QED
    BY <2>1, <2>2
<1>5. CacheTellsTruth'
  <2> SUFFICES ASSUME NEW row \in rows', ~row.verdict.carried
               PROVE  RowMatchesFingerprints(row)
    BY DEF CacheTellsTruth, RowMatchesFingerprints
  <2>1. CASE row \in rows
    BY <2>1 DEF Answers, CacheTellsTruth
  <2>2. CASE row \notin rows
    <3>1. PICK v \in r.reports : row = Stamped(v, r)
      BY <1>2, <2>2
    <3>2. Current(v, r)
      BY <3>1 DEF Stamped, Answers, Provenance
    <3> QED
      BY <3>1, <3>2 DEF Stamped, RowMatchesFingerprints, Current
  <2> QED
    BY <2>1, <2>2
<1>6. ASSUME NEW v \in Workers PROVE AnswersOf(v)'
  <2>1. AnswersOf(v) /\ run'[v] = run[v]
    BY <1>1, AnswersSplit
  <2>2. /\ pc'[v] \in {"idle", "job", "pool", "cache"} => pc'[v] = pc[v]
        /\ pc'[v] \in {"settle", "clean", "announce"} =>
             v = w \/ pc[v] \in {"settle", "clean", "announce"}
    BY <1>1 DEF TypeOK
  <2> QED
    BY <1>3, <1>4, <2>1, <2>2 DEF AnswersOf, Current, CandidatesOf, Pool
<1> QED
  BY <1>5, <1>6, AnswersSplit DEF Answers, RunDiscipline, Provenance, ResultsStored, AnswersOf

\* Every other step of a worker.
LEMMA AnswersMove ==
  ASSUME NEW w \in Workers, TypeOK, AnswersOf(w),
         \/ Dequeue(w) \/ LoadJob(w) \/ LoadPool(w) \/ LoadFails(w) \/ PersistFails(w)
         \/ Settle(w) \/ Fail(w) \/ CleanCheckpoint(w) \/ AnnounceDone(w) \/ AnnounceError(w)
  PROVE  AnswersOf(w)' /\ rows' = rows
<1>0. run[w] \in Runs
  BY DEF TypeOK
<1>1. CASE LoadJob(w) \/ LoadPool(w)
  <2>1. /\ run'[w].verdicts = {} /\ run'[w].todo = {} /\ run'[w].reports = {}
        /\ pc'[w] \in {"pool", "cache"} /\ rows' = rows
    <3>1. run[w].verdicts = {} /\ run[w].todo = {} /\ run[w].reports = {}
      BY <1>1 DEF LoadJob, LoadPool, Goto, AnswersOf
    <3>2. \/ run'[w] = [run[w] EXCEPT !.config = config]
          \/ run'[w] = [run[w] EXCEPT !.loaded = resume]
      BY <1>1 DEF LoadJob, LoadPool, TypeOK
    <3>3. pc'[w] \in {"pool", "cache"} /\ rows' = rows
      BY <1>1 DEF LoadJob, LoadPool, Goto, TypeOK
    <3> QED
      BY <1>0, <3>1, <3>2, <3>3 DEF Runs
  <2> QED
    BY <2>1 DEF AnswersOf, CandidatesOf
<1>2. CASE AnnounceDone(w) \/ AnnounceError(w)
  <2>1. run'[w] = EmptyRun /\ pc'[w] = "idle" /\ rows' = rows
    BY <1>2 DEF AnnounceDone, AnnounceError, Publish, Goto, TypeOK
  <2> QED
    BY <2>1, AnswersEmpty
<1>3. CASE Dequeue(w) \/ LoadFails(w) \/ PersistFails(w) \/ Settle(w) \/ Fail(w)
           \/ CleanCheckpoint(w)
  <2>1. run' = run /\ rows' = rows
    BY <1>3 DEF Dequeue, LoadFails, PersistFails, Settle, Fail, CleanCheckpoint, WriteOutcome
  <2>2. \/ pc[w] = "idle" /\ pc'[w] = "job"
        \/ pc'[w] \in {"fail", "announceError"}
        \/ pc[w] = "settle" /\ pc'[w] = "clean"
        \/ pc[w] = "clean" /\ pc'[w] = "announce"
    BY <1>3
    DEF Dequeue, LoadFails, PersistFails, Settle, Fail, CleanCheckpoint, Goto, TypeOK
  <2> QED
    BY <2>1, <2>2 DEF AnswersOf, Current, CandidatesOf, Pool
<1> QED
  BY <1>1, <1>2, <1>3

\* Every step keeps the answers right.
LEMMA NextAnswers == TypeOK /\ WorkerPlacement /\ Answers /\ [Next]_vars => Answers'
<1> SUFFICES ASSUME TypeOK, WorkerPlacement, Answers, [Next]_vars PROVE Answers'
  OBVIOUS
<1>1. (\A w \in Workers : AnswersOf(w)) /\ CacheTellsTruth
  BY AnswersSplit
<1>2. ASSUME UNCHANGED <<pc, run, rows>> PROVE Answers'
  BY <1>2
  DEF Answers, RunDiscipline, Provenance, CacheTellsTruth, ResultsStored, Pool, CandidatesOf,
      Current, RowMatchesFingerprints
<1>3. ASSUME rows' = rows, \A w \in Workers : AnswersOf(w)' PROVE Answers'
  <2>1. CacheTellsTruth'
    BY <1>1, <1>3 DEF CacheTellsTruth, RowMatchesFingerprints
  <2> QED
    BY <1>3, <2>1
    DEF Answers, RunDiscipline, Provenance, ResultsStored, AnswersOf
<1>4. ASSUME NEW w \in Workers, WorkerStep(w), ~Persist(w) PROVE Answers'
  <2>1. rows' = rows /\ AnswersOf(w)'
    <3>1. CASE OpenStream(w)
      BY <1>1, <3>1, AnswersOpen DEF OpenStream
    <3>2. CASE StreamStep(w)
      BY <1>1, <3>2, AnswersStream
      DEF StreamStep, ReplayCandidate, AssessCandidate, CandidateFails, StreamEnds, AgentError,
          StreamFails
    <3> QED
      BY <1>1, <1>4, <3>1, <3>2, AnswersMove DEF WorkerStep
  <2>2. ASSUME NEW v \in Workers, v # w PROVE pc'[v] = pc[v] /\ run'[v] = run[v]
    BY <1>4, <2>2
    DEF WorkerStep, StreamStep, TypeOK, Goto, Dequeue, LoadJob, LoadPool, LoadFails, OpenStream,
        ReplayCandidate, AssessCandidate, CandidateFails, StreamEnds, AgentError, StreamFails,
        PersistFails,
        Settle, Fail, WriteOutcome, CleanCheckpoint, AnnounceDone, AnnounceError, Publish
  <2>3. \A v \in Workers : AnswersOf(v)'
    BY <1>1, <2>1, <2>2, AnswersAlone
  <2> QED
    BY <1>3, <2>1, <2>3
<1>5. CASE Restart
  <2>1. rows' = rows /\ \A v \in Workers : run'[v] = EmptyRun /\ pc'[v] = "idle"
    BY <1>5 DEF Restart
  <2> QED
    BY <1>3, <2>1, AnswersEmpty
<1>6. CASE RequestStep
  BY <1>2, <1>6 DEF RequestStep, Submit, RetryTask, CreateTask, Enqueue, Handover
<1>7. CASE Environment
  BY <1>2, <1>5, <1>7
  DEF Environment, UploadResume, DeleteCandidate, UpdateOverrides, ExpireCheckpoint
<1>8. CASE UNCHANGED vars
  BY <1>2, <1>8 DEF vars
<1> QED
  BY <1>4, <1>6, <1>7, <1>8, AnswersPersist DEF Next

-----------------------------------------------------------------------------
(* Invariants of the specification *)

\* The initial states satisfy the inductive invariant.
LEMMA InitIInv == Init => IInv
<1> SUFFICES ASSUME Init PROVE IInv
  OBVIOUS
<1>1. TypeOK
  BY InitType
<1>2. Queued = {} /\ \A t \in Tasks : Owners(t) = {}
  BY DEF Init, Queued, Owners
<1>3. Placement /\ NoTaskLost /\ AnnouncedIsSettled
  BY <1>2
  DEF Init, Placement, QueuePlacement, RequestPlacement, WorkerPlacement, NewPlacement,
      DistinctOwners, DistinctInQueue, NoTaskLost, AnnouncedIsSettled, NoRequest, Open
<1>4. RunDiscipline /\ Provenance /\ CacheTellsTruth /\ ResultsStored
  BY DEF Init, RunDiscipline, Provenance, CacheTellsTruth, ResultsStored, EmptyRun, CandidatesOf
<1> QED
  BY <1>1, <1>3, <1>4 DEF IInv

\* Every step preserves it.
LEMMA NextIInv == IInv /\ [Next]_vars => IInv'
BY NextType, NextWhereabouts, NextAnswers DEF IInv, Whereabouts, Answers, Placement

\* It holds in every reachable state.
THEOREM Inductive == Spec => []IInv
BY InitIInv, NextIInv, PTL DEF Spec

\* Type correctness.
THEOREM TypeCorrect == Spec => []TypeOK
<1>1. IInv => TypeOK
  BY DEF IInv
<1> QED
  BY <1>1, Inductive, PTL

\* A task is with one worker, or once in the channel, or about to be enqueued, never two of
\* these: process() may touch its row and checkpoint without a lock.
THEOREM OnePlace == Spec => []TaskInOnePlace
<1>1. IInv => TaskInOnePlace
  <2> SUFFICES ASSUME IInv PROVE TaskInOnePlace
    OBVIOUS
  <2> USE DEF IInv, Placement
  <2>1. \A t \in Tasks : t \in Queued => Owners(t) = {}
    BY DEF WorkerPlacement, Owners
  <2>2. \A t \in Tasks : request[t].step = "enqueue" => t \notin Queued /\ Owners(t) = {}
    BY DEF RequestPlacement, QueuePlacement
  <2> QED
    BY <2>1, <2>2 DEF TaskInOnePlace, DistinctOwners, DistinctInQueue
<1> QED
  BY <1>1, Inductive, PTL

\* An open row is in somebody's hands or counted as stranded, on every path process() takes.
THEOREM NothingLost == Spec => []NoTaskLost
<1>1. IInv => NoTaskLost
  BY DEF IInv
<1> QED
  BY <1>1, Inductive, PTL

\* The terminal event and the row agree, whatever was lost or failed on the way.
THEOREM AnnouncementsAgree == Spec => []AnnouncedIsSettled
<1>1. IInv => AnnouncedIsSettled
  BY DEF IInv
<1> QED
  BY <1>1, Inductive, PTL

\* The fingerprints of a stored row are those of the inputs of its verdict, unless the
\* verdict came through a checkpoint.
THEOREM CacheIsTrue == Spec => []CacheTellsTruth
<1>1. IInv => CacheTellsTruth
  BY DEF IInv
<1> QED
  BY <1>1, Inductive, PTL

\* What a run reports is about the resume and configuration it loaded, unless it came
\* through a checkpoint, however users edit both meanwhile.
THEOREM ReportsCurrent == Spec => []ReportsAreCurrent
<1>1. IInv => ReportsAreCurrent
  BY DEF IInv, Provenance, ReportsAreCurrent
<1> QED
  BY <1>1, Inductive, PTL

-----------------------------------------------------------------------------
(* Steps of the specification *)

\* Nobody touches the row of a stranded task.
LEMMA OrphanStep ==
  ASSUME IInv, [Next]_vars, NEW t \in orphans
  PROVE  status'[t] = status[t]
<1> USE DEF IInv, Placement
<1>1. t \in Tasks /\ status[t] # "none"
  BY DEF TypeOK, NewPlacement
<1>2. ASSUME NEW u \in Tasks, NEW done, CreateTask(u, done) PROVE status'[t] = status[t]
  BY <1>1, <1>2 DEF CreateTask, TypeOK
<1>3. ASSUME NEW w \in Workers, Dequeue(w) PROVE status'[t] = status[t]
  <2>1. queue \in Seq(Tasks) /\ queue # <<>>
    BY <1>3 DEF Dequeue, TypeOK
  <2>2. Head(queue) \in Queued
    BY <2>1, QueueReceive, QueuedElements DEF DistinctInQueue
  <2>3. Head(queue) # t
    BY <2>2 DEF QueuePlacement, Untouched
  <2> QED
    BY <1>1, <1>3, <2>3 DEF Dequeue, WriteStatus, TypeOK
<1>4. ASSUME NEW w \in Workers, Settle(w) \/ Fail(w) PROVE status'[t] = status[t]
  <2>1. owns[w] # t
    BY <1>4 DEF Settle, Fail, Goto, WorkerPlacement, Early
  <2> QED
    BY <1>1, <1>4, <2>1 DEF Settle, Fail, WriteOutcome, WriteStatus, TypeOK
<1>5. CASE status' = status
  BY <1>5
<1> QED
  <2>1. CASE RequestStep
    BY <1>2, <1>5, <2>1 DEF RequestStep, Submit, RetryTask, Enqueue, Handover
  <2>2. ASSUME NEW w \in Workers, WorkerStep(w) PROVE status'[t] = status[t]
    BY <1>3, <1>4, <1>5, <2>2
    DEF WorkerStep, StreamStep, LoadJob, LoadPool, LoadFails, OpenStream, ReplayCandidate,
        AssessCandidate, CandidateFails, StreamEnds, AgentError, StreamFails, Persist,
        PersistFails, CleanCheckpoint, AnnounceDone, AnnounceError, Publish
  <2>3. CASE Environment
    BY <1>5, <2>3
    DEF Environment, UploadResume, DeleteCandidate, UpdateOverrides, ExpireCheckpoint, Restart
  <2> QED
    BY <1>5, <2>1, <2>2, <2>3 DEF Next, vars

\* A stranded row stays as it is.
THEOREM StrandedStay == Spec => OrphansStay
<1>1. IInv /\ [Next]_vars => [\A t \in orphans : status'[t] = status[t]]_vars
  BY OrphanStep
<1> QED
  BY <1>1, Inductive, PTL DEF Spec, OrphansStay

\* A done goes out only from a worker that has stored what it reported.
LEMMA DoneStep ==
  ASSUME IInv, [Next]_vars, NEW w \in Workers,
         owns[w] # NoTask, told[owns[w]] = "none", told'[owns[w]] = "done"
  PROVE  CandidatesOf(run[w].reports) \subseteq {row.verdict.cand : row \in rows}
<1> USE DEF IInv, Placement
<1>1. owns[w] \in Tasks
  BY DEF TypeOK
<1>2. told' # told
  BY <1>1 DEF TypeOK
<1>3. PICK v \in Workers : AnnounceDone(v) \/ AnnounceError(v) \/ AgentError(v)
  <2>1. ~RequestStep
    BY <1>2 DEF RequestStep, Submit, RetryTask, CreateTask, Enqueue, Handover
  <2>2. ~Environment
    BY <1>2
    DEF Environment, UploadResume, DeleteCandidate, UpdateOverrides, ExpireCheckpoint, Restart
  <2>3. ASSUME NEW v \in Workers, WorkerStep(v)
        PROVE  AnnounceDone(v) \/ AnnounceError(v) \/ AgentError(v)
    BY <1>2, <2>3
    DEF WorkerStep, StreamStep, Dequeue, LoadJob, LoadPool, LoadFails, OpenStream,
        ReplayCandidate, AssessCandidate, CandidateFails, StreamEnds, StreamFails, Persist,
        PersistFails, Settle, Fail, WriteOutcome, CleanCheckpoint
  <2> QED
    BY <1>2, <2>1, <2>2, <2>3 DEF Next, vars
<1>4. owns[v] = owns[w] /\ AnnounceDone(v)
  BY <1>1, <1>3 DEF AnnounceDone, AnnounceError, AgentError, Publish, Announce, TypeOK
<1>5. v = w
  BY <1>4 DEF DistinctOwners
<1>6. pc[w] = "announce"
  BY <1>4, <1>5 DEF AnnounceDone, Publish, Goto
<1> QED
  BY <1>6 DEF ResultsStored

\* Results first, done after.
THEOREM ResultsFirst == Spec => DoneAfterResults
<1>1. IInv /\ [Next]_vars =>
        [\A w \in Workers :
           (owns[w] # NoTask /\ told[owns[w]] = "none" /\ told'[owns[w]] = "done")
             => CandidatesOf(run[w].reports) \subseteq {row.verdict.cand : row \in rows}]_vars
  BY DoneStep
<1> QED
  BY <1>1, Inductive, PTL DEF Spec, DoneAfterResults

-----------------------------------------------------------------------------
(* The engine implements the life cycle of a task *)

\* The phase of one task becomes p and those of the others stay.
LEMMA PhaseSet ==
  ASSUME NEW t \in Tasks, NEW p,
         \A u \in Tasks \ {t} : status'[u] = status[u] /\ (u \in orphans' <=> u \in orphans),
         p = IF t \in orphans' THEN "stranded" ELSE status'[t]
  PROVE  Phase' = [Phase EXCEPT ![t] = p]
BY DEF Phase

\* Initial states are initial states of the life cycle.
LEMMA LifeInit == Init => Life!Init
BY DEF Init, Life!Init, Phase

\* A worker's final write settles or strands its task.
LEMMA LifeOutcome ==
  ASSUME IInv, NEW w \in Workers, Settle(w) \/ Fail(w)
  PROVE  Life!Next
<1> USE DEF IInv, Placement
<1>1. PICK t \in Tasks : t = owns[w] /\ t # NoTask
  BY DEF Settle, Fail, Goto, WorkerPlacement, TypeOK
<1>2. status[t] \in Open /\ t \notin orphans /\ Phase[t] = status[t]
  BY <1>1 DEF Settle, Fail, Goto, WorkerPlacement, Early, Phase
<1>3. PICK s \in {"succeeded", "failed"} :
        WriteOutcome(w, s) /\ (s = "succeeded" => pc[w] = "settle")
  BY DEF Settle, Fail, Goto
<1>4. told' = told
  BY <1>3 DEF WriteOutcome
<1>5. CASE status' = [status EXCEPT ![t] = s] /\ orphans' = orphans
  <2>1. Phase' = [Phase EXCEPT ![t] = s]
    BY <1>2, <1>5, PhaseSet DEF TypeOK
  <2>2. Life!Move(t, Open, s) /\ s \in Settled
    BY <1>2, <1>4, <2>1 DEF Life!Move, Settled
  <2>3. told[t] \in {"none", Life!Outcome(s)}
    BY <1>1, <1>3 DEF WorkerPlacement, Life!Outcome
  <2> QED
    BY <2>2, <2>3 DEF Life!Next, Life!Settle, Life!Open, Life!Settled, Open, Settled
<1>6. CASE orphans' = orphans \cup {t} /\ status' = status
  <2>1. Phase' = [Phase EXCEPT ![t] = "stranded"]
    BY <1>6, PhaseSet
  <2>2. Life!Strand(t)
    BY <1>2, <1>4, <2>1 DEF Life!Strand, Life!Move, Life!Open, Open
  <2> QED
    BY <2>2 DEF Life!Next
<1> QED
  BY <1>1, <1>3, <1>5, <1>6 DEF WriteOutcome, WriteStatus

\* A worker's announcement tells the life cycle's outcome, or is lost.
LEMMA LifePublish ==
  ASSUME IInv, NEW w \in Workers, AnnounceDone(w) \/ AnnounceError(w) \/ AgentError(w)
  PROVE  Life!Next \/ UNCHANGED Life!vars
<1> USE DEF IInv, Placement
<1>1. PICK t \in Tasks : t = owns[w] /\ t # NoTask
  BY DEF AnnounceDone, AnnounceError, AgentError, Publish, Goto, WorkerPlacement, TypeOK
<1>2. Phase' = Phase
  BY DEF AnnounceDone, AnnounceError, AgentError, Publish, Phase
<1>3. PICK e \in {"done", "error"} :
        /\ Announce(t, e)
        /\ \/ e = "done" /\ pc[w] = "announce"
           \/ e = "error" /\ pc[w] \in {"announceError", "stream"}
  BY <1>1 DEF AnnounceDone, AnnounceError, AgentError, Publish, Goto
<1>4. CASE told' = told
  BY <1>2, <1>4 DEF Life!vars
<1>5. CASE told' # told
  <2>1. told' = [told EXCEPT ![t] = e] /\ told[t] # e
    <3>1. told = [told EXCEPT ![t] = told[t]]
      BY DEF TypeOK
    <3>2. PICK x \in {e, told[t]} : told' = [told EXCEPT ![t] = x]
      BY <1>3 DEF Announce
    <3>3. x # told[t]
      BY <1>5, <3>1, <3>2
    <3> QED
      BY <3>2, <3>3
  <2>2. told[t] = "none"
    BY <1>1, <1>3, <2>1 DEF WorkerPlacement
  <2>3. \/ t \in orphans
        \/ e = "done" /\ status[t] = "succeeded"
        \/ e = "error" /\ status[t] \in Open \cup {"failed"}
    BY <1>1, <1>3 DEF WorkerPlacement, Early
  <2>4. e \in Life!Announceable(Phase[t])
    BY <2>3 DEF Phase, Life!Announceable, Life!Settled, Life!Open, Life!Outcome, Open
  <2>5. Life!Tell(t)
    BY <1>2, <2>1, <2>2, <2>4 DEF Life!Tell
  <2> QED
    BY <2>5 DEF Life!Next
<1> QED
  BY <1>4, <1>5

\* Every step of the engine is a step of the life cycle or none.
LEMMA LifeNext ==
  ASSUME IInv, [Next]_vars
  PROVE  Life!Next \/ UNCHANGED Life!vars
<1> USE DEF IInv, Placement
<1>1. ASSUME UNCHANGED <<status, told, orphans>> PROVE UNCHANGED Life!vars
  BY <1>1 DEF Life!vars, Phase
<1>2. ASSUME NEW t \in Tasks, NEW done, CreateTask(t, done) PROVE Life!Next
  <2>1. t \notin orphans /\ Phase[t] = "none"
    BY <1>2 DEF CreateTask, NewPlacement, Phase
  <2>2. Phase' = [Phase EXCEPT ![t] = "pending"]
    BY <1>2, <2>1, PhaseSet DEF CreateTask, TypeOK
  <2>3. Life!Accept(t)
    BY <1>2, <2>1, <2>2 DEF CreateTask, Life!Accept, Life!Move
  <2> QED
    BY <2>3 DEF Life!Next
<1>3. ASSUME NEW t \in Tasks, Enqueue(t) PROVE Life!Next \/ UNCHANGED Life!vars
  <2>1. Phase[t] = "pending" /\ UNCHANGED <<status, told>>
    BY <1>3 DEF Enqueue, RequestPlacement, Untouched, Phase
  <2>2. CASE orphans' = orphans
    BY <1>1, <2>1, <2>2
  <2>3. CASE orphans' = orphans \cup {t}
    <3>1. Phase' = [Phase EXCEPT ![t] = "stranded"]
      BY <2>1, <2>3, PhaseSet
    <3>2. Life!Strand(t)
      BY <2>1, <3>1 DEF Life!Strand, Life!Move, Life!Open
    <3> QED
      BY <3>2 DEF Life!Next
  <2> QED
    BY <1>3, <2>2, <2>3 DEF Enqueue
<1>4. ASSUME NEW w \in Workers, Dequeue(w) PROVE Life!Next \/ UNCHANGED Life!vars
  <2>1. queue \in Seq(Tasks) /\ queue # <<>>
    BY <1>4 DEF Dequeue, TypeOK
  <2>2. PICK t \in Tasks : t = Head(queue)
    BY <2>1
  <2>3. t \in Queued
    BY <2>1, <2>2, QueueReceive, QueuedElements DEF DistinctInQueue
  <2>4. Phase[t] = "pending" /\ t \notin orphans
    BY <2>3 DEF QueuePlacement, Untouched, Phase
  <2>5. UNCHANGED <<told, orphans>>
    BY <1>4 DEF Dequeue
  <2>6. CASE status' = status
    BY <1>1, <2>5, <2>6
  <2>7. CASE status' = [status EXCEPT ![t] = "running"]
    <3>1. Phase' = [Phase EXCEPT ![t] = "running"]
      BY <2>4, <2>5, <2>7, PhaseSet DEF TypeOK
    <3>2. Life!Begin(t)
      BY <2>4, <2>5, <3>1 DEF Life!Begin, Life!Move
    <3> QED
      BY <3>2 DEF Life!Next
  <2> QED
    BY <1>4, <2>2, <2>6, <2>7 DEF Dequeue, WriteStatus
<1>5. CASE Restart
  <2>1. Phase' = [t \in Tasks |-> IF Phase[t] \in Open THEN "stranded" ELSE Phase[t]]
    BY <1>5 DEF Restart, Phase, Open
  <2> QED
    BY <1>5, <2>1 DEF Restart, Life!Next, Life!StrandAll, Life!Open, Open
<1>6. CASE RequestStep
  BY <1>1, <1>2, <1>3, <1>6 DEF RequestStep, Submit, RetryTask, Handover
<1>7. ASSUME NEW w \in Workers, WorkerStep(w) PROVE Life!Next \/ UNCHANGED Life!vars
  BY <1>1, <1>4, <1>7, LifeOutcome, LifePublish
  DEF WorkerStep, StreamStep, LoadJob, LoadPool, LoadFails, OpenStream, ReplayCandidate,
      AssessCandidate, CandidateFails, StreamEnds, StreamFails, Persist, PersistFails,
      CleanCheckpoint
<1>8. CASE Environment
  BY <1>1, <1>5, <1>8
  DEF Environment, UploadResume, DeleteCandidate, UpdateOverrides, ExpireCheckpoint
<1> QED
  BY <1>1, <1>6, <1>7, <1>8 DEF Next, vars

\* Queue, worker pool, retries and crashes implement the life cycle of one task: it settles
\* at most once, after having been accepted, and what is announced is what it settled as.
THEOREM Implements == Spec => ImplementsLifecycle
<1>1. IInv /\ [Next]_vars => [Life!Next]_(Life!vars)
  BY LifeNext
<1> QED
  BY <1>1, LifeInit, Inductive, PTL DEF Spec, ImplementsLifecycle, Life!SafeSpec
=============================================================================
