---------------------------- MODULE ScreeningPage ----------------------------
(***************************************************************************)
(* The browser's screening page and the event stream it listens to:        *)
(* frontend/src/pages/Screening.tsx over streamScreenEvents of             *)
(* frontend/src/api/client.ts and Events of                                *)
(* backend/internal/handler/screen_handler.go.                             *)
(*                                                                         *)
(* The tasks are those of TaskLifecycle, submitted by this page or by      *)
(* somebody else for the same job.  The page submits or retries, opens one *)
(* stream per task it is answered for, and ends its running state when a   *)
(* stream tells it to.  Redis delivers an event only to who is subscribed  *)
(* at that moment, and nothing is kept or replayed.                        *)
(*                                                                         *)
(* Only terminal events are modelled: the others change what is drawn.     *)
(***************************************************************************)
EXTENDS FiniteSets, Naturals

CONSTANTS
  Tasks,       \* task identifiers, and with them the number of clicks
  NoTask,      \* no task; also the writer of a row that is not there
  Candidates

ASSUME NoTaskAssumption == NoTask \notin Tasks

VARIABLES
  phase, told,   \* the tasks, as in TaskLifecycle
  stored,        \* stored[t]: candidates whose row task t wrote
  rows,          \* rows[c]: column task_id of candidate c's match_results row
  stream,        \* stream[t]: the event stream of t, or how it ended
  inbox,         \* inbox[t]: the terminal event that stream is about to deliver
  post,          \* post[t]: the page's POST that creates t
  parent,        \* parent[t]: the task a retry refers to
  task,          \* page: the task shown, whose stream cancelRef aborts
  spinner,       \* page: the submission the running state stands for, NoTask when it is off
  error,         \* page: the error banner, with the retry button
  loads,         \* page: result queries under way, by the task they are for
  results,       \* page: the rows last loaded
  active,        \* page: activeTaskId, whose results are shown (NoTask: all)
  overlapped     \* history: a submission and a retry were under way together

lifeVars == <<phase, told>>
pageVars == <<task, spinner, error, loads, results, active>>
vars == <<phase, told, stored, rows, stream, inbox, post, parent, task, spinner, error,
          loads, results, active, overlapped>>

Life == INSTANCE TaskLifecycle

Pending == {"submit", "retry"}
OpenStream == {"connecting", "live"}
Ended == {"done", "broken", "closed"}

TypeOK ==
  /\ Life!TypeOK
  /\ stored \in [Tasks -> SUBSET Candidates]
  /\ rows \in [Candidates -> Tasks \cup {NoTask}]
  /\ stream \in [Tasks -> {"none"} \cup OpenStream \cup Ended]
  /\ inbox \in [Tasks -> {"none", "done", "error"}]
  /\ \A t \in Tasks : inbox[t] # "none" => stream[t] = "live"
  /\ \A t \in Tasks : stream[t] # "none" => post[t] = "over"
  /\ post \in [Tasks -> {"none", "over"} \cup Pending]
  /\ parent \in [Tasks -> Tasks \cup {NoTask}]
  /\ {task, spinner, active} \subseteq Tasks \cup {NoTask}
  /\ error \in BOOLEAN /\ overlapped \in BOOLEAN
  /\ loads \subseteq Tasks
  /\ results \in [Candidates -> Tasks \cup {NoTask}]

NoRows == [c \in Candidates |-> NoTask]

Init ==
  /\ Life!Init
  /\ stored = [t \in Tasks |-> {}]
  /\ rows = NoRows
  /\ stream = [t \in Tasks |-> "none"]
  /\ inbox = [t \in Tasks |-> "none"]
  /\ post = [t \in Tasks |-> "none"]
  /\ parent = [t \in Tasks |-> NoTask]
  /\ task = NoTask /\ spinner = NoTask /\ error = FALSE
  /\ loads = {} /\ results = NoRows /\ active = NoTask
  /\ overlapped = FALSE

-----------------------------------------------------------------------------
(* The page: clicks and answers *)

Fresh(t) == phase[t] = "none" /\ post[t] = "none"

Posting(kind) == \E t \in Tasks : post[t] = kind

\* cancelRef.current(): only the newest stream is known to it.  A faulty variant: the old
\* stream is left open.
AfterSubmitKeepingStream(s) == s
AfterSubmit(s) ==
  IF task # NoTask /\ s[task] \in OpenStream THEN [s EXCEPT ![task] = "closed"] ELSE s

\* The submit button, disabled while the page is running.
ClickSubmit(t) ==
  /\ Fresh(t) /\ spinner = NoTask
  /\ post' = [post EXCEPT ![t] = "submit"]
  /\ stream' = AfterSubmit(stream)
  /\ inbox' = [u \in Tasks |-> IF stream'[u] = "live" THEN inbox[u] ELSE "none"]
  /\ spinner' = t /\ error' = FALSE /\ results' = NoRows /\ active' = NoTask
  /\ overlapped' = IF Posting("retry") THEN TRUE ELSE overlapped
  /\ UNCHANGED <<lifeVars, stored, rows, parent, task, loads>>

\* The retry button of the error banner.  It neither starts the spinner nor aborts a stream.
ClickRetry(t) ==
  /\ Fresh(t) /\ error /\ task # NoTask /\ ~Posting("retry")
  /\ post' = [post EXCEPT ![t] = "retry"]
  /\ parent' = [parent EXCEPT ![t] = task]
  /\ error' = FALSE
  /\ overlapped' = IF Posting("submit") THEN TRUE ELSE overlapped
  /\ UNCHANGED <<lifeVars, stored, rows, stream, inbox, task, spinner, loads, results,
                 active>>

\* The answer 202 arrives; its task may have run and ended by then.
Answered(t) ==
  /\ post[t] \in Pending /\ phase[t] # "none"
  /\ post' = [post EXCEPT ![t] = "over"]
  /\ task' = t
  /\ stream' = [stream EXCEPT ![t] = "connecting"]
  /\ UNCHANGED <<lifeVars, stored, rows, inbox, parent, spinner, error, loads, results, active,
                 overlapped>>

\* A refusal, or an answer that is lost although the task was accepted.
PostFails(t) ==
  /\ post[t] \in Pending
  /\ post' = [post EXCEPT ![t] = "over"]
  /\ parent' = [parent EXCEPT ![t] = NoTask]
  /\ spinner' = IF post[t] = "submit" THEN NoTask ELSE spinner
  /\ UNCHANGED <<lifeVars, stored, rows, stream, inbox, task, error, loads, results,
                 active, overlapped>>

-----------------------------------------------------------------------------
(* The stream *)

\* The handler has found the row and subscribed: nothing published before will come.
Subscribe(t) ==
  /\ stream[t] = "connecting"
  /\ stream' = [stream EXCEPT ![t] = "live"]
  /\ UNCHANGED <<lifeVars, stored, rows, inbox, post, parent, pageVars, overlapped>>

\* The spinner after an event.  A faulty variant: an error leaves it on.
SpinnerAfterForgetting(event) == IF event = "done" THEN NoTask ELSE spinner
SpinnerAfter(event) == NoTask

\* The handler returns after a terminal event, the page acts on it.
Deliver(t) ==
  /\ stream[t] = "live" /\ inbox[t] # "none"
  /\ stream' = [stream EXCEPT ![t] = IF inbox[t] = "done" THEN "done" ELSE "closed"]
  /\ inbox' = [inbox EXCEPT ![t] = "none"]
  /\ spinner' = SpinnerAfter(inbox[t])
  /\ error' = (error \/ inbox[t] = "error")
  /\ loads' = IF inbox[t] = "done" THEN loads \cup {t} ELSE loads
  /\ UNCHANGED <<lifeVars, stored, rows, post, parent, task, results, active, overlapped>>

\* The stream ends properly without a terminal event.
Eof(t) ==
  /\ stream[t] = "live"
  /\ stream' = [stream EXCEPT ![t] = "closed"]
  /\ inbox' = [inbox EXCEPT ![t] = "none"]
  /\ spinner' = NoTask
  /\ loads' = loads \cup {t}
  /\ UNCHANGED <<lifeVars, stored, rows, post, parent, task, error, results, active,
                 overlapped>>

\* The connection is refused or breaks: onClose is called with "error", which the page ignores.
Broken(s) == [t \in Tasks |-> IF s[t] \in OpenStream THEN "broken" ELSE s[t]]

Breaks(t) ==
  /\ stream[t] \in OpenStream
  /\ stream' = [stream EXCEPT ![t] = "broken"]
  /\ inbox' = [inbox EXCEPT ![t] = "none"]
  /\ UNCHANGED <<lifeVars, stored, rows, post, parent, pageVars, overlapped>>

-----------------------------------------------------------------------------
(* Results *)

\* The history button: all rows, whatever task they are from.
LoadHistory ==
  /\ results' = rows /\ active' = NoTask
  /\ UNCHANGED <<lifeVars, stored, rows, stream, inbox, post, parent, task, spinner, error,
                 loads, overlapped>>

\* matchResults: all rows of the job.  Answers of several queries come in any order.
Loaded(t) ==
  /\ t \in loads
  /\ loads' = loads \ {t}
  /\ results' = rows /\ active' = t
  /\ UNCHANGED <<lifeVars, stored, rows, stream, inbox, post, parent, task, spinner, error,
                 overlapped>>

LoadFails(t) ==
  /\ t \in loads
  /\ loads' = loads \ {t}
  /\ UNCHANGED <<lifeVars, stored, rows, stream, inbox, post, parent, task, spinner, error,
                 results, active, overlapped>>

\* sortedResults: with an active task only its own rows.
Shown == {c \in Candidates :
            results[c] # NoTask /\ (active # NoTask => results[c] = active)}

-----------------------------------------------------------------------------
(* The tasks *)

\* What reaches the inbox of who is subscribed now.  A faulty variant: the event waits for
\* whoever comes later.
DeliveredLater(t, event) == [inbox EXCEPT ![t] = event]
Delivered(t, event) == [inbox EXCEPT ![t] = IF stream[t] = "live" THEN event ELSE @]

\* The terminal event; an error that is out before its row is the agent's own.
Publish(t) ==
  /\ Life!Tell(t)
  /\ inbox' = Delivered(t, told'[t])
  /\ UNCHANGED <<stored, rows, stream, post, parent, pageVars, overlapped>>

\* failTask publishes that error once more, if Redis takes it.
Repeat(t) ==
  inbox' \in {inbox} \cup (IF told[t] = "error" THEN {Delivered(t, "error")} ELSE {})

\* The server accepts a POST of this page or somebody else's; a retry needs a settled parent.
Accept(t) ==
  /\ post[t] # "over"
  /\ Life!Accept(t)
  /\ post[t] = "retry" => phase[parent[t]] \in Life!Settled
  /\ parent' = [parent EXCEPT ![t] = NoTask]
  /\ UNCHANGED <<stored, rows, stream, inbox, post, pageVars, overlapped>>

\* A task is given up or settles.  (That a worker begins is nothing the page can see.)
Settle(t) ==
  /\ \/ Life!Strand(t)
     \/ Life!Settle(t) /\ (stored[t] # {} => phase'[t] = "succeeded")
  /\ Repeat(t)
  /\ UNCHANGED <<stored, rows, stream, post, parent, pageVars, overlapped>>

\* A faulty variant: the rows are written when done is already out.
StoreAfterSettling(t) ==
  /\ phase[t] = "succeeded" /\ stored[t] = {}
  /\ \E reported \in SUBSET Candidates \ {{}} :
       /\ stored' = [stored EXCEPT ![t] = reported]
       /\ rows' = [c \in Candidates |-> IF c \in reported THEN t ELSE rows[c]]
  /\ UNCHANGED <<lifeVars, stream, inbox, post, parent, pageVars, overlapped>>

\* The upsert: every candidate reported gets its row, filed under this task.
Store(t) ==
  /\ phase[t] \in Life!Open /\ told[t] = "none" /\ stored[t] = {}
  /\ \E reported \in SUBSET Candidates \ {{}} :
       /\ stored' = [stored EXCEPT ![t] = reported]
       /\ rows' = [c \in Candidates |-> IF c \in reported THEN t ELSE rows[c]]
  /\ UNCHANGED <<lifeVars, stream, inbox, post, parent, pageVars, overlapped>>

\* The backend goes away: open tasks are stranded, streams break.
Restart ==
  /\ Life!StrandAll
  /\ stream' = Broken(stream)
  /\ inbox' = [t \in Tasks |-> "none"]
  /\ UNCHANGED <<stored, rows, post, parent, pageVars, overlapped>>

-----------------------------------------------------------------------------

PageStep(t) == ClickSubmit(t) \/ ClickRetry(t) \/ Answered(t) \/ PostFails(t)

StreamStep(t) == Subscribe(t) \/ Deliver(t) \/ Eof(t) \/ Breaks(t)

TaskStep(t) == Accept(t) \/ Store(t) \/ Settle(t) \/ Publish(t)

Next ==
  \/ \E t \in Tasks : PageStep(t) \/ StreamStep(t) \/ TaskStep(t)
  \/ \E t \in Tasks : Loaded(t) \/ LoadFails(t)
  \/ LoadHistory
  \/ Restart

Spec == Init /\ [][Next]_vars
-----------------------------------------------------------------------------
(* Properties *)

\* The spinner always belongs to something that can still end it: the submission that started
\* it is being posted or its stream is open.  The known exception is a broken connection.
SpinnerHasCause ==
  spinner # NoTask =>
    post[spinner] = "submit" \/ stream[spinner] \in OpenStream \cup {"broken"}

\* A page listens to one task at a time, so that two tasks never drive one spinner, unless it
\* submitted and retried at once, whose answers overwrite one cancelRef.
OneStream ==
  overlapped \/ \A s, t \in Tasks : {stream[s], stream[t]} \subseteq OpenStream => s = t

\* The retry button beside the error continues the task the error is about.
RetryMeansFailed == overlapped \/ (error => told[task] = "error")

\* Once a task was seen to finish, its page has a row for every candidate the task reported,
\* hidden only when another task has filed it under its own identifier.
ResultsComplete ==
  active # NoTask /\ stream[active] = "done" =>
    \A c \in stored[active] :
      c \in Shown \/ (results[c] \in Tasks /\ c \in stored[results[c]])

-----------------------------------------------------------------------------
(* The inductive invariant behind the properties *)

\* What is about to be delivered was announced.
InboxWasTold == \A t \in Tasks : inbox[t] # "none" => told[t] = inbox[t]

\* Without overlapping requests the page does one thing at a time: it posts, or listens to the
\* task it shows, or shows the error that task ended with.
OneThingAtATime ==
  /\ \A t \in Tasks : stream[t] \in OpenStream => t = task
  /\ \A s, t \in Tasks : post[s] \in Pending => stream[t] \notin OpenStream
  /\ \A s, t \in Tasks : post[s] \in Pending /\ post[t] \in Pending => s = t
  /\ \A t \in Tasks : post[t] = "submit" => spinner = t
  /\ error => /\ task # NoTask /\ told[task] = "error"
              /\ \A t \in Tasks : post[t] \notin Pending /\ stream[t] \notin OpenStream

\* Only what ended is loaded, an ending as done was announced as one, rows are of candidates their
\* task reported, and the page shows a row for whatever the task it shows reported.
ResultsInv ==
  /\ \A t \in Tasks : t \in loads \/ t = active => stream[t] \in {"done", "closed"}
  /\ \A t \in Tasks : stream[t] = "done" => told[t] = "done"
  /\ \A c \in Candidates : /\ rows[c] # NoTask => c \in stored[rows[c]]
                           /\ results[c] # NoTask => c \in stored[results[c]]
  /\ \A t \in Tasks : \A c \in stored[t] :
       /\ rows[c] # NoTask
       /\ t = active /\ stream[t] = "done" => results[c] # NoTask

PageInv == TypeOK /\ InboxWasTold /\ SpinnerHasCause /\ (~overlapped => OneThingAtATime)
=============================================================================
