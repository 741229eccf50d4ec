------------------------- MODULE ScreeningPageProofs -------------------------
(***************************************************************************)
(* Proofs about ScreeningPage, for every set of tasks and candidates.      *)
(***************************************************************************)
EXTENDS ScreeningPage, TLAPS

\* The page starts with nothing under way.
LEMMA InitInv == Init => PageInv
BY NoTaskAssumption
   DEF Init, PageInv, TypeOK, Life!TypeOK, Life!Init, Life!Phases, NoRows, InboxWasTold,
       SpinnerHasCause, OneThingAtATime, Pending, OpenStream, Ended

\* Every step keeps the types, and an inbox filled only while its stream is live.
LEMMA TypeStep ==
  ASSUME TypeOK, [Next]_vars
  PROVE  TypeOK'
<1> USE NoTaskAssumption DEF TypeOK, Life!TypeOK, Life!Phases, Life!Open, Life!Settled,
           Life!Announceable, Life!Outcome, Pending, OpenStream, Ended, NoRows, pageVars,
           lifeVars
<1>1. ASSUME NEW t \in Tasks, ClickSubmit(t) PROVE TypeOK'
  <2>1. stream' \in [Tasks -> {"none"} \cup OpenStream \cup Ended]
    BY <1>1 DEF ClickSubmit, AfterSubmit
  <2>2. overlapped' \in BOOLEAN /\ error' \in BOOLEAN
    BY <1>1 DEF ClickSubmit
  <2>3. inbox' \in [Tasks -> {"none", "done", "error"}]
    BY <1>1, <2>1 DEF ClickSubmit
  <2>4. /\ \A u \in Tasks : inbox'[u] # "none" => stream'[u] = "live"
        /\ \A u \in Tasks : stream'[u] # "none" => post'[u] = "over"
    BY <1>1 DEF ClickSubmit, AfterSubmit, Fresh
  <2>5. post' \in [Tasks -> {"none", "over"} \cup Pending]
    BY <1>1 DEF ClickSubmit
  <2>6. /\ {task', spinner', active'} \subseteq Tasks \cup {NoTask}
        /\ results' \in [Candidates -> Tasks \cup {NoTask}]
    BY <1>1 DEF ClickSubmit
  <2>7. UNCHANGED <<phase, told, stored, rows, parent, loads>>
    BY <1>1 DEF ClickSubmit
  <2> QED
    BY <2>1, <2>2, <2>3, <2>4, <2>5, <2>6, <2>7
<1>2. ASSUME NEW t \in Tasks, ClickRetry(t) PROVE TypeOK'
  <2>1. overlapped' \in BOOLEAN /\ error' \in BOOLEAN
    BY <1>2 DEF ClickRetry
  <2>2. \A u \in Tasks : stream'[u] # "none" => post'[u] = "over"
    BY <1>2 DEF ClickRetry, Fresh
  <2>3. post' \in [Tasks -> {"none", "over"} \cup Pending]
    BY <1>2 DEF ClickRetry
  <2>4. parent' \in [Tasks -> Tasks \cup {NoTask}]
    BY <1>2 DEF ClickRetry
  <2>5. UNCHANGED <<phase, told, stored, rows, stream, inbox, task, spinner, loads, results,
                    active>>
    BY <1>2 DEF ClickRetry
  <2> QED
    BY <2>1, <2>2, <2>3, <2>4, <2>5
<1>3. ASSUME NEW t \in Tasks, Answered(t) PROVE TypeOK'
  BY <1>3 DEF Answered
<1>4. ASSUME NEW t \in Tasks, PostFails(t) PROVE TypeOK'
  BY <1>4 DEF PostFails
<1>5. ASSUME NEW t \in Tasks, Subscribe(t) PROVE TypeOK'
  BY <1>5 DEF Subscribe
<1>6. ASSUME NEW t \in Tasks, Deliver(t) PROVE TypeOK'
  BY <1>6 DEF Deliver, SpinnerAfter
<1>7. ASSUME NEW t \in Tasks, Eof(t) PROVE TypeOK'
  BY <1>7 DEF Eof
<1>8. ASSUME NEW t \in Tasks, Breaks(t) PROVE TypeOK'
  BY <1>8 DEF Breaks
<1>9. ASSUME NEW t \in Tasks, Accept(t) PROVE TypeOK'
  BY <1>9 DEF Accept, Life!Accept, Life!Move
<1>10. ASSUME NEW t \in Tasks, Store(t) PROVE TypeOK'
  BY <1>10 DEF Store
<1>11. ASSUME NEW t \in Tasks, Settle(t) PROVE TypeOK'
  BY <1>11 DEF Settle, Life!Strand, Life!Settle, Life!Move, Repeat, Delivered
<1>12. ASSUME NEW t \in Tasks, Publish(t) PROVE TypeOK'
  BY <1>12 DEF Publish, Life!Tell, Delivered
<1>13. ASSUME NEW t \in Tasks, Loaded(t) PROVE TypeOK'
  BY <1>13 DEF Loaded
<1>14. ASSUME NEW t \in Tasks, LoadFails(t) PROVE TypeOK'
  BY <1>14 DEF LoadFails
<1>15. ASSUME LoadHistory PROVE TypeOK'
  BY <1>15 DEF LoadHistory
<1>16. ASSUME Restart PROVE TypeOK'
  BY <1>16 DEF Restart, Life!StrandAll, Broken
<1>17. CASE UNCHANGED vars
  BY <1>17 DEF vars
<1> QED
  BY <1>1, <1>2, <1>3, <1>4, <1>5, <1>6, <1>7, <1>8, <1>9,
     <1>10, <1>11, <1>12, <1>13, <1>14, <1>15, <1>16, <1>17
     DEF Next, PageStep, StreamStep, TaskStep

\* What a stream is about to deliver was announced, and announcements stay.
LEMMA InboxStep ==
  ASSUME TypeOK, InboxWasTold, [Next]_vars
  PROVE  InboxWasTold'
<1> USE NoTaskAssumption DEF TypeOK, Life!TypeOK, InboxWasTold, Life!Announceable,
           Life!Outcome, pageVars, lifeVars
<1>1. ASSUME NEW t \in Tasks, ClickSubmit(t) PROVE InboxWasTold'
  BY <1>1 DEF ClickSubmit, Fresh, AfterSubmit
<1>2. ASSUME NEW t \in Tasks, ClickRetry(t) PROVE InboxWasTold'
  BY <1>2 DEF ClickRetry, Fresh
<1>3. ASSUME NEW t \in Tasks, Answered(t) PROVE InboxWasTold'
  BY <1>3 DEF Answered
<1>4. ASSUME NEW t \in Tasks, PostFails(t) PROVE InboxWasTold'
  BY <1>4 DEF PostFails
<1>5. ASSUME NEW t \in Tasks, Subscribe(t) PROVE InboxWasTold'
  BY <1>5 DEF Subscribe
<1>6. ASSUME NEW t \in Tasks, Deliver(t) PROVE InboxWasTold'
  BY <1>6 DEF Deliver, SpinnerAfter
<1>7. ASSUME NEW t \in Tasks, Eof(t) PROVE InboxWasTold'
  BY <1>7 DEF Eof
<1>8. ASSUME NEW t \in Tasks, Breaks(t) PROVE InboxWasTold'
  BY <1>8 DEF Breaks
<1>9. ASSUME NEW t \in Tasks, Accept(t) PROVE InboxWasTold'
  BY <1>9 DEF Accept, Life!Accept, Life!Move
<1>10. ASSUME NEW t \in Tasks, Store(t) PROVE InboxWasTold'
  BY <1>10 DEF Store
<1>11. ASSUME NEW t \in Tasks, Settle(t) PROVE InboxWasTold'
  BY <1>11 DEF Settle, Life!Strand, Life!Settle, Life!Move, Repeat, Delivered
<1>12. ASSUME NEW t \in Tasks, Publish(t) PROVE InboxWasTold'
  BY <1>12 DEF Publish, Life!Tell, Delivered
<1>13. ASSUME NEW t \in Tasks, Loaded(t) PROVE InboxWasTold'
  BY <1>13 DEF Loaded
<1>14. ASSUME NEW t \in Tasks, LoadFails(t) PROVE InboxWasTold'
  BY <1>14 DEF LoadFails
<1>15. ASSUME LoadHistory PROVE InboxWasTold'
  BY <1>15 DEF LoadHistory
<1>16. ASSUME Restart PROVE InboxWasTold'
  BY <1>16 DEF Restart, Life!StrandAll, Broken
<1>17. CASE UNCHANGED vars
  BY <1>17 DEF vars
<1> QED
  BY <1>1, <1>2, <1>3, <1>4, <1>5, <1>6, <1>7, <1>8, <1>9,
     <1>10, <1>11, <1>12, <1>13, <1>14, <1>15, <1>16, <1>17
     DEF Next, PageStep, StreamStep, TaskStep

\* The spinner goes off with what it stands for.
LEMMA SpinnerStep ==
  ASSUME TypeOK, SpinnerHasCause, [Next]_vars
  PROVE  SpinnerHasCause'
<1> USE NoTaskAssumption DEF TypeOK, SpinnerHasCause, Pending, OpenStream, pageVars, lifeVars
<1>1. ASSUME NEW t \in Tasks, ClickSubmit(t) PROVE SpinnerHasCause'
  BY <1>1 DEF ClickSubmit, Fresh, AfterSubmit
<1>2. ASSUME NEW t \in Tasks, ClickRetry(t) PROVE SpinnerHasCause'
  BY <1>2 DEF ClickRetry, Fresh
<1>3. ASSUME NEW t \in Tasks, Answered(t) PROVE SpinnerHasCause'
  BY <1>3 DEF Answered
<1>4. ASSUME NEW t \in Tasks, PostFails(t) PROVE SpinnerHasCause'
  BY <1>4 DEF PostFails
<1>5. ASSUME NEW t \in Tasks, Subscribe(t) PROVE SpinnerHasCause'
  BY <1>5 DEF Subscribe
<1>6. ASSUME NEW t \in Tasks, Deliver(t) PROVE SpinnerHasCause'
  BY <1>6 DEF Deliver, SpinnerAfter
<1>7. ASSUME NEW t \in Tasks, Eof(t) PROVE SpinnerHasCause'
  BY <1>7 DEF Eof
<1>8. ASSUME NEW t \in Tasks, Breaks(t) PROVE SpinnerHasCause'
  BY <1>8 DEF Breaks
<1>9. ASSUME NEW t \in Tasks, Accept(t) PROVE SpinnerHasCause'
  BY <1>9 DEF Accept, Life!Accept, Life!Move
<1>10. ASSUME NEW t \in Tasks, Store(t) PROVE SpinnerHasCause'
  BY <1>10 DEF Store
<1>11. ASSUME NEW t \in Tasks, Settle(t) PROVE SpinnerHasCause'
  BY <1>11 DEF Settle, Life!Strand, Life!Settle, Life!Move, Repeat, Delivered
<1>12. ASSUME NEW t \in Tasks, Publish(t) PROVE SpinnerHasCause'
  BY <1>12 DEF Publish, Life!Tell, Delivered
<1>13. ASSUME NEW t \in Tasks, Loaded(t) PROVE SpinnerHasCause'
  BY <1>13 DEF Loaded
<1>14. ASSUME NEW t \in Tasks, LoadFails(t) PROVE SpinnerHasCause'
  BY <1>14 DEF LoadFails
<1>15. ASSUME LoadHistory PROVE SpinnerHasCause'
  BY <1>15 DEF LoadHistory
<1>16. ASSUME Restart PROVE SpinnerHasCause'
  BY <1>16 DEF Restart, Life!StrandAll, Broken
<1>17. CASE UNCHANGED vars
  BY <1>17 DEF vars
<1> QED
  BY <1>1, <1>2, <1>3, <1>4, <1>5, <1>6, <1>7, <1>8, <1>9,
     <1>10, <1>11, <1>12, <1>13, <1>14, <1>15, <1>16, <1>17
     DEF Next, PageStep, StreamStep, TaskStep

\* A page that never overlaps requests does one thing at a time.
LEMMA FocusStep ==
  ASSUME TypeOK, InboxWasTold, SpinnerHasCause, ~overlapped => OneThingAtATime, [Next]_vars
  PROVE  (~overlapped => OneThingAtATime)'
<1> USE NoTaskAssumption DEF TypeOK, Life!TypeOK, InboxWasTold, OneThingAtATime, Pending,
           OpenStream, Ended, Posting, pageVars, lifeVars
<1>1. ASSUME NEW t \in Tasks, ClickSubmit(t) PROVE (~overlapped => OneThingAtATime)'
  <2> SUFFICES ASSUME ~overlapped' PROVE OneThingAtATime'
    OBVIOUS
  <2>1. ~overlapped /\ ~Posting("retry")
    BY <1>1 DEF ClickSubmit
  <2>2. \A u \in Tasks : post[u] \notin Pending
    BY <1>1, <2>1 DEF ClickSubmit
  <2>3. \A u \in Tasks : stream'[u] \notin OpenStream
    BY <1>1, <2>1 DEF ClickSubmit, AfterSubmit
  <2> QED
    BY <1>1, <2>2, <2>3 DEF ClickSubmit
<1>2. ASSUME NEW t \in Tasks, ClickRetry(t) PROVE (~overlapped => OneThingAtATime)'
  BY <1>2 DEF ClickRetry, Fresh
<1>3. ASSUME NEW t \in Tasks, Answered(t) PROVE (~overlapped => OneThingAtATime)'
  BY <1>3 DEF Answered
<1>4. ASSUME NEW t \in Tasks, PostFails(t) PROVE (~overlapped => OneThingAtATime)'
  BY <1>4 DEF PostFails
<1>5. ASSUME NEW t \in Tasks, Subscribe(t) PROVE (~overlapped => OneThingAtATime)'
  BY <1>5 DEF Subscribe
<1>6. ASSUME NEW t \in Tasks, Deliver(t) PROVE (~overlapped => OneThingAtATime)'
  BY <1>6 DEF Deliver, SpinnerAfter
<1>7. ASSUME NEW t \in Tasks, Eof(t) PROVE (~overlapped => OneThingAtATime)'
  BY <1>7 DEF Eof
<1>8. ASSUME NEW t \in Tasks, Breaks(t) PROVE (~overlapped => OneThingAtATime)'
  BY <1>8 DEF Breaks
<1>9. ASSUME NEW t \in Tasks, Accept(t) PROVE (~overlapped => OneThingAtATime)'
  BY <1>9 DEF Accept, Life!Accept, Life!Move
<1>10. ASSUME NEW t \in Tasks, Store(t) PROVE (~overlapped => OneThingAtATime)'
  BY <1>10 DEF Store
<1>11. ASSUME NEW t \in Tasks, Settle(t) PROVE (~overlapped => OneThingAtATime)'
  BY <1>11 DEF Settle, Life!Strand, Life!Settle, Life!Move, Repeat, Delivered
<1>12. ASSUME NEW t \in Tasks, Publish(t) PROVE (~overlapped => OneThingAtATime)'
  BY <1>12 DEF Publish, Life!Tell, Delivered
<1>13. ASSUME NEW t \in Tasks, Loaded(t) PROVE (~overlapped => OneThingAtATime)'
  BY <1>13 DEF Loaded
<1>14. ASSUME NEW t \in Tasks, LoadFails(t) PROVE (~overlapped => OneThingAtATime)'
  BY <1>14 DEF LoadFails
<1>15. ASSUME LoadHistory PROVE (~overlapped => OneThingAtATime)'
  BY <1>15 DEF LoadHistory
<1>16. ASSUME Restart PROVE (~overlapped => OneThingAtATime)'
  BY <1>16 DEF Restart, Life!StrandAll, Broken
<1>17. CASE UNCHANGED vars
  BY <1>17 DEF vars
<1> QED
  BY <1>1, <1>2, <1>3, <1>4, <1>5, <1>6, <1>7, <1>8, <1>9,
     <1>10, <1>11, <1>12, <1>13, <1>14, <1>15, <1>16, <1>17
     DEF Next, PageStep, StreamStep, TaskStep

\* Rows are only refiled and only loaded for tasks that ended, whose own rows are all written.
LEMMA ResultsStep ==
  ASSUME TypeOK, InboxWasTold, ResultsInv, [Next]_vars
  PROVE  ResultsInv'
<1> USE NoTaskAssumption DEF TypeOK, Life!TypeOK, InboxWasTold, ResultsInv, Life!Announceable,
           Life!Outcome, Pending, OpenStream, Ended, pageVars, lifeVars
<1>1. ASSUME NEW t \in Tasks, ClickSubmit(t) PROVE ResultsInv'
  <2>1. /\ active' = NoTask /\ \A c \in Candidates : results'[c] = NoTask
        /\ UNCHANGED <<told, stored, rows, loads>>
    BY <1>1 DEF ClickSubmit, NoRows
  <2>2. \A u \in Tasks : stream'[u] # stream[u] => stream[u] \in OpenStream /\ stream'[u] = "closed"
    BY <1>1 DEF ClickSubmit, AfterSubmit
  <2> QED
    BY <2>1, <2>2
<1>2. ASSUME NEW t \in Tasks, ClickRetry(t) PROVE ResultsInv'
  BY <1>2 DEF ClickRetry, Fresh
<1>3. ASSUME NEW t \in Tasks, Answered(t) PROVE ResultsInv'
  BY <1>3 DEF Answered
<1>4. ASSUME NEW t \in Tasks, PostFails(t) PROVE ResultsInv'
  BY <1>4 DEF PostFails
<1>5. ASSUME NEW t \in Tasks, Subscribe(t) PROVE ResultsInv'
  BY <1>5 DEF Subscribe
<1>6. ASSUME NEW t \in Tasks, Deliver(t) PROVE ResultsInv'
  BY <1>6 DEF Deliver, SpinnerAfter
<1>7. ASSUME NEW t \in Tasks, Eof(t) PROVE ResultsInv'
  BY <1>7 DEF Eof
<1>8. ASSUME NEW t \in Tasks, Breaks(t) PROVE ResultsInv'
  BY <1>8 DEF Breaks
<1>9. ASSUME NEW t \in Tasks, Accept(t) PROVE ResultsInv'
  BY <1>9 DEF Accept, Life!Accept, Life!Move
<1>10. ASSUME NEW t \in Tasks, Store(t) PROVE ResultsInv'
  BY <1>10 DEF Store
<1>11. ASSUME NEW t \in Tasks, Settle(t) PROVE ResultsInv'
  BY <1>11 DEF Settle, Life!Strand, Life!Settle, Life!Move, Repeat, Delivered
<1>12. ASSUME NEW t \in Tasks, Publish(t) PROVE ResultsInv'
  BY <1>12 DEF Publish, Life!Tell, Delivered
<1>13. ASSUME NEW t \in Tasks, Loaded(t) PROVE ResultsInv'
  BY <1>13 DEF Loaded
<1>14. ASSUME NEW t \in Tasks, LoadFails(t) PROVE ResultsInv'
  BY <1>14 DEF LoadFails
<1>15. ASSUME LoadHistory PROVE ResultsInv'
  BY <1>15 DEF LoadHistory
<1>16. ASSUME Restart PROVE ResultsInv'
  BY <1>16 DEF Restart, Life!StrandAll, Broken
<1>17. CASE UNCHANGED vars
  BY <1>17 DEF vars
<1> QED
  BY <1>1, <1>2, <1>3, <1>4, <1>5, <1>6, <1>7, <1>8, <1>9,
     <1>10, <1>11, <1>12, <1>13, <1>14, <1>15, <1>16, <1>17
     DEF Next, PageStep, StreamStep, TaskStep

\* The invariant holds in every reachable state.
THEOREM Inductive == Spec => []PageInv
<1>1. PageInv /\ [Next]_vars => PageInv'
  BY TypeStep, InboxStep, SpinnerStep, FocusStep DEF PageInv
<1> QED
  BY InitInv, <1>1, PTL DEF Spec

\* Type correctness.
THEOREM PageTypes == Spec => []TypeOK
  BY Inductive, PTL DEF PageInv

\* The spinner always has a cause that can still end it, or a broken connection.
THEOREM SpinnerNeverOrphaned == Spec => []SpinnerHasCause
<1>1. PageInv => SpinnerHasCause
  BY DEF PageInv
<1> QED
  BY Inductive, <1>1, PTL

\* One stream at a time drives the page.
THEOREM OneStreamAtATime == Spec => []OneStream
<1>1. PageInv => OneStream
  BY DEF PageInv, OneStream, OneThingAtATime
<1> QED
  BY Inductive, <1>1, PTL

\* The retry button is about the task the error is about.
THEOREM RetryContinuesFailed == Spec => []RetryMeansFailed
<1>1. PageInv => RetryMeansFailed
  BY DEF PageInv, RetryMeansFailed, OneThingAtATime
<1> QED
  BY Inductive, <1>1, PTL

\* A page that saw its task finish shows the rows of all the candidates the task reported.
THEOREM ResultsAreComplete == Spec => []ResultsComplete
<1>1. Init => ResultsInv
  BY NoTaskAssumption DEF Init, ResultsInv, NoRows, Life!Init
<1>2. TypeOK /\ InboxWasTold /\ ResultsInv /\ [Next]_vars => ResultsInv'
  BY ResultsStep
<1>3. PageInv => TypeOK /\ InboxWasTold
  BY DEF PageInv
<1>4. TypeOK /\ ResultsInv => ResultsComplete
  BY DEF TypeOK, ResultsInv, ResultsComplete, Shown
<1> QED
  BY Inductive, <1>1, <1>2, <1>3, <1>4, PTL DEF Spec
=============================================================================
