-------------------------- MODULE InterviewSendProofs --------------------------
(***************************************************************************)
(* Proofs about InterviewSend for any invitations, pages and requests:     *)
(* SendInv is inductive, and the safety properties of the module follow.   *)
(***************************************************************************)
EXTENDS InterviewSend, TLAPS

\* The invariant holds initially.
LEMMA InitSend == Init => SendInv
<1> SUFFICES ASSUME Init PROVE SendInv
  OBVIOUS
<1>1. TypeOK
  BY DEF Init, TypeOK
<1>2. HeldForAReason /\ AgentCalled /\ GuardKept /\ AnswersTrue /\ SentMeansMailed
  BY DEF Init, HeldForAReason, AgentCalled, GuardKept, AnswersTrue, SentMeansMailed, Holding
<1> QED
  BY <1>1, <1>2 DEF SendInv

\* Every step keeps the types.
LEMMA TypePreserved == SendInv /\ [Next]_vars => TypeOK'
<1> SUFFICES ASSUME SendInv, [Next]_vars PROVE TypeOK'
  OBVIOUS
<1> USE NoneAssumption DEF SendInv, TypeOK, pageVars, Over
<1>1. ASSUME NEW u \in Pages, PageStep(u) PROVE TypeOK'
  <2>1. ASSUME NEW i \in Invitations, EditForm(u, i) PROVE TypeOK'
    BY <2>1 DEF EditForm
  <2>2. CASE Draft(u)
    BY <2>2 DEF Draft
  <2>3. CASE StopWaiting(u)
    BY <2>3 DEF StopWaiting
  <2>4. ASSUME NEW r \in Requests, ClickSend(u, r) PROVE TypeOK'
    BY <2>4 DEF ClickSend, MaySend
  <2> QED
    BY <1>1, <2>1, <2>2, <2>3, <2>4 DEF PageStep
<1>2. ASSUME NEW r \in Requests, BackendStep(r) PROVE TypeOK'
  <2>1. CASE FailsEarly(r)
    BY <2>1 DEF FailsEarly, Goto
  <2>2. CASE Acquire(r)
    BY <2>2 DEF Acquire, Goto
  <2>3. CASE Refuse(r)
    BY <2>3 DEF Refuse, Goto
  <2>4. CASE CallAgent(r)
    BY <2>4 DEF CallAgent, Goto
  <2>5. CASE Answered(r)
    BY <2>5 DEF Answered, Goto, StepAfter
  <2>6. CASE CallFails(r)
    BY <2>6 DEF CallFails, Goto
  <2>7. CASE Release(r)
    BY <2>7 DEF Release, Released, Goto
  <2> QED
    BY <1>2, <2>1, <2>2, <2>3, <2>4, <2>5, <2>6, <2>7 DEF BackendStep
<1>3. ASSUME NEW r \in Requests, SendMail(r) PROVE TypeOK'
  BY <1>3 DEF SendMail
<1>4. CASE Crash
  BY <1>4 DEF Crash
<1>5. ASSUME NEW i \in Invitations, Forget(i) PROVE TypeOK'
  BY <1>5 DEF Forget
<1>6. CASE UNCHANGED vars
  BY <1>6 DEF vars
<1> QED
  BY <1>1, <1>2, <1>3, <1>4, <1>5, <1>6 DEF Next

\* Every step of page, backend, agent and Redis keeps the invariant.
LEMMA SendPreserved == SendInv /\ [Next]_vars => SendInv'
<1> SUFFICES ASSUME SendInv, [Next]_vars PROVE SendInv'
  OBVIOUS
<1>t. TypeOK'
  BY TypePreserved
<1> DEFINE Rest == HeldForAReason /\ AgentCalled /\ GuardKept /\ AnswersTrue /\ SentMeansMailed
<1> SUFFICES Rest'
  BY <1>t DEF SendInv
<1> USE NoneAssumption DEF SendInv, TypeOK, pageVars, Over, Holding,
      HeldForAReason, AgentCalled, GuardKept, AnswersTrue, SentMeansMailed
<1>1. ASSUME NEW u \in Pages, PageStep(u) PROVE Rest'
  <2>1. ASSUME NEW i \in Invitations, EditForm(u, i) PROVE Rest'
    BY <2>1 DEF EditForm
  <2>2. CASE Draft(u)
    BY <2>2 DEF Draft
  <2>3. CASE StopWaiting(u)
    BY <2>3 DEF StopWaiting
  <2>4. ASSUME NEW r \in Requests, ClickSend(u, r) PROVE Rest'
    BY <2>4 DEF ClickSend
  <2> QED
    BY <1>1, <2>1, <2>2, <2>3, <2>4 DEF PageStep
<1>2. ASSUME NEW r \in Requests, BackendStep(r) PROVE Rest'
  <2>1. CASE FailsEarly(r)
    BY <2>1 DEF FailsEarly, Goto
  <2>2. CASE Acquire(r)
    BY <2>2 DEF Acquire, Held, Goto
  <2>3. CASE Refuse(r)
    BY <2>3 DEF Refuse, Goto
  <2>4. CASE CallAgent(r)
    BY <2>4 DEF CallAgent, Goto
  <2>5. CASE Answered(r)
    BY <2>5 DEF Answered, Goto, StepAfter
  <2>6. CASE CallFails(r)
    BY <2>6 DEF CallFails, Goto
  <2>7. CASE Release(r)
    BY <2>7 DEF Release, Released, Goto
  <2> QED
    BY <1>2, <2>1, <2>2, <2>3, <2>4, <2>5, <2>6, <2>7 DEF BackendStep
<1>3. ASSUME NEW r \in Requests, SendMail(r) PROVE Rest'
  BY <1>3 DEF SendMail
<1>4. CASE Crash
  BY <1>4 DEF Crash
<1>5. ASSUME NEW i \in Invitations, Forget(i) PROVE Rest'
  BY <1>5 DEF Forget
<1>6. CASE UNCHANGED vars
  BY <1>6 DEF vars
<1> QED
  BY <1>1, <1>2, <1>3, <1>4, <1>5, <1>6 DEF Next

\* Every reachable state satisfies the inductive invariant.
THEOREM SendInductive == Spec => []SendInv
  BY InitSend, SendPreserved, PTL DEF Spec

-----------------------------------------------------------------------------

\* Type correctness.
THEOREM SendTypes == Spec => []TypeOK
  BY SendInductive, PTL DEF SendInv

\* A key in Redis is somebody's who works for it, or of one that crashed in the agent's time.
THEOREM HeldWithReason == Spec => []HeldForAReason
  BY SendInductive, PTL DEF SendInv

\* Two requests never act under the guard of one invitation unless Redis dropped its key: SET
\* NX lets one in, and only its own release or the loss of the key takes the guard away.
THEOREM GuardExclusive == Spec => []GuardIsExclusive
<1>1. SendInv => GuardIsExclusive
  BY NoneAssumption DEF SendInv, TypeOK, GuardKept, GuardIsExclusive, Holding
<1> QED
  BY <1>1, SendInductive, PTL

\* "Sent" is never shown for a mail that the mail server does not have.
THEOREM SentIsMailed == Spec => []SentMeansMailed
<1>1. SendInv => SentMeansMailed
  BY DEF SendInv
<1> QED
  BY <1>1, SendInductive, PTL

\* A second mail for one invitation has one of the three causes RepeatedMailsExplained lists;
\* a crash of the backend is none of them, for its guard stays.
THEOREM RepetitionsExplained == Spec => []RepeatedMailsExplained
<1>1. ASSUME SendInv PROVE RepeatedMailsExplained
  <2> SUFFICES ASSUME NEW r \in mailed, NEW s \in mailed, r # s, to[r] = to[s],
                      key[r] = to[r], key[s] = to[s],
                      step[r] \notin {"failed", "abandoned"},
                      step[s] \notin {"failed", "abandoned"}
               PROVE  to[r] \in forgotten
    BY DEF RepeatedMailsExplained
  <2>1. r \in Requests /\ s \in Requests
    BY <1>1 DEF SendInv, TypeOK
  <2>2. guard[key[r]] = r \/ key[r] \in forgotten
    BY <1>1, <2>1 DEF SendInv, AnswersTrue, AgentCalled, GuardKept, Holding
  <2>3. guard[key[s]] = s \/ key[s] \in forgotten
    BY <1>1, <2>1 DEF SendInv, AnswersTrue, AgentCalled, GuardKept, Holding
  <2> QED
    BY <2>2, <2>3
<1> QED
  BY <1>1, SendInductive, PTL

\* A request that gives its guard back changes no guard that holds another request's token.
THEOREM ReleaseTakesOwn == Spec => OnlyOwnGuardReleased
<1> DEFINE OwnStep ==
      \A r \in Requests :
        step[r] = "release" /\ step'[r] = "failed" =>
          \A i \in Invitations : guard'[i] # guard[i] => guard[i] = r
<1>1. ASSUME SendInv, [Next]_vars PROVE OwnStep
  <2> USE NoneAssumption, <1>1 DEF SendInv, TypeOK, pageVars
  <2> SUFFICES ASSUME NEW r \in Requests, NEW i \in Invitations,
                      step[r] = "release", step'[r] = "failed", guard'[i] # guard[i]
               PROVE  guard[i] = r
    OBVIOUS
  <2>1. ASSUME NEW u \in Pages, PageStep(u) PROVE FALSE
    BY <2>1 DEF PageStep, EditForm, Draft, StopWaiting, ClickSend
  <2>2. ASSUME NEW s \in Requests, BackendStep(s) PROVE guard[i] = r
    <3>1. CASE Release(s)
      BY <3>1 DEF Release, Released, Goto
    <3>2. CASE FailsEarly(s) \/ Acquire(s) \/ Refuse(s) \/ CallAgent(s) \/ Answered(s)
               \/ CallFails(s)
      BY <3>2 DEF FailsEarly, Acquire, Refuse, CallAgent, Answered, CallFails, Goto
    <3> QED
      BY <2>2, <3>1, <3>2 DEF BackendStep
  <2>3. ASSUME NEW s \in Requests, SendMail(s) PROVE FALSE
    BY <2>3 DEF SendMail
  <2>4. CASE Crash
    BY <2>4 DEF Crash, Over
  <2>5. ASSUME NEW j \in Invitations, Forget(j) PROVE FALSE
    BY <2>5 DEF Forget
  <2>6. CASE UNCHANGED vars
    BY <2>6 DEF vars
  <2> QED
    BY <1>1, <2>1, <2>2, <2>3, <2>4, <2>5, <2>6 DEF Next
<1> QED
  BY <1>1, SendInductive, PTL DEF Spec, OnlyOwnGuardReleased
=============================================================================
