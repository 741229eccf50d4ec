---------------------------- MODULE InterviewSend ----------------------------
(***************************************************************************)
(* Interview invitations: frontend/src/pages/Interview.tsx,                *)
(* backend/internal/service/interview_service.go with the idempotency      *)
(* guard of backend/internal/pkg/redisclient/redis.go, and send_interview  *)
(* of agent/app/services/interview/scheduler.py.                           *)
(*                                                                         *)
(* A page holds a draft and a form; sending takes the guard of what the    *)
(* form says, has the agent mail the draft, and gives the guard back when  *)
(* the agent's answer is an error.  The agent works on when the backend    *)
(* no longer waits for it; the mail server may deliver and not say so.     *)
(*                                                                         *)
(* An invitation stands for a candidate and a job.  The calendar entry is  *)
(* best effort and left out.                                               *)
(***************************************************************************)
EXTENDS FiniteSets

CONSTANTS
  Invitations,   \* pairs of a candidate and a job
  Pages,         \* browser pages, of one user or of several
  Requests,      \* send requests: bounds the clicks
  None

ASSUME NoneAssumption == None \notin Invitations \cup Requests

VARIABLES
  form,      \* form[u]: what the form of page u selects
  draft,     \* draft[u]: what the draft of page u is for, or None
  sending,   \* sending[u]: the request page u waits for, or None
  step,      \* step[r]: where request r is in InterviewService.Send
  key,       \* key[r]: the invitation whose guard r takes
  to,        \* to[r]: the invitation whose draft r sends
  agent,     \* agent[r]: where r is in the agent's send_interview
  guard,     \* guard[i]: the request whose token the Redis key of i holds, or None
  mailed,    \* history: requests whose mail was delivered
  forgotten  \* history: invitations whose key Redis dropped: after 24 h, or on losing data

pageVars == <<form, draft, sending>>
vars == <<form, draft, sending, step, key, to, agent, guard, mailed, forgotten>>

\* How a request ends: sent, refused as a repetition, failed with the guard given back, failed
\* with the guard left behind, or gone with the process.
Over == {"sent", "refused", "failed", "abandoned", "crashed"}

TypeOK ==
  /\ form \in [Pages -> Invitations]
  /\ draft \in [Pages -> Invitations \cup {None}]
  /\ sending \in [Pages -> Requests \cup {None}]
  /\ step \in [Requests -> {"new", "acquire", "call", "answer", "release"} \cup Over]
  /\ key \in [Requests -> Invitations \cup {None}]
  /\ to \in [Requests -> Invitations \cup {None}]
  /\ agent \in [Requests -> {"none", "mail", "ok", "error"}]
  /\ guard \in [Invitations -> Requests \cup {None}]
  /\ mailed \subseteq Requests
  /\ forgotten \subseteq Invitations
  /\ \A r \in Requests : step[r] # "new" => {key[r], to[r]} \subseteq Invitations

Init ==
  /\ form \in [Pages -> Invitations]
  /\ draft = [u \in Pages |-> None]
  /\ sending = [u \in Pages |-> None]
  /\ step = [r \in Requests |-> "new"]
  /\ key = [r \in Requests |-> None]
  /\ to = [r \in Requests |-> None]
  /\ agent = [r \in Requests |-> "none"]
  /\ guard = [i \in Invitations |-> None]
  /\ mailed = {} /\ forgotten = {}

-----------------------------------------------------------------------------
(* The page *)

\* The form stays editable after the draft was written for what it said before.
EditForm(u, i) ==
  /\ form' = [form EXCEPT ![u] = i]
  /\ UNCHANGED <<draft, sending, step, key, to, agent, guard, mailed, forgotten>>

\* A draft that arrives after the form was edited is this one followed by the edit; when it
\* cannot be written the old one stays.
Draft(u) ==
  /\ draft' = [draft EXCEPT ![u] = form[u]]
  /\ UNCHANGED <<form, sending, step, key, to, agent, guard, mailed, forgotten>>

\* onSend returns early without a draft, and the button is busy while it waits.  A faulty
\* variant forgets the early return.
MaySendAtOnce(u) == sending[u] = None
MaySend(u) == draft[u] # None /\ sending[u] = None

\* onSend takes candidate and job from the form and everything else from the draft.
ClickSend(u, r) ==
  /\ MaySend(u) /\ step[r] = "new"
  /\ sending' = [sending EXCEPT ![u] = r]
  /\ step' = [step EXCEPT ![r] = "acquire"]
  /\ key' = [key EXCEPT ![r] = form[u]]
  /\ to' = [to EXCEPT ![r] = draft[u]]
  /\ UNCHANGED <<form, draft, agent, guard, mailed, forgotten>>

\* The answer arrives, or the page stops waiting; the draft stays and can be sent again.
StopWaiting(u) ==
  /\ sending[u] # None
  /\ sending' = [sending EXCEPT ![u] = None]
  /\ UNCHANGED <<form, draft, step, key, to, agent, guard, mailed, forgotten>>

-----------------------------------------------------------------------------
(* InterviewService.Send *)

Goto(r, from, to_) == step[r] = from /\ step' = [step EXCEPT ![r] = to_]

\* Reading candidate and job fails, or Redis cannot be reached.
FailsEarly(r) ==
  /\ Goto(r, "acquire", "failed")
  /\ UNCHANGED <<pageVars, key, to, agent, guard, mailed, forgotten>>

\* The Redis key is there.  A faulty variant forgets NX.
HeldNever(i) == FALSE
Held(i) == guard[i] # None

\* SET NX by a fresh token; the answer may be lost.
Acquire(r) ==
  /\ step[r] = "acquire" /\ ~ Held(key[r])
  /\ guard' = [guard EXCEPT ![key[r]] = r]
  /\ Goto(r, "acquire", "call") \/ Goto(r, "acquire", "abandoned")
  /\ UNCHANGED <<pageVars, key, to, agent, mailed, forgotten>>

Refuse(r) ==
  /\ step[r] = "acquire" /\ Held(key[r])
  /\ Goto(r, "acquire", "refused")
  /\ UNCHANGED <<pageVars, key, to, agent, guard, mailed, forgotten>>

CallAgent(r) ==
  /\ Goto(r, "call", "answer")
  /\ agent' = [agent EXCEPT ![r] = "mail"]
  /\ UNCHANGED <<pageVars, key, to, guard, mailed, forgotten>>

\* What the agent's answer leads to.  A faulty variant: an answer is an answer.
StepAfterAnyAnswer(answer) == "sent"
StepAfter(answer) == IF answer = "ok" THEN "sent" ELSE "release"

Answered(r) ==
  /\ agent[r] \in {"ok", "error"}
  /\ Goto(r, "answer", StepAfter(agent[r]))
  /\ UNCHANGED <<pageVars, key, to, agent, guard, mailed, forgotten>>

\* The agent cannot be reached, its answer is lost, the client's time-out is over, or the page
\* has gone and took the context with it.  The agent may be at work.
CallFails(r) ==
  /\ Goto(r, "call", "release") \/ Goto(r, "answer", "release")
  /\ UNCHANGED <<pageVars, key, to, agent, guard, mailed, forgotten>>

\* releaseScript compares the token.  Faulty variants: DEL without looking; no release.
ReleasedNothing(r) == guard
ReleasedUnchecked(r) == [guard EXCEPT ![key[r]] = None]
Released(r) == [guard EXCEPT ![key[r]] = IF @ = r THEN None ELSE @]

\* The result of the script is not looked at.
Release(r) ==
  /\ \/ Goto(r, "release", "failed") /\ guard' = Released(r)
     \/ Goto(r, "release", "abandoned") /\ UNCHANGED guard
  /\ UNCHANGED <<pageVars, key, to, agent, mailed, forgotten>>

-----------------------------------------------------------------------------
(* The agent: send_interview *)

\* The mail tool delivers or not.  When its answer is ok, the mail is out; when it is lost or
\* late, which call_tool turns into an error, or when the agent dies, the mail may be out.
SendMail(r) ==
  /\ agent[r] = "mail"
  /\ \/ mailed' = mailed \cup {r} /\ agent' = [agent EXCEPT ![r] = "ok"]
     \/ mailed' \in {mailed, mailed \cup {r}} /\ agent' = [agent EXCEPT ![r] = "error"]
  /\ UNCHANGED <<pageVars, step, key, to, guard, forgotten>>

-----------------------------------------------------------------------------

\* The backend goes away and leaves its guards behind.
Crash ==
  /\ step' = [r \in Requests |-> IF step[r] \in {"new"} \cup Over THEN step[r] ELSE "crashed"]
  /\ sending' = [u \in Pages |-> None]
  /\ UNCHANGED <<form, draft, key, to, agent, guard, mailed, forgotten>>

\* The key expires after 24 h, or Redis loses it.
Forget(i) ==
  /\ guard[i] # None
  /\ guard' = [guard EXCEPT ![i] = None]
  /\ forgotten' = forgotten \cup {i}
  /\ UNCHANGED <<pageVars, step, key, to, agent, mailed>>

PageStep(u) ==
  \/ \E i \in Invitations : EditForm(u, i)
  \/ Draft(u) \/ StopWaiting(u)
  \/ \E r \in Requests : ClickSend(u, r)

BackendStep(r) ==
  \/ FailsEarly(r) \/ Acquire(r) \/ Refuse(r)
  \/ CallAgent(r) \/ Answered(r) \/ CallFails(r) \/ Release(r)

Next ==
  \/ \E u \in Pages : PageStep(u)
  \/ \E r \in Requests : BackendStep(r) \/ SendMail(r)
  \/ Crash
  \/ \E i \in Invitations : Forget(i)

Spec == Init /\ [][Next]_vars
-----------------------------------------------------------------------------
(* Properties *)

Holding == {"call", "answer", "release", "sent"}

\* At most one request at a time acts under the guard of an invitation, as long as Redis keeps
\* the key.
GuardIsExclusive ==
  \A r, s \in Requests :
    r # s /\ step[r] \in Holding /\ step[s] \in Holding /\ key[r] = key[s]
      => key[r] \in forgotten

\* A key that keeps others out stands for an invitation that was sent or is being sent, unless
\* a lost answer of Redis or a crash left it behind: a failed invitation can be repeated.
HeldForAReason ==
  \A i \in Invitations : guard[i] # None =>
    /\ key[guard[i]] = i
    /\ step[guard[i]] \in Holding \cup {"abandoned", "crashed"}

\* "Sent" on the page means that the mail server has it.
SentMeansMailed == \A r \in Requests : step[r] = "sent" => r \in mailed

\* Two mails for one invitation have one of three causes: a draft sent under another
\* invitation's guard, an error reported for a mail that was or would be delivered, or a
\* guard that Redis no longer had.
RepeatedMailsExplained ==
  \A r, s \in mailed :
    r # s /\ to[r] = to[s] =>
      \/ \E x \in {r, s} : key[x] # to[x] \/ step[x] \in {"failed", "abandoned"}
      \/ to[r] \in forgotten

\* Giving a guard back never takes it from a request that got it later.
OnlyOwnGuardReleased ==
  [][\A r \in Requests :
       step[r] = "release" /\ step'[r] = "failed" =>
         \A i \in Invitations : guard'[i] # guard[i] => guard[i] = r]_vars

-----------------------------------------------------------------------------
(* The inductive invariant *)

\* The agent is called under the guard, and works for nobody who has not called.
AgentCalled ==
  \A r \in Requests : agent[r] # "none" =>
    step[r] \in {"answer", "release", "sent", "failed", "abandoned", "crashed"}

\* A request keeps its guard until it gives it back, a request that crashed in the agent's
\* time for good.
GuardKept ==
  \A r \in Requests :
    \/ step[r] \in Holding
    \/ step[r] = "crashed" /\ agent[r] # "none"
    => guard[key[r]] = r \/ key[r] \in forgotten

\* The agent reports no mail that is not out, and mails for callers only.
AnswersTrue ==
  \A r \in Requests :
    /\ agent[r] = "ok" => r \in mailed
    /\ r \in mailed => agent[r] # "none"

SendInv ==
  /\ TypeOK /\ HeldForAReason /\ AgentCalled /\ GuardKept /\ AnswersTrue /\ SentMeansMailed
=============================================================================
