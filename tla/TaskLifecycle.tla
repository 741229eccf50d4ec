---------------------------- MODULE TaskLifecycle ----------------------------
(***************************************************************************)
(* What the screening service promises about one screening task, whatever  *)
(* queue, worker pool or agent stands behind it.                           *)
(*                                                                         *)
(* A task that was accepted waits, is worked on, and settles once, as      *)
(* succeeded or as failed; what its event channel is told first is final   *)
(* and agrees with it.  A task may also be stranded: its row will never    *)
(* change again although it has not settled (the service says 42901 after  *)
(* having created the row, dies with the task in memory, or cannot write   *)
(* the final status).  The phases are the TaskStatus values of             *)
(* backend/internal/model/entity.go, "none" for a task that does not exist *)
(* yet and "stranded".                                                     *)
(***************************************************************************)
CONSTANT Tasks

VARIABLES
  phase,    \* phase[t]: where task t stands
  told      \* told[t]: the terminal event published for t, "none" before

vars == <<phase, told>>

Settled == {"succeeded", "failed"}
Open    == {"pending", "running"}
Phases  == {"none", "stranded"} \cup Open \cup Settled

Outcome(s) == IF s = "succeeded" THEN "done" ELSE "error"

TypeOK ==
  /\ phase \in [Tasks -> Phases]
  /\ told  \in [Tasks -> {"none", "done", "error"}]

Init ==
  /\ phase = [t \in Tasks |-> "none"]
  /\ told  = [t \in Tasks |-> "none"]

Move(t, from, to) ==
  /\ phase[t] \in from
  /\ phase' = [phase EXCEPT ![t] = to]
  /\ UNCHANGED told

Accept(t) == Move(t, {"none"}, "pending")
Begin(t)  == Move(t, {"pending"}, "running")
Strand(t) == Move(t, Open, "stranded")

\* A worker whose write of "running" failed settles a row that still waits.  What was
\* announced before cannot be taken back.
Settle(t) ==
  \E s \in Settled : told[t] \in {"none", Outcome(s)} /\ Move(t, Open, s)

\* The process dies: every open task is stranded at once.
StrandAll ==
  /\ phase' = [t \in Tasks |-> IF phase[t] \in Open THEN "stranded" ELSE phase[t]]
  /\ UNCHANGED told

\* What may be announced of a task in phase p.  An error may go out before the row says
\* failed, a success may not.  A stranded task may still be announced: its worker knows the
\* outcome, the row does not.
Announceable(p) ==
  IF p \in Settled THEN {Outcome(p)}
  ELSE IF p = "stranded" THEN {"done", "error"}
  ELSE IF p \in Open THEN {"error"} ELSE {}

Tell(t) ==
  /\ told[t] = "none"
  /\ \E e \in Announceable(phase[t]) : told' = [told EXCEPT ![t] = e]
  /\ UNCHANGED phase

Next ==
  \/ \E t \in Tasks : Accept(t) \/ Begin(t) \/ Strand(t) \/ Settle(t) \/ Tell(t)
  \/ StrandAll

SafeSpec == Init /\ [][Next]_vars

\* An open task does not stay open: somebody works on it or gives up on it.
NoTaskStaysOpen == \A t \in Tasks : phase[t] \in Open ~> phase[t] \notin Open

Spec == SafeSpec /\ \A t \in Tasks : WF_vars(Settle(t) \/ Strand(t))
=============================================================================
