------------------------- MODULE FineScreeningProofs -------------------------
(***************************************************************************)
(* Proofs about FineScreening for any number of runs, candidates, experts  *)
(* and permits, and about the breaker of LLMClient below it.               *)
(***************************************************************************)
EXTENDS FineScreening, FiniteSetTheorems, SequenceTheorems, TLAPS

-----------------------------------------------------------------------------
(* The breaker *)

\* Whatever is recorded, the breaker and its count stay in agreement.
LEMMA BreakerStep ==
  ASSUME BreakerTypeOK, BreakerAgrees,
         RecordSuccess \/ RecordFailure \/ CoolDown \/ UNCHANGED breakerVars
  PROVE  BreakerTypeOK' /\ BreakerAgrees'
BY FailMaxAssumption
   DEF BreakerTypeOK, BreakerAgrees, RecordSuccess, RecordFailure, CoolDown, breakerVars

\* A step records one outcome of a call at most.
LEMMA BreakerKept ==
  ASSUME BreakerTypeOK, BreakerAgrees, [Next]_vars
  PROVE  BreakerTypeOK' /\ BreakerAgrees'
<1> DEFINE Recorded == RecordSuccess \/ RecordFailure \/ CoolDown \/ UNCHANGED breakerVars
<1>1. ASSUME NEW r \in Requests, RunStep(r) PROVE Recorded
  <2>1. CASE Begin(r) \/ RoughFails(r) \/ RoughOver(r) \/ Pump(r) \/ PumpOver(r)
    BY <2>1 DEF Begin, RoughFails, RoughOver, Pump, PumpOver
  <2>2. CASE Gathered(r) \/ GatherRaises(r) \/ SyncAsk(r)
    BY <2>2 DEF Gathered, GatherRaises, SyncAsk
  <2>3. CASE SyncCall(r)
    BY <2>3 DEF SyncCall, Answer, Garbled, Failure
  <2> QED
    BY <1>1, <2>1, <2>2, <2>3 DEF RunStep
<1>2. ASSUME NEW r \in Requests, Disconnect(r) PROVE Recorded
  BY <1>2 DEF Disconnect
<1>3. ASSUME NEW r \in Requests, NEW k \in Candidates, NEW e \in Experts, ExpertStep(r, k, e)
      PROVE  Recorded
  <2>1. CASE Acquire(r, k, e) \/ Ask(r, k, e) \/ Return(r, k, e)
    BY <2>1 DEF Acquire, Ask, Return
  <2>2. CASE ExpertAnswered(r, k, e) \/ ExpertFails(r, k, e)
    BY <2>2 DEF ExpertAnswered, ExpertFails, Answer, Garbled, Failure
  <2> QED
    BY <1>3, <2>1, <2>2 DEF ExpertStep
<1>4. ASSUME NEW u \in Uploads, StartExtract(u) \/ ExtractStep(u) PROVE Recorded
  BY <1>4 DEF StartExtract, ExtractStep, ExtractAsk, ExtractCall, Answer, Garbled, Failure
<1>5. ASSUME StartOther \/ OtherStep PROVE Recorded
  BY <1>5 DEF StartOther, OtherStep, OtherAsk, OtherCall, Answer, Garbled, Failure
<1>6. ASSUME Cooling \/ UNCHANGED vars PROVE Recorded
  BY <1>6 DEF Cooling, vars
<1>7. Recorded
  BY <1>1, <1>2, <1>3, <1>4, <1>5, <1>6 DEF Next
<1> QED
  BY <1>7, BreakerStep

-----------------------------------------------------------------------------
(* The steps *)

\* The other callers of the gateway, and the passing of time, leave the runs alone.
Aside == UNCHANGED <<slots, generator, engine, expert, answered>>

LEMMA NextParts ==
  ASSUME [Next]_vars
  PROVE  \/ \E r \in Requests : RunStep(r) \/ Disconnect(r)
         \/ \E r \in Requests, k \in Candidates, e \in Experts : ExpertStep(r, k, e)
         \/ Aside
<1>1. ASSUME NEW u \in Uploads, StartExtract(u) \/ ExtractStep(u) PROVE Aside
  BY <1>1 DEF StartExtract, ExtractStep, ExtractAsk, ExtractCall, Aside
<1>2. ASSUME StartOther \/ OtherStep PROVE Aside
  BY <1>2 DEF StartOther, OtherStep, OtherAsk, OtherCall, Aside
<1>3. ASSUME Cooling \/ UNCHANGED vars PROVE Aside
  BY <1>3 DEF Cooling, vars, Aside
<1> QED
  BY <1>1, <1>2, <1>3 DEF Next

-----------------------------------------------------------------------------
(* The queue of outcomes *)

\* The outcomes of the candidates from k up to b.
LEMMA ReplayedSeq ==
  ASSUME NEW k \in Nat \ {0}, NEW b \in Nat, k <= b, b <= MaxPool + 1
  PROVE  /\ Replayed(k, b) \in Seq(Outcomes) /\ Len(Replayed(k, b)) = b - k
         /\ \A i \in 1..b - k : Replayed(k, b)[i] = <<k + i - 1, "done">>
<1> USE FineAssumption
<1> DEFINE w == Replayed(k, b)
<1>1. \A i \in 1..b - k : k + i - 1 \in Candidates
  BY DEF Candidates
<1>2. \A i \in 1..b - k : <<k + i - 1, "done">> \in Outcomes
  BY <1>1 DEF Outcomes
<1>3. b - k \in Nat
  OBVIOUS
<1>4. w \in [1..b - k -> Outcomes]
  BY <1>2 DEF Replayed
<1>5. w \in Seq(Outcomes) /\ Len(w) = b - k
  BY <1>3, <1>4
<1> QED
  BY <1>5 DEF Replayed

\* Those who have a verdict are replayed as done.
LEMMA ReplayedLined ==
  ASSUME NEW k \in Nat \ {0}, NEW b \in Nat, k <= b, b <= MaxPool + 1, NEW S, k..b - 1 \subseteq S
  PROVE  Lined(Replayed(k, b), k - 1, S)
<1>1. \A i \in 1..b - k : k + i - 1 \in S /\ k + i - 1 = (k - 1) + i
  OBVIOUS
<1>2. Len(Replayed(k, b)) = b - k /\ \A i \in 1..b - k : Replayed(k, b)[i] = <<k + i - 1, "done">>
  BY ReplayedSeq
<1> QED
  BY <1>1, <1>2 DEF Lined, Verdict

\* Outcomes of earlier candidates stay what they are when later ones are reported.
LEMMA Relined ==
  ASSUME NEW q \in Seq(Outcomes), NEW m \in Nat, NEW S, NEW T, Lined(q, m, S),
         \A i \in 1..m + Len(q) : i \in S <=> i \in T
  PROVE  Lined(q, m, T)
<1>1. Len(q) \in Nat
  BY LenProperties
<1>2. \A i \in 1..Len(q) : m + i \in 1..m + Len(q)
  BY <1>1
<1> QED
  BY <1>2 DEF Lined, Verdict

\* Outcomes that follow one another in two sequences do so in one.
LEMMA Joined ==
  ASSUME NEW q \in Seq(Outcomes), NEW p \in Seq(Outcomes), NEW m \in Nat, NEW S,
         Lined(q, m, S), Lined(p, m + Len(q), S)
  PROVE  q \o p \in Seq(Outcomes) /\ Len(q \o p) = Len(q) + Len(p) /\ Lined(q \o p, m, S)
<1>1. Len(q) \in Nat /\ Len(p) \in Nat
  BY LenProperties
<1>2. /\ q \o p \in Seq(Outcomes) /\ Len(q \o p) = Len(q) + Len(p)
      /\ \A i \in 1..Len(q) + Len(p) : (q \o p)[i] = IF i <= Len(q) THEN q[i] ELSE p[i - Len(q)]
  BY ConcatProperties
<1>3. ASSUME NEW i \in 1..Len(q) + Len(p) PROVE (q \o p)[i] = Verdict(S, m + i)
  <2>1. CASE i <= Len(q)
    <3>1. i \in 1..Len(q) /\ (q \o p)[i] = q[i]
      BY <1>1, <1>2, <2>1
    <3> QED
      BY <3>1 DEF Lined
  <2>2. CASE i > Len(q)
    <3>1. /\ i - Len(q) \in 1..Len(p) /\ (q \o p)[i] = p[i - Len(q)]
          /\ m + Len(q) + (i - Len(q)) = m + i
      BY <1>1, <1>2, <2>2
    <3> QED
      BY <3>1 DEF Lined
  <2> QED
    BY <1>1, <2>1, <2>2
<1> QED
  BY <1>2, <1>3 DEF Lined

\* Where the engine ends when it goes on from candidate k: at an expert, past the last candidate
\* or at a verdict that cannot be reported.
Went(r, k, b, n, hits, ev, known) ==
  /\ Replay(r, k, b, hits, ev, known)
  /\ \/ /\ b \in 1..n \ hits
        /\ task' = [task EXCEPT ![r] = "gather"]
        /\ expert' = [expert EXCEPT ![r][b] = [e \in Experts |-> "queued"]]
     \/ b = n + 1 /\ task' = [task EXCEPT ![r] = "done"] /\ UNCHANGED expert
     \/ task' = [task EXCEPT ![r] = "broken"] /\ UNCHANGED expert

\* Going on is one of these.
LEMMA Goes ==
  ASSUME NEW r \in Requests, NEW n \in Nat, NEW hits, NEW k \in 1..n + 1, NEW ev, NEW known,
         Continue(r, k, n, hits, ev, known)
  PROVE  \E b \in k..n + 1 : Went(r, k, b, n, hits, ev, known)
<1>1. CASE Proceed(r, k, n, hits, ev, known)
  <2>1. PICK b \in (k..n + 1) \ hits :
          /\ Replay(r, k, b, hits, ev, known)
          /\ task' = [task EXCEPT ![r] = IF b > n THEN "done" ELSE "gather"]
          /\ expert' = IF b > n THEN expert
                       ELSE [expert EXCEPT ![r][b] = [e \in Experts |-> "queued"]]
    BY <1>1 DEF Proceed
  <2>2. CASE b > n
    BY <2>1, <2>2 DEF Went
  <2>3. CASE ~(b > n)
    <3>1. b \in 1..n \ hits
      BY <2>3
    <3>2. /\ task' = [task EXCEPT ![r] = "gather"]
          /\ expert' = [expert EXCEPT ![r][b] = [e \in Experts |-> "queued"]]
      BY <2>1, <2>3
    <3>3. Went(r, k, b, n, hits, ev, known)
      BY <2>1, <3>1, <3>2 DEF Went
    <3> QED
      BY <3>3
  <2> QED
    BY <2>2, <2>3
<1>2. CASE Break(r, k, n, hits, ev, known)
  <2>1. PICK b \in k..n : /\ Replay(r, k, b, hits, ev, known)
                          /\ task' = [task EXCEPT ![r] = "broken"] /\ UNCHANGED expert
    BY <1>2 DEF Break
  <2> QED
    BY <2>1 DEF Went
<1> QED
  BY <1>1, <1>2 DEF Continue

\* Where the engine may end, and what it reports on the way.
LEMMA EndsWithin ==
  ASSUME NEW n \in 0..MaxPool, NEW k \in 1..n + 1, NEW b \in k..n + 1
  PROVE  /\ b \in Nat /\ k \in Nat \ {0} /\ k <= b /\ b <= MaxPool + 1
         /\ \A S \in SUBSET (1..k - 1) : S \cup k..b - 1 \subseteq 1..b - 1
         /\ \A S, H : H \cap (1..k - 1) \subseteq S => H \cap (1..b - 1) \subseteq S \cup k..b - 1
BY FineAssumption

\* How the state of a run looks to the others after it has gone on to b.
Moved(r, b, n, hits) ==
  /\ cand' = [cand EXCEPT ![r] = b]
  /\ task' = [task EXCEPT ![r] = task'[r]] /\ task'[r] \in {"gather", "done", "broken"}
  /\ task'[r] = "gather" => b \in 1..n \ hits
  /\ task'[r] = "done" => b = n + 1
  /\ queue' = [queue EXCEPT ![r] = queue'[r]]
  /\ reports' = [reports EXCEPT ![r] = reports'[r]]
  /\ \/ UNCHANGED expert
     \/ b \in Candidates /\ expert' = [expert EXCEPT ![r][b] = [e \in Experts |-> "queued"]]
  /\ queue'[r] \in Seq(Outcomes) /\ Len(sent[r]) + Len(queue'[r]) = b - 1
  /\ Lined(sent[r], 0, reports'[r]) /\ Lined(queue'[r], Len(sent[r]), reports'[r])
  /\ reports'[r] \subseteq 1..b - 1 /\ hits \cap (1..b - 1) \subseteq reports'[r]

\* What a run knows when it goes on from candidate k with the outcomes in ev.
Prepared(r, hits, k, ev, known) ==
  /\ ev \in Seq(Outcomes)
  /\ k = Len(sent[r]) + Len(queue[r]) + Len(ev) + 1
  /\ known \subseteq 1..k - 1 /\ hits \cap (1..k - 1) \subseteq known
  /\ Lined(sent[r], 0, known) /\ Lined(queue[r], Len(sent[r]), known)
  /\ Lined(ev, Len(sent[r]) + Len(queue[r]), known)

\* The candidates passed stay in order.
LEMMA Advanced ==
  ASSUME TypeOK, NEW r \in Requests, NEW n \in 0..MaxPool, NEW hits, NEW k \in 1..n + 1,
         NEW ev, NEW known, Prepared(r, hits, k, ev, known),
         Continue(r, k, n, hits, ev, known)
  PROVE  \E b \in k..n + 1 : Moved(r, b, n, hits)
<1>p. PICK b \in k..n + 1 : Went(r, k, b, n, hits, ev, known)
  BY Goes
<1> DEFINE a == Len(sent[r])
           c == Len(queue[r])
           d == Len(ev)
<1>t. sent[r] \in Seq(Outcomes) /\ queue[r] \in Seq(Outcomes)
  BY DEF TypeOK
<1>e. /\ ev \in Seq(Outcomes) /\ k = a + c + d + 1
      /\ known \subseteq 1..k - 1 /\ hits \cap (1..k - 1) \subseteq known
      /\ Lined(sent[r], 0, known) /\ Lined(queue[r], a, known) /\ Lined(ev, a + c, known)
  BY DEF Prepared
<1>n. /\ a \in Nat /\ c \in Nat /\ d \in Nat
      /\ Len(sent[r]) = a /\ Len(queue[r]) = c /\ Len(ev) = d
  BY <1>t, <1>e, LenProperties
<1> HIDE DEF a, c, d
<1> DEFINE p == sent[r]
           q == queue[r]
           T == reports'[r]
<1>a. queue'[r] = q \o ev \o Replayed(k, b) /\ T = known \cup k..b - 1
  BY <1>p DEF Went, Replay, TypeOK
<1>b. /\ b \in Nat /\ k \in Nat \ {0} /\ k <= b /\ b <= MaxPool + 1
      /\ \A S \in SUBSET (1..k - 1) : S \cup k..b - 1 \subseteq 1..b - 1
      /\ \A S, H : H \cap (1..k - 1) \subseteq S => H \cap (1..b - 1) \subseteq S \cup k..b - 1
  BY EndsWithin
<1>c. /\ q \in Seq(Outcomes) /\ p \in Seq(Outcomes) /\ Len(p) = a /\ Len(q) = c
      /\ Lined(p, 0, known) /\ Lined(q, a, known) /\ Lined(ev, a + c, known)
  BY <1>t, <1>e, <1>n
<1>d. T \subseteq 1..b - 1 /\ hits \cap (1..b - 1) \subseteq T
  BY <1>a, <1>b, <1>e
<1> HIDE DEF p, q, T
<1>1. \A i \in 1..k - 1 : i \in known <=> i \in T
  BY <1>a, <1>b, <1>e
<1>2. Lined(p, 0, T)
  <2>1. \A i \in 1..0 + Len(p) : i \in known <=> i \in T
    BY <1>1, <1>b, <1>c, <1>e, <1>n
  <2> QED
    BY <1>c, <1>e, <1>n, <2>1, Relined
<1>3. Lined(q, a, T)
  <2>1. \A i \in 1..a + Len(q) : i \in known <=> i \in T
    BY <1>1, <1>b, <1>c, <1>e, <1>n
  <2> QED
    BY <1>c, <1>e, <1>n, <2>1, Relined
<1>4. Lined(ev, a + c, T)
  <2>1. a + c \in Nat /\ \A i \in 1..(a + c) + Len(ev) : i \in known <=> i \in T
    BY <1>1, <1>b, <1>c, <1>e, <1>n
  <2> QED
    BY <1>c, <1>e, <1>n, <2>1, Relined
<1>5. q \o ev \in Seq(Outcomes) /\ Len(q \o ev) = c + d /\ Lined(q \o ev, a, T)
  <2>1. Lined(ev, a + Len(q), T)
    BY <1>4, <1>c
  <2> QED
    BY <1>c, <1>e, <1>n, <1>3, <2>1, Joined
<1> DEFINE v == q \o ev
           w == Replayed(k, b)
<1>6. w \in Seq(Outcomes) /\ Len(w) = b - k /\ Lined(w, k - 1, T)
  <2>1. k..b - 1 \subseteq T
    BY <1>a, <1>b
  <2>2. w \in Seq(Outcomes) /\ Len(w) = b - k
    BY <1>b, ReplayedSeq
  <2>3. Lined(w, k - 1, T)
    BY <1>b, <2>1, ReplayedLined
  <2> QED
    BY <2>2, <2>3
<1>7. v \in Seq(Outcomes) /\ Len(v) = c + d /\ Lined(v, a, T)
  BY <1>5
<1> HIDE DEF v, w
<1>8. k - 1 = a + Len(v)
  BY <1>7, <1>b, <1>e, <1>n
<1>9. v \o w \in Seq(Outcomes) /\ Len(v \o w) = Len(v) + Len(w) /\ Lined(v \o w, a, T)
  BY <1>n, <1>6, <1>7, <1>8, Joined
<1>10. a + Len(v \o w) = b - 1
  BY <1>6, <1>7, <1>9, <1>b, <1>e, <1>n
<1>11. /\ queue'[r] \in Seq(Outcomes) /\ Len(p) + Len(queue'[r]) = b - 1 /\ Lined(queue'[r], Len(p), T)
  BY <1>a, <1>9, <1>10, <1>c DEF v, w, q
<1>12. /\ cand' = [cand EXCEPT ![r] = b]
       /\ queue' = [queue EXCEPT ![r] = queue'[r]]
       /\ reports' = [reports EXCEPT ![r] = reports'[r]]
  BY <1>p DEF Went, Replay, TypeOK
<1>13. task \in [Requests -> {"none", "gather", "discuss", "recommend", "done", "broken"}]
  BY DEF TypeOK
<1>14. /\ task' = [task EXCEPT ![r] = task'[r]] /\ task'[r] \in {"gather", "done", "broken"}
       /\ task'[r] = "gather" => b \in 1..n \ hits
       /\ task'[r] = "done" => b = n + 1
  BY <1>p, <1>13 DEF Went
<1>15. b \in 1..n => b \in Candidates
  BY FineAssumption DEF Candidates
<1>16. \/ UNCHANGED expert
       \/ b \in Candidates /\ expert' = [expert EXCEPT ![r][b] = [e \in Experts |-> "queued"]]
  BY <1>p, <1>15 DEF Went
<1> QED
  BY <1>d, <1>2, <1>11, <1>12, <1>14, <1>16 DEF p, T, Moved

-----------------------------------------------------------------------------
(* The engine *)

\* What a run knows of its candidates at each of its stages.
Ordered(r) == Stage(r) /\ InOrder(r) /\ NotYet(r)

\* Going on keeps everything in its place, for the run that goes on and for the others.
LEMMA Continued ==
  ASSUME TypeOK, \A u \in Requests : Ordered(u),
         NEW r \in Requests, NEW n \in 0..MaxPool, NEW hits \in SUBSET (1..n),
         NEW b \in 1..n + 1, b > cand[r], Moved(r, b, n, hits), UNCHANGED <<sent, turns>>,
         pool' = [pool EXCEPT ![r] = n], cached' = [cached EXCEPT ![r] = hits],
         phase' = [phase EXCEPT ![r] = phase'[r]], phase'[r] \in {"pump", "error", "gone"}
  PROVE  /\ queue' \in [Requests -> Seq(Outcomes)]
         /\ reports' \in [Requests -> SUBSET Candidates]
         /\ cand' \in [Requests -> 0..MaxPool + 1]
         /\ task' \in [Requests -> {"none", "gather", "discuss", "recommend", "done", "broken"}]
         /\ expert' \in [Requests -> [Candidates -> [Experts -> Places]]]
         /\ \A u \in Requests : Ordered(u)'
         /\ \A x \in Assessments : At(x)' = At(x) \/ (At(x) = "none" /\ At(x)' = "queued")
<1> USE FineAssumption
<1>3. b \in Nat /\ b <= n + 1 /\ b <= MaxPool + 1 /\ b >= 1
  OBVIOUS
<1>4. /\ cand' = [cand EXCEPT ![r] = b] /\ cand'[r] = b
      /\ task' = [task EXCEPT ![r] = task'[r]] /\ task'[r] \in {"gather", "done", "broken"}
      /\ task'[r] = "gather" => b \in 1..n \ hits
      /\ task'[r] = "done" => b = n + 1
      /\ queue' = [queue EXCEPT ![r] = queue'[r]]
      /\ reports' = [reports EXCEPT ![r] = reports'[r]]
      /\ UNCHANGED expert \/ (/\ b \in Candidates
                              /\ expert' = [expert EXCEPT ![r][b] = [e \in Experts |-> "queued"]])
  BY DEF Moved, TypeOK
<1>2. /\ queue'[r] \in Seq(Outcomes) /\ Len(sent[r]) + Len(queue'[r]) = b - 1
      /\ Lined(sent[r], 0, reports'[r]) /\ Lined(queue'[r], Len(sent[r]), reports'[r])
      /\ reports'[r] \subseteq 1..b - 1 /\ hits \cap (1..b - 1) \subseteq reports'[r]
  BY DEF Moved
<1>5. /\ queue' \in [Requests -> Seq(Outcomes)]
      /\ reports' \in [Requests -> SUBSET Candidates]
      /\ cand' \in [Requests -> 0..MaxPool + 1]
      /\ task' \in [Requests -> {"none", "gather", "discuss", "recommend", "done", "broken"}]
  <2>1. reports'[r] \subseteq Candidates
    BY <1>2, <1>3 DEF Candidates
  <2>2. b \in 0..MaxPool + 1
    BY <1>3
  <2>3. /\ queue \in [Requests -> Seq(Outcomes)] /\ reports \in [Requests -> SUBSET Candidates]
        /\ cand \in [Requests -> 0..MaxPool + 1]
        /\ task \in [Requests -> {"none", "gather", "discuss", "recommend", "done", "broken"}]
    BY DEF TypeOK
  <2>4. queue' \in [Requests -> Seq(Outcomes)]
    BY <1>2, <1>4, <2>3
  <2>5. reports' \in [Requests -> SUBSET Candidates]
    BY <1>4, <2>1, <2>3
  <2>6. cand' \in [Requests -> 0..MaxPool + 1]
    BY <1>4, <2>2, <2>3
  <2>7. task' \in [Requests -> {"none", "gather", "discuss", "recommend", "done", "broken"}]
    BY <1>4, <2>3
  <2> QED
    BY <2>4, <2>5, <2>6, <2>7
<1>6. expert' \in [Requests -> [Candidates -> [Experts -> Places]]]
  <2>1. "queued" \in Places
    BY DEF Places
  <2>2. expert \in [Requests -> [Candidates -> [Experts -> Places]]]
    BY DEF TypeOK
  <2>3. CASE UNCHANGED expert
    BY <2>2, <2>3
  <2>4. CASE b \in Candidates /\ expert' = [expert EXCEPT ![r][b] = [e \in Experts |-> "queued"]]
    BY <2>1, <2>2, <2>4
  <2> QED
    BY <1>4, <2>3, <2>4
<1>7. ASSUME NEW u \in Requests, u # r PROVE Ordered(u)'
  <2>1. /\ task'[u] = task[u] /\ cand'[u] = cand[u] /\ queue'[u] = queue[u]
        /\ reports'[u] = reports[u] /\ pool'[u] = pool[u] /\ cached'[u] = cached[u]
        /\ phase'[u] = phase[u] /\ sent'[u] = sent[u] /\ turns'[u] = turns[u]
        /\ expert'[u] = expert[u]
    BY <1>4, <1>7, ZenonT(40) DEF TypeOK
  <2>2. Stage(u)'
    BY <2>1 DEF Ordered, Stage
  <2>3. InOrder(u)'
    BY <2>1, ZenonT(40) DEF Ordered, InOrder, Lined
  <2>4. NotYet(u)'
    BY <2>1 DEF Ordered, NotYet
  <2> QED
    BY <2>2, <2>3, <2>4 DEF Ordered
<1>8. Stage(r)'
  <2>1. pool'[r] = n /\ cached'[r] = hits
    BY DEF TypeOK
  <2>2. b \in 1..n + 1 /\ hits \subseteq 1..n
    BY <1>3
  <2> QED
    BY <1>4, <2>1, <2>2 DEF Stage
<1>9. InOrder(r)'
  <2>1. cached'[r] = hits
    BY DEF TypeOK
  <2> QED
    BY <1>2, <1>4, <2>1 DEF InOrder, Lined
<1>10. NotYet(r)'
  <2>1. ASSUME NEW j \in Candidates, NEW e \in Experts, j > b PROVE expert'[r][j][e] = "none"
    <3>0. cand[r] \in Nat /\ j \in Nat
      BY DEF TypeOK, Candidates
    <3>1. j # b /\ j > cand[r]
      BY <1>3, <2>1, <3>0
    <3>2. expert[r][j][e] = "none"
      BY <3>1 DEF Ordered, NotYet
    <3>3. expert'[r][j] = expert[r][j]
      <4>1. expert \in [Requests -> [Candidates -> [Experts -> Places]]]
        BY DEF TypeOK
      <4> QED
        BY <1>4, <3>1, <4>1
    <3> QED
      BY <3>2, <3>3
  <2> QED
    BY <1>4, <2>1 DEF NotYet
<1>11. \A x \in Assessments : At(x)' = At(x) \/ (At(x) = "none" /\ At(x)' = "queued")
  <2> SUFFICES ASSUME NEW u \in Requests, NEW j \in Candidates, NEW e \in Experts
               PROVE  \/ expert'[u][j][e] = expert[u][j][e]
                      \/ expert[u][j][e] = "none" /\ expert'[u][j][e] = "queued"
    BY DEF Assessments, At
  <2>1. CASE UNCHANGED expert
    BY <2>1
  <2>2. CASE b \in Candidates /\ expert' = [expert EXCEPT ![r][b] = [x \in Experts |-> "queued"]]
    <3>1. expert[r][b][e] = "none"
      BY <1>3, <2>2 DEF Ordered, NotYet
    <3>2. expert \in [Requests -> [Candidates -> [Experts -> Places]]]
      BY DEF TypeOK
    <3>3. expert'[u][j][e] = IF u = r /\ j = b THEN "queued" ELSE expert[u][j][e]
      BY <2>2, <3>2
    <3> QED
      BY <3>1, <3>3
  <2> QED
    BY <1>4, <2>1, <2>2
<1> QED
  BY <1>5, <1>6, <1>7, <1>8, <1>9, <1>10, <1>11 DEF Ordered

\* The part of the type invariant about experts and their session.
EngineTypes ==
  /\ queue \in [Requests -> Seq(Outcomes)]
  /\ reports \in [Requests -> SUBSET Candidates]
  /\ cand \in [Requests -> 0..MaxPool + 1]
  /\ task \in [Requests -> {"none", "gather", "discuss", "recommend", "done", "broken"}]
  /\ expert \in [Requests -> [Candidates -> [Experts -> Places]]]

\* Every run is.
AllOrdered == \A u \in Requests : Ordered(u)

\* The step only queues assessments that had not been started.
OnlyQueued == \A x \in Assessments : At(x)' = At(x) \/ (At(x) = "none" /\ At(x)' = "queued")

\* The outcome of one candidate is a sequence that follows those of the candidates before.
LEMMA OneOutcome ==
  ASSUME NEW j \in Candidates, NEW S, NEW o \in {"done", "failed"}, o = "done" <=> j \in S
  PROVE  /\ <<<<j, o>>>> \in Seq(Outcomes) /\ Len(<<<<j, o>>>>) = 1
         /\ Lined(<<<<j, o>>>>, j - 1, S)
<1>1. j \in Nat /\ (j - 1) + 1 = j /\ <<j, o>> \in Outcomes
  BY FineAssumption DEF Candidates, Outcomes
<1>2. Verdict(S, j) = <<j, o>>
  BY DEF Verdict
<1>3. <<<<j, o>>>>[1] = <<j, o>> /\ <<<<j, o>>>> \in Seq(Outcomes) /\ Len(<<<<j, o>>>>) = 1
  BY <1>1
<1> QED
  BY <1>1, <1>2, <1>3 DEF Lined

\* The ranked candidates are gone through from the first.
LEMMA RoughOverGoes ==
  ASSUME TypeOK, AllOrdered, NEW r \in Requests, RoughOver(r)
  PROVE  EngineTypes' /\ AllOrdered' /\ OnlyQueued
<1>1. task[r] = "none" /\ pool[r] = 0 /\ cand[r] = 0 /\ queue[r] = <<>> /\ sent[r] = <<>>
      /\ reports[r] = {}
  BY DEF RoughOver, AllOrdered, Ordered, Stage
<1>0. PICK n \in 0..MaxCandidates[r] : \E hits \in SUBSET (1..n) :
        /\ pool' = [pool EXCEPT ![r] = n] /\ cached' = [cached EXCEPT ![r] = hits]
        /\ phase' = [phase EXCEPT ![r] = IF n = 0 THEN "done" ELSE "pump"]
        /\ IF n = 0 THEN UNCHANGED <<queue, reports, cand, task, expert>>
           ELSE Continue(r, 1, n, hits, <<>>, {})
  BY DEF RoughOver
<1>2. PICK hits \in SUBSET (1..n) :
        /\ pool' = [pool EXCEPT ![r] = n] /\ cached' = [cached EXCEPT ![r] = hits]
        /\ phase' = [phase EXCEPT ![r] = IF n = 0 THEN "done" ELSE "pump"]
        /\ IF n = 0 THEN UNCHANGED <<queue, reports, cand, task, expert>>
           ELSE Continue(r, 1, n, hits, <<>>, {})
  BY <1>0
<1>3. UNCHANGED <<sent, turns>>
  BY DEF RoughOver
<1>4. n \in 0..MaxPool
  BY FineAssumption
<1>5. CASE n = 0
  <2>1. EngineTypes' /\ OnlyQueued
    BY <1>2, <1>5 DEF TypeOK, EngineTypes, OnlyQueued, At
  <2>2. ASSUME NEW u \in Requests PROVE Ordered(u)'
    <3>1. task'[u] = task[u] /\ cand'[u] = cand[u] /\ queue'[u] = queue[u]
          /\ reports'[u] = reports[u] /\ sent'[u] = sent[u] /\ turns'[u] = turns[u]
          /\ expert'[u] = expert[u]
      BY <1>2, <1>3, <1>5
    <3>2. CASE u = r
      <4>0. hits = {}
        BY <1>5
      <4>1. pool'[r] = 0 /\ cached'[r] = {} /\ phase'[r] = "done"
        BY <1>2, <1>5, <4>0 DEF TypeOK
      <4>2. Stage(r)'
        BY <1>1, <3>1, <3>2, <4>1 DEF Stage
      <4>3. InOrder(r)'
        BY <1>1, <3>1, <3>2 DEF InOrder
      <4>4. NotYet(r)'
        BY <3>1, <3>2 DEF AllOrdered, Ordered, NotYet
      <4> QED
        BY <3>2, <4>2, <4>3, <4>4 DEF Ordered
    <3>3. CASE u # r
      <4>1. pool'[u] = pool[u] /\ cached'[u] = cached[u] /\ phase'[u] = phase[u]
        BY <1>2, <3>3 DEF TypeOK
      <4>2. Stage(u)'
        BY <3>1, <4>1 DEF AllOrdered, Ordered, Stage
      <4>3. InOrder(u)'
        BY <3>1, <4>1 DEF AllOrdered, Ordered, InOrder, Lined
      <4>4. NotYet(u)'
        BY <3>1, <4>1 DEF AllOrdered, Ordered, NotYet
      <4> QED
        BY <4>2, <4>3, <4>4 DEF Ordered
    <3> QED
      BY <3>2, <3>3
  <2> QED
    BY <2>1, <2>2 DEF AllOrdered
<1>6. CASE n # 0
  <2>1. 1 \in 1..n + 1 /\ 1 > cand[r]
    BY <1>1, <1>4, <1>6
  <2>2. Prepared(r, hits, 1, <<>>, {})
    BY <1>1 DEF Prepared, Lined
  <2>3. PICK b \in 1..n + 1 : Moved(r, b, n, hits)
    BY <1>2, <1>4, <1>6, <2>1, <2>2, Advanced
  <2>4. b > cand[r]
    BY <1>1
  <2>5. phase' = [phase EXCEPT ![r] = phase'[r]] /\ phase'[r] \in {"pump", "error", "gone"}
    BY <1>2, <1>6 DEF TypeOK
  <2> QED
    BY <1>2, <1>3, <1>4, <2>3, <2>4, <2>5, Continued DEF EngineTypes, AllOrdered, OnlyQueued
<1> QED
  BY <1>5, <1>6

\* From a candidate that ends to the next one.
LEMMA CandidateOver ==
  ASSUME TypeOK, AllOrdered, NEW r \in Requests, task[r] \in {"gather", "discuss", "recommend"},
         NEW o \in {"done", "failed"}, NEW S,
         S = IF o = "done" THEN reports[r] \cup {cand[r]} ELSE reports[r],
         Continue(r, cand[r] + 1, pool[r], cached[r], <<<<cand[r], o>>>>, S),
         UNCHANGED <<sent, turns, pool, cached, phase>>
  PROVE  EngineTypes' /\ AllOrdered' /\ OnlyQueued
<1> DEFINE j == cand[r]
           n == pool[r]
           hits == cached[r]
           ev == <<<<j, o>>>>
<1>1. Stage(r) /\ InOrder(r)
  BY DEF AllOrdered, Ordered
<1>2. n \in 0..MaxPool /\ hits \in SUBSET (1..n) /\ j \in 1..n /\ j \notin hits
  BY <1>1 DEF Stage, TypeOK
<1>3. j \in Candidates /\ j \in Nat \ {0} /\ j + 1 \in 1..n + 1 /\ j + 1 > j
  BY <1>2, FineAssumption DEF Candidates
<1>4. /\ Len(sent[r]) + Len(queue[r]) = j - 1
      /\ Lined(sent[r], 0, reports[r]) /\ Lined(queue[r], Len(sent[r]), reports[r])
      /\ reports[r] \subseteq 1..j - 1 /\ hits \cap (1..j - 1) \subseteq reports[r]
  BY <1>1 DEF InOrder
<1>5. o = "done" <=> j \in S
  BY <1>3, <1>4
<1>6. ev \in Seq(Outcomes) /\ Len(ev) = 1 /\ Lined(ev, j - 1, S)
  BY <1>3, <1>5, OneOutcome
<1>7. Prepared(r, hits, j + 1, ev, S)
  <2>1. /\ sent[r] \in Seq(Outcomes) /\ queue[r] \in Seq(Outcomes)
        /\ Len(sent[r]) \in Nat /\ Len(queue[r]) \in Nat
    BY LenProperties DEF TypeOK
  <2>2. \A i \in 1..j - 1 : i \in reports[r] <=> i \in S
    BY <1>3
  <2>3. Lined(sent[r], 0, S)
    <3>0. \A x, y \in Nat : x + y = j - 1 => 1..0 + x \subseteq 1..j - 1
      BY <1>3
    <3>1. \A i \in 1..0 + Len(sent[r]) : i \in reports[r] <=> i \in S
      BY <1>4, <2>1, <2>2, <3>0
    <3> QED
      BY <1>4, <2>1, <3>1, Relined
  <2>4. Lined(queue[r], Len(sent[r]), S)
    <3>1. \A i \in 1..Len(sent[r]) + Len(queue[r]) : i \in reports[r] <=> i \in S
      BY <1>3, <1>4, <2>1, <2>2
    <3> QED
      BY <1>4, <2>1, <3>1, Relined
  <2>5. S \subseteq 1..(j + 1) - 1 /\ hits \cap (1..(j + 1) - 1) \subseteq S
    BY <1>2, <1>3, <1>4
  <2>6. j + 1 = Len(sent[r]) + Len(queue[r]) + Len(ev) + 1
    <3>1. \A x, y \in Nat : x + y = j - 1 => j + 1 = x + y + 1 + 1
      BY <1>3
    <3> QED
      BY <1>4, <1>6, <2>1, <3>1
  <2> QED
    BY <1>4, <1>6, <2>3, <2>4, <2>5, <2>6 DEF Prepared
<1>8. PICK b \in j + 1..n + 1 : Moved(r, b, n, hits)
  BY <1>2, <1>3, <1>7, Advanced
<1>9. b \in 1..n + 1 /\ b > j
  BY <1>2, <1>3
<1>10. pool' = [pool EXCEPT ![r] = n] /\ cached' = [cached EXCEPT ![r] = hits]
  BY DEF TypeOK
<1>11. phase' = [phase EXCEPT ![r] = phase'[r]] /\ phase'[r] \in {"pump", "error", "gone"}
  BY <1>1 DEF TypeOK, Stage
<1> QED
  BY <1>2, <1>8, <1>9, <1>10, <1>11, Continued DEF EngineTypes, AllOrdered, OnlyQueued

\* So it is after a failed assessment or contribution.
LEMMA FailsGoes ==
  ASSUME TypeOK, AllOrdered, NEW r \in Requests, task[r] \in {"gather", "discuss"},
         CandidateFails(r)
  PROVE  EngineTypes' /\ AllOrdered' /\ OnlyQueued
<1>1. Continue(r, cand[r] + 1, pool[r], cached[r], <<<<cand[r], "failed">>>>, reports[r])
  BY DEF CandidateFails
<1>2. UNCHANGED <<sent, turns, pool, cached, phase>>
  BY DEF CandidateFails, generator
<1> QED
  BY <1>1, <1>2, CandidateOver

LEMMA RaisesGoes ==
  ASSUME TypeOK, AllOrdered, NEW r \in Requests, GatherRaises(r) \/ TurnRaises(r)
  PROVE  EngineTypes' /\ AllOrdered' /\ OnlyQueued
BY FailsGoes DEF GatherRaises, TurnRaises

\* And after the recommendation, with or without its text.
LEMMA RecommendGoes ==
  ASSUME TypeOK, AllOrdered, NEW r \in Requests, NEW usable \in BOOLEAN, RecommendOver(r, usable)
  PROVE  EngineTypes' /\ AllOrdered' /\ OnlyQueued
<1>1. Continue(r, cand[r] + 1, pool[r], cached[r], <<<<cand[r], "done">>>>,
               reports[r] \cup {cand[r]})
  BY DEF RecommendOver
<1>2. task[r] = "recommend" /\ UNCHANGED <<sent, turns, pool, cached, phase>>
  BY DEF RecommendOver, generator
<1> QED
  BY <1>1, <1>2, CandidateOver

\* The pump moves the first outcome that waits behind those that were sent.
LEMMA MovesOver ==
  ASSUME NEW s \in Seq(Outcomes), NEW q \in Seq(Outcomes), q # <<>>, NEW S,
         Lined(s, 0, S), Lined(q, Len(s), S)
  PROVE  /\ Len(Append(s, Head(q))) + Len(Tail(q)) = Len(s) + Len(q)
         /\ Lined(Append(s, Head(q)), 0, S)
         /\ Lined(Tail(q), Len(Append(s, Head(q))), S)
<1> DEFINE t == Append(s, Head(q))
           w == Tail(q)
<1>1. Len(s) \in Nat /\ Len(q) \in Nat \ {0} /\ Head(q) = q[1] /\ Head(q) \in Outcomes
  BY LenProperties, HeadTailProperties
<1>2. /\ t \in Seq(Outcomes) /\ Len(t) = Len(s) + 1
      /\ \A i \in 1..Len(s) : t[i] = s[i]
      /\ t[Len(s) + 1] = q[1]
  BY <1>1, AppendProperties
<1>3. w \in Seq(Outcomes) /\ Len(w) = Len(q) - 1 /\ \A i \in 1..Len(w) : w[i] = q[i + 1]
  BY HeadTailProperties
<1> HIDE DEF t, w
<1>4. ASSUME NEW i \in 1..Len(t) PROVE t[i] = Verdict(S, 0 + i)
  <2>1. CASE i <= Len(s)
    BY <1>1, <1>2, <2>1 DEF Lined
  <2>2. CASE i = Len(s) + 1
    <3>1. q[1] = Verdict(S, Len(s) + 1)
      BY <1>1 DEF Lined
    <3> QED
      BY <1>1, <1>2, <2>2, <3>1
  <2> QED
    BY <1>1, <1>2, <2>1, <2>2
<1>5. ASSUME NEW i \in 1..Len(w) PROVE w[i] = Verdict(S, Len(t) + i)
  <2>1. i + 1 \in 1..Len(q) /\ Len(s) + (i + 1) = Len(t) + i
    BY <1>1, <1>2, <1>3
  <2>2. q[i + 1] = Verdict(S, Len(s) + (i + 1))
    BY <2>1 DEF Lined
  <2> QED
    BY <1>3, <2>1, <2>2
<1>6. Len(t) + Len(w) = Len(s) + Len(q)
  BY <1>1, <1>2, <1>3
<1> QED
  BY <1>4, <1>5, <1>6 DEF Lined, t, w

\* The steps that do not go on to another candidate keep every run in order.
LEMMA OrderKept ==
  ASSUME TypeOK, AllOrdered, [Next]_vars
  PROVE  AllOrdered'
<1> DEFINE Same(u) == /\ task'[u] = task[u] /\ cand'[u] = cand[u] /\ queue'[u] = queue[u]
                      /\ reports'[u] = reports[u] /\ sent'[u] = sent[u] /\ turns'[u] = turns[u]
                      /\ pool'[u] = pool[u] /\ cached'[u] = cached[u]
           Quiet(u) == expert'[u] = expert[u]
           Calm(u) == \A k \in Candidates, e \in Experts :
                        expert[u][k][e] = "none" => expert'[u][k][e] = "none"
<1>1. ASSUME NEW u \in Requests, Same(u), phase'[u] = phase[u], Calm(u) PROVE Ordered(u)'
  <2>1. Stage(u)'
    BY <1>1 DEF AllOrdered, Ordered, Stage
  <2>2. InOrder(u)'
    BY <1>1 DEF AllOrdered, Ordered, InOrder, Lined
  <2>3. NotYet(u)'
    BY <1>1 DEF AllOrdered, Ordered, NotYet
  <2> QED
    BY <2>1, <2>2, <2>3 DEF Ordered
<1>2. ASSUME NEW u \in Requests, Same(u), Quiet(u), Stage(u)' PROVE Ordered(u)'
  <2>1. InOrder(u)'
    BY <1>2 DEF AllOrdered, Ordered, InOrder, Lined
  <2>2. NotYet(u)'
    BY <1>2 DEF AllOrdered, Ordered, NotYet
  <2> QED
    BY <1>2, <2>1, <2>2 DEF Ordered
<1>3. ASSUME NEW r \in Requests, RunStep(r) PROVE AllOrdered'
  <2>1. CASE Begin(r)
    <3> SUFFICES ASSUME NEW u \in Requests PROVE Ordered(u)'
      BY DEF AllOrdered
    <3>1. Same(u) /\ Quiet(u)
      BY <2>1 DEF Begin, engine
    <3>2. Stage(u)'
      BY <2>1, <3>1 DEF Begin, AllOrdered, Ordered, Stage, TypeOK
    <3> QED
      BY <1>2, <3>1, <3>2
  <2>2. CASE RoughFails(r)
    <3> SUFFICES ASSUME NEW u \in Requests PROVE Ordered(u)'
      BY DEF AllOrdered
    <3>1. Same(u) /\ Quiet(u)
      BY <2>2 DEF RoughFails, engine
    <3>2. Stage(u)'
      BY <2>2, <3>1 DEF RoughFails, AllOrdered, Ordered, Stage, TypeOK
    <3> QED
      BY <1>2, <3>1, <3>2
  <2>3. CASE RoughOver(r)
    BY <2>3, RoughOverGoes
  <2>4. CASE Gathered(r)
    <3> SUFFICES ASSUME NEW u \in Requests PROVE Ordered(u)'
      BY DEF AllOrdered
    <3>1. PICK t \in 0..MaxTurns :
            /\ turns' = [turns EXCEPT ![r] = t]
            /\ task' = [task EXCEPT ![r] = IF t = 0 THEN "recommend" ELSE "discuss"]
      BY <2>4 DEF Gathered
    <3>2. /\ task[r] = "gather" /\ expert' = expert /\ cand' = cand /\ queue' = queue
          /\ reports' = reports /\ UNCHANGED generator
      BY <2>4 DEF Gathered
    <3>3. CASE u # r
      BY <1>1, <3>1, <3>2, <3>3 DEF TypeOK, generator
    <3>4. CASE u = r
      <4>1. turns'[r] = t /\ task'[r] = IF t = 0 THEN "recommend" ELSE "discuss"
        BY <3>1 DEF TypeOK
      <4>2. Stage(r)'
        <5>1. task'[r] = "discuss" => turns'[r] > 0
          BY <4>1, FineAssumption
        <5> QED
          BY <3>2, <4>1, <5>1 DEF AllOrdered, Ordered, Stage, generator
      <4>3. InOrder(r)'
        BY <3>2, <4>1 DEF AllOrdered, Ordered, InOrder, Lined, generator
      <4>4. NotYet(r)'
        BY <3>2 DEF AllOrdered, Ordered, NotYet
      <4> QED
        BY <3>4, <4>2, <4>3, <4>4 DEF Ordered
    <3> QED
      BY <3>3, <3>4
  <2>5. CASE GatherRaises(r)
    BY <2>5, RaisesGoes
  <2>6. ASSUME NEW usable \in BOOLEAN, HydeOver(r, usable) PROVE AllOrdered'
    <3> SUFFICES ASSUME NEW u \in Requests PROVE Ordered(u)'
      BY DEF AllOrdered
    <3>1. Same(u) /\ Quiet(u)
      BY <2>6 DEF HydeOver, engine
    <3>2. Stage(u)'
      BY <2>6, <3>1 DEF HydeOver, AllOrdered, Ordered, Stage, TypeOK
    <3> QED
      BY <1>2, <3>1, <3>2
  <2>7. ASSUME NEW usable \in BOOLEAN, TurnOver(r, usable) PROVE AllOrdered'
    <3> SUFFICES ASSUME NEW u \in Requests PROVE Ordered(u)'
      BY DEF AllOrdered
    <3>1. /\ task[r] = "discuss" /\ turns' = [turns EXCEPT ![r] = @ - 1]
          /\ task' = IF turns[r] = 1 THEN [task EXCEPT ![r] = "recommend"] ELSE task
          /\ expert' = expert /\ cand' = cand /\ queue' = queue /\ reports' = reports
          /\ UNCHANGED generator
      BY <2>7 DEF TurnOver
    <3>2. CASE u # r
      BY <1>1, <3>1, <3>2 DEF TypeOK, generator
    <3>3. CASE u = r
      <4>1. turns[r] \in Nat /\ turns'[r] = turns[r] - 1 /\ turns[r] > 0
        BY <3>1, FineAssumption DEF TypeOK, AllOrdered, Ordered, Stage
      <4>2. task'[r] = IF turns[r] = 1 THEN "recommend" ELSE "discuss"
        BY <3>1 DEF TypeOK
      <4>3. Stage(r)'
        <5>1. task'[r] = "discuss" => turns'[r] > 0
          BY <4>1, <4>2
        <5> QED
          BY <3>1, <4>2, <5>1 DEF AllOrdered, Ordered, Stage, generator
      <4>4. InOrder(r)'
        BY <3>1, <4>2 DEF AllOrdered, Ordered, InOrder, Lined, generator
      <4>5. NotYet(r)'
        BY <3>1 DEF AllOrdered, Ordered, NotYet
      <4> QED
        BY <3>3, <4>3, <4>4, <4>5 DEF Ordered
    <3> QED
      BY <3>2, <3>3
  <2>8. ASSUME NEW usable \in BOOLEAN, RecommendOver(r, usable) PROVE AllOrdered'
    BY <2>8, RecommendGoes
  <2>9. ASSUME NEW usable \in BOOLEAN, SyncOver(r, usable) PROVE AllOrdered'
    BY <2>6, <2>7, <2>8, <2>9 DEF SyncOver
  <2>10. CASE SyncAsk(r)
    <3>1. CASE Allow
      <4> SUFFICES ASSUME NEW u \in Requests PROVE Ordered(u)'
        BY DEF AllOrdered
      <4> QED
        BY <1>1, <2>10, <3>1 DEF SyncAsk, generator, engine
    <3>2. CASE ~Allow
      BY <2>9, <2>10, <3>2 DEF SyncAsk
    <3> QED
      BY <3>1, <3>2
  <2>11. CASE SyncCall(r)
    BY <2>9, <2>11, RaisesGoes DEF SyncCall
  <2>12. CASE Pump(r)
    <3> SUFFICES ASSUME NEW u \in Requests PROVE Ordered(u)'
      BY DEF AllOrdered
    <3>1. /\ phase[r] = "pump" /\ queue[r] # <<>>
          /\ sent' = [sent EXCEPT ![r] = Append(@, Head(queue[r]))]
          /\ queue' = [queue EXCEPT ![r] = Tail(@)]
          /\ UNCHANGED <<phase, pool, cached, task, cand, turns, reports, expert>>
      BY <2>12 DEF Pump
    <3>2. CASE u # r
      BY <1>1, <3>1, <3>2 DEF TypeOK
    <3>3. CASE u = r
      <4> DEFINE s == sent[r]
                 q == queue[r]
      <4>1. sent'[r] = Append(s, Head(q)) /\ queue'[r] = Tail(q)
        BY <3>1 DEF TypeOK
      <4>2. s \in Seq(Outcomes) /\ q \in Seq(Outcomes) /\ q # <<>>
        BY <3>1 DEF TypeOK
      <4>3. task[r] # "none" /\ Stage(r) /\ InOrder(r) /\ NotYet(r)
        BY <3>1 DEF AllOrdered, Ordered, Stage
      <4>4. Len(s) + Len(q) = cand[r] - 1 /\ Lined(s, 0, reports[r]) /\ Lined(q, Len(s), reports[r])
        BY <4>3 DEF InOrder
      <4>5. Stage(r)'
        BY <3>1, <4>3 DEF Stage
      <4> HIDE DEF s, q
      <4>6. /\ Len(Append(s, Head(q))) + Len(Tail(q)) = cand[r] - 1
            /\ Lined(Append(s, Head(q)), 0, reports[r])
            /\ Lined(Tail(q), Len(Append(s, Head(q))), reports[r])
        BY <4>2, <4>4, MovesOver
      <4>7. InOrder(r)'
        BY <3>1, <4>1, <4>3, <4>6 DEF InOrder, Lined
      <4>8. NotYet(r)'
        BY <3>1, <4>3 DEF NotYet
      <4> QED
        BY <3>3, <4>5, <4>7, <4>8 DEF Ordered
    <3> QED
      BY <3>2, <3>3
  <2>13. CASE PumpOver(r)
    <3> SUFFICES ASSUME NEW u \in Requests PROVE Ordered(u)'
      BY DEF AllOrdered
    <3>1. Same(u) /\ Quiet(u)
      BY <2>13 DEF PumpOver, engine
    <3>2. Stage(u)'
      BY <2>13, <3>1 DEF PumpOver, Pumping, AllOrdered, Ordered, Stage, TypeOK
    <3> QED
      BY <1>2, <3>1, <3>2
  <2> QED
    BY <1>3, <2>1, <2>2, <2>3, <2>4, <2>5, <2>10, <2>11, <2>12, <2>13 DEF RunStep
<1>4. ASSUME NEW r \in Requests, Disconnect(r) PROVE AllOrdered'
  <2> SUFFICES ASSUME NEW u \in Requests PROVE Ordered(u)'
    BY DEF AllOrdered
  <2>1. Same(u) /\ Quiet(u)
    BY <1>4 DEF Disconnect, engine
  <2>2. Stage(u)'
    BY <1>4, <2>1 DEF Disconnect, AllOrdered, Ordered, Stage, TypeOK
  <2> QED
    BY <1>2, <2>1, <2>2
<1>5. ASSUME NEW r \in Requests, NEW k \in Candidates, NEW e \in Experts, ExpertStep(r, k, e)
      PROVE  AllOrdered'
  <2> SUFFICES ASSUME NEW u \in Requests PROVE Ordered(u)'
    BY DEF AllOrdered
  <2>1. /\ UNCHANGED <<task, cand, queue, reports, sent, turns, pool, cached, phase>>
        /\ expert[r][k][e] # "none"
    BY <1>5 DEF ExpertStep, Acquire, Ask, ExpertAnswered, ExpertFails, Return, Move, generator,
                engine, Asking, Calling
  <2>2. \E to : expert' = [expert EXCEPT ![r][k][e] = to]
    BY <1>5 DEF ExpertStep, Acquire, Ask, ExpertAnswered, ExpertFails, Return, Move
  <2>3. Calm(u)
    BY <2>1, <2>2 DEF TypeOK
  <2> QED
    BY <1>1, <2>1, <2>3
<1>6. ASSUME Aside PROVE AllOrdered'
  <2> SUFFICES ASSUME NEW u \in Requests PROVE Ordered(u)'
    BY DEF AllOrdered
  <2> QED
    BY <1>1, <1>6 DEF Aside, generator, engine
<1> QED
  BY <1>3, <1>4, <1>5, <1>6, NextParts

-----------------------------------------------------------------------------
(* The permits *)

\* There are finitely many assessments.
LEMMA AssessmentsFinite == IsFiniteSet(Assessments)
<1> DEFINE pairs == Requests \X Candidates
           nested == pairs \X Experts
           f == [x \in nested |-> <<x[1][1], x[1][2], x[2]>>]
<1>1. IsFiniteSet(Requests) /\ IsFiniteSet(Experts) /\ IsFiniteSet(Candidates)
  BY FineAssumption, FS_Interval DEF Candidates
<1>2. IsFiniteSet(pairs)
  BY <1>1, FS_Product
<1>3. IsFiniteSet(nested)
  BY <1>1, <1>2, FS_Product
<1>4. f \in [nested -> Assessments]
  BY DEF Assessments
<1>5. ASSUME NEW a \in Assessments PROVE \E x \in nested : f[x] = a
  <2>1. PICK r \in Requests, k \in Candidates, e \in Experts : a = <<r, k, e>>
    BY DEF Assessments
  <2>2. <<<<r, k>>, e>> \in nested /\ f[<<<<r, k>>, e>>] = a
    BY <2>1
  <2> QED
    BY <2>2
<1> HIDE DEF nested, f
<1>6. f \in Surjection(nested, Assessments)
  BY <1>4, <1>5 DEF Surjection
<1> QED
  BY <1>3, <1>6, FS_Surjection

\* As many permits are out as there are assessments that hold one.
Counted == Cardinality(Holders) = MaxConcurrency - slots

\* Calls of experts are among the holders of permits, the loop makes one call at a time, and every
\* extraction makes one at a time.
LEMMA CountBoundsLoad == TypeOK /\ Counted => UpstreamLoad
<1> SUFFICES ASSUME TypeOK, Counted PROVE UpstreamLoad
  OBVIOUS
<1> DEFINE calling == {a \in Assessments : At(a) \in Calling}
           sending == {u \in Uploads : extract[u] = "call"}
<1>1. IsFiniteSet(Holders)
  BY AssessmentsFinite, FS_Subset DEF Holders
<1>2. calling \subseteq Holders
  BY DEF Holders, Holding
<1>3. Cardinality(calling) \in Nat /\ Cardinality(calling) <= Cardinality(Holders)
  BY <1>1, <1>2, FS_Subset, FS_CardinalityType
<1>4. slots \in Nat /\ MaxConcurrency \in Nat
  BY FineAssumption DEF TypeOK
<1>5. Cardinality(calling) <= MaxConcurrency
  BY <1>3, <1>4 DEF Counted
<1>6. ExpertCalls \in Nat /\ ExpertCalls <= MaxConcurrency
  BY <1>3, <1>5 DEF ExpertCalls
<1>7. IsFiniteSet(Extracting)
  BY FineAssumption, FS_Subset DEF Extracting
<1>8. sending \subseteq Extracting
  BY DEF Extracting
<1>9. /\ Cardinality(sending) \in Nat /\ Cardinality(Extracting) \in Nat
      /\ Cardinality(sending) <= Cardinality(Extracting)
  BY <1>7, <1>8, FS_Subset, FS_CardinalityType
<1>10. ExtractCalls \in Nat /\ ExtractCalls <= Cardinality(Extracting)
  BY <1>9 DEF ExtractCalls
<1>11. LoopCalls \in 0..1
  BY DEF LoopCalls
<1>12. ExpertCalls + LoopCalls <= MaxConcurrency + 1
  BY <1>4, <1>6, <1>11
<1>13. InFlight <= MaxConcurrency + 1 + Cardinality(Extracting)
  BY <1>4, <1>6, <1>9, <1>10, <1>11 DEF InFlight
<1> QED
  BY <1>12, <1>13 DEF UpstreamLoad, Counted

\* Who moves without a permit, or keeps one, does not change the count.
LEMMA SameHolders ==
  ASSUME Counted, UNCHANGED slots,
         \A a \in Assessments : At(a) \in Holding <=> At(a)' \in Holding
  PROVE  Counted'
<1>1. Holders' = Holders
  BY DEF Holders
<1> QED
  BY <1>1 DEF Counted

\* Where an assessment is after its step.
LEMMA MovesOne ==
  ASSUME TypeOK, NEW r \in Requests, NEW k \in Candidates, NEW e \in Experts, NEW from, NEW to,
         Move(r, k, e, from, to)
  PROVE  /\ <<r, k, e>> \in Assessments /\ At(<<r, k, e>>) = from /\ At(<<r, k, e>>)' = to
         /\ \A a \in Assessments : a # <<r, k, e>> => At(a)' = At(a)
<1>1. expert \in [Requests -> [Candidates -> [Experts -> Places]]]
  BY DEF TypeOK
<1>2. expert[r][k][e] = from /\ expert' = [expert EXCEPT ![r][k][e] = to]
  BY DEF Move
<1>3. ASSUME NEW u \in Requests, NEW j \in Candidates, NEW x \in Experts
      PROVE  expert'[u][j][x] = IF u = r /\ j = k /\ x = e THEN to ELSE expert[u][j][x]
  BY <1>1, <1>2
<1>4. ASSUME NEW a \in Assessments
      PROVE  At(a)' = IF a = <<r, k, e>> THEN to ELSE At(a)
  <2>1. PICK u \in Requests, j \in Candidates, x \in Experts : a = <<u, j, x>>
    BY DEF Assessments
  <2> QED
    BY <1>3, <2>1 DEF At
<1>5. <<r, k, e>> \in Assessments /\ At(<<r, k, e>>) = from
  BY <1>2 DEF Assessments, At
<1> QED
  BY <1>4, <1>5

\* A permit is taken by who gets it and given back once.
LEMMA PermitsKept ==
  ASSUME TypeOK, AllOrdered, Counted, [Next]_vars
  PROVE  Counted'
<1>1. ASSUME NEW r \in Requests, NEW k \in Candidates, NEW e \in Experts, ExpertStep(r, k, e)
      PROVE  Counted'
  <2> DEFINE x == <<r, k, e>>
  <2>0. /\ IsFiniteSet(Holders) /\ Cardinality(Holders) \in Nat
        /\ slots \in Nat /\ MaxConcurrency \in Nat
    <3>1. IsFiniteSet(Holders)
      BY AssessmentsFinite, FS_Subset DEF Holders
    <3>2. Cardinality(Holders) \in Nat
      BY <3>1, FS_CardinalityType
    <3>3. slots \in Nat /\ MaxConcurrency \in Nat
      BY FineAssumption DEF TypeOK
    <3> QED
      BY <3>1, <3>2, <3>3
  <2>1. CASE Acquire(r, k, e)
    <3>1. slots' = slots - 1 /\ Move(r, k, e, "queued", "ask1")
      BY <2>1 DEF Acquire, TakePermit
    <3>2. /\ x \in Assessments /\ At(x) = "queued" /\ At(x)' = "ask1"
          /\ \A a \in Assessments : a # x => At(a)' = At(a)
      BY <3>1, MovesOne
    <3>3. Holders' = Holders \cup {x} /\ x \notin Holders
      BY <3>2 DEF Holders, Holding, Asking, Calling
    <3>4. Cardinality(Holders') = Cardinality(Holders) + 1
      BY <2>0, <3>3, FS_AddElement
    <3> QED
      BY <2>0, <3>1, <3>4 DEF Counted
  <2>2. CASE Ask(r, k, e)
    <3>1. /\ UNCHANGED slots /\ expert[r][k][e] \in Asking
          /\ Move(r, k, e, expert[r][k][e],
                  IF Allow THEN Sent[expert[r][k][e]] ELSE AfterTrial[expert[r][k][e]])
      BY <2>2 DEF Ask
    <3>2. /\ Sent[expert[r][k][e]] \in Holding /\ AfterTrial[expert[r][k][e]] \in Holding
          /\ expert[r][k][e] \in Holding
      BY <3>1 DEF Sent, AfterTrial, Asking, Calling, Holding
    <3>3. /\ x \in Assessments /\ At(x) \in Holding /\ At(x)' \in Holding
          /\ \A a \in Assessments : a # x => At(a)' = At(a)
      BY <3>1, <3>2, MovesOne
    <3> QED
      BY <3>1, <3>3, SameHolders
  <2>3. CASE ExpertAnswered(r, k, e)
    <3>1. /\ UNCHANGED slots /\ expert[r][k][e] \in Calling
          /\ Move(r, k, e, expert[r][k][e], "scored")
      BY <2>3 DEF ExpertAnswered
    <3>2. /\ x \in Assessments /\ At(x) \in Holding /\ At(x)' \in Holding
          /\ \A a \in Assessments : a # x => At(a)' = At(a)
      BY <3>1, MovesOne DEF Holding
    <3> QED
      BY <3>1, <3>2, SameHolders
  <2>4. CASE ExpertFails(r, k, e)
    <3>1. /\ UNCHANGED slots /\ expert[r][k][e] \in Calling
          /\ Move(r, k, e, expert[r][k][e], AfterTrial[expert[r][k][e]])
      BY <2>4 DEF ExpertFails
    <3>2. AfterTrial[expert[r][k][e]] \in Holding /\ expert[r][k][e] \in Holding
      BY <3>1 DEF AfterTrial, Asking, Calling, Holding
    <3>3. /\ x \in Assessments /\ At(x) \in Holding /\ At(x)' \in Holding
          /\ \A a \in Assessments : a # x => At(a)' = At(a)
      BY <3>1, <3>2, MovesOne
    <3> QED
      BY <3>1, <3>3, SameHolders
  <2>5. CASE Return(r, k, e)
    <3>1. /\ slots' = slots + 1
          /\ \/ Move(r, k, e, "scored", "over")
             \/ Move(r, k, e, "failed", "raised")
      BY <2>5 DEF Return, PermitAfter
    <3>2. /\ x \in Assessments /\ At(x) \in {"scored", "failed"} /\ At(x)' \in {"over", "raised"}
          /\ \A a \in Assessments : a # x => At(a)' = At(a)
      BY <3>1, MovesOne
    <3>3. Holders' = Holders \ {x} /\ x \in Holders
      BY <3>2 DEF Holders, Holding, Asking, Calling
    <3>4. Cardinality(Holders') = Cardinality(Holders) - 1
      BY <2>0, <3>3, FS_RemoveElement
    <3> QED
      BY <2>0, <3>1, <3>4 DEF Counted
  <2> QED
    BY <1>1, <2>1, <2>2, <2>3, <2>4, <2>5 DEF ExpertStep
<1>2. ASSUME UNCHANGED slots, OnlyQueued PROVE Counted'
  <2>1. \A a \in Assessments : At(a) \in Holding <=> At(a)' \in Holding
    BY <1>2 DEF OnlyQueued, Holding, Asking, Calling
  <2> QED
    BY <1>2, <2>1, SameHolders
<1>3. ASSUME UNCHANGED <<slots, expert>> PROVE Counted'
  <2>1. OnlyQueued
    BY <1>3 DEF OnlyQueued, At
  <2> QED
    BY <1>2, <1>3, <2>1
<1>4. ASSUME NEW r \in Requests, NEW usable \in BOOLEAN, SyncOver(r, usable) PROVE Counted'
  <2>1. CASE HydeOver(r, usable) \/ TurnOver(r, usable)
    BY <1>3, <2>1 DEF HydeOver, TurnOver
  <2>2. CASE RecommendOver(r, usable)
    <3>1. OnlyQueued /\ UNCHANGED slots
      BY <2>2, RecommendGoes DEF RecommendOver
    <3> QED
      BY <1>2, <3>1
  <2> QED
    BY <1>4, <2>1, <2>2 DEF SyncOver
<1>5. ASSUME NEW r \in Requests, RunStep(r) PROVE Counted'
  <2>1. CASE Begin(r) \/ RoughFails(r) \/ Gathered(r) \/ Pump(r) \/ PumpOver(r)
    BY <1>3, <2>1 DEF Begin, RoughFails, Gathered, Pump, PumpOver
  <2>2. CASE RoughOver(r)
    <3>1. OnlyQueued /\ UNCHANGED slots
      BY <2>2, RoughOverGoes DEF RoughOver
    <3> QED
      BY <1>2, <3>1
  <2>3. CASE GatherRaises(r) \/ TurnRaises(r)
    <3>1. OnlyQueued /\ UNCHANGED slots
      BY <2>3, RaisesGoes DEF GatherRaises, TurnRaises, CandidateFails
    <3> QED
      BY <1>2, <3>1
  <2>4. CASE SyncAsk(r)
    <3>1. CASE Allow
      BY <1>3, <2>4, <3>1 DEF SyncAsk
    <3>2. CASE ~Allow
      BY <1>4, <2>4, <3>2 DEF SyncAsk
    <3> QED
      BY <3>1, <3>2
  <2>5. CASE SyncCall(r)
    BY <1>4, <2>3, <2>5 DEF SyncCall
  <2> QED
    BY <1>5, <2>1, <2>2, <2>3, <2>4, <2>5 DEF RunStep
<1>6. ASSUME NEW r \in Requests, Disconnect(r) PROVE Counted'
  BY <1>3, <1>6 DEF Disconnect
<1>7. ASSUME Aside PROVE Counted'
  BY <1>3, <1>7 DEF Aside
<1> QED
  BY <1>1, <1>5, <1>6, <1>7, NextParts

-----------------------------------------------------------------------------
(* Types *)

\* The part of the type invariant about the event loop.
LoopTypes ==
  /\ loop \in Requests \cup {None, Other} /\ sync \in {"none", "ask", "call"}
  /\ loop = None <=> sync = "none"

\* The part about the streams.
GeneratorTypes ==
  /\ phase \in [Requests -> {"new", "hyde", "rough", "pump", "done", "error", "gone"}]
  /\ pool \in [Requests -> 0..MaxPool]
  /\ cached \in [Requests -> SUBSET Candidates]
  /\ sent \in [Requests -> Seq(Outcomes)]
  /\ turns \in [Requests -> 0..MaxTurns]

\* The part about the costs and the answers they are for.
CostTypes ==
  /\ session \in [Requests -> Nat] /\ usages \in [Requests -> Nat] /\ billed \in [Requests -> Nat]
  /\ answered \in [Requests -> [0..MaxPool -> Nat]]

\* The part about the extraction of resumes.
UploadTypes == extract \in [Uploads -> {"none", "ask", "call"}] /\ trial \in [Uploads -> 1..Trials]

\* The type invariant is made of these.
LEMMA TypeParts ==
  TypeOK <=> /\ BreakerTypeOK /\ LoopTypes /\ slots \in 0..MaxConcurrency
             /\ GeneratorTypes /\ EngineTypes /\ CostTypes /\ UploadTypes
BY DEF TypeOK, LoopTypes, GeneratorTypes, EngineTypes, CostTypes, UploadTypes

\* Counting an answer keeps the histories of answers histories.
LEMMA Counting ==
  ASSUME CostTypes, NEW r \in Requests, NEW k \in 0..MaxPool, Count(r, k)
  PROVE  answered' \in [Requests -> [0..MaxPool -> Nat]]
<1>1. answered \in [Requests -> [0..MaxPool -> Nat]]
  BY DEF CostTypes
<1>a. answered[r] \in [0..MaxPool -> Nat]
  BY <1>1
<1>b. answered[r][k] \in Nat
  BY <1>a
<1>2. answered[r][k] + 1 \in Nat
  BY <1>b
<1>3. [answered EXCEPT ![r][k] = @ + 1] \in [Requests -> [0..MaxPool -> Nat]]
  BY <1>1, <1>2
<1> QED
  BY <1>1, <1>3 DEF Count

\* The loop has a call under way exactly when it is at one.
LEMMA LoopTypesKept ==
  ASSUME TypeOK, [Next]_vars
  PROVE  LoopTypes'
<1> USE FineAssumption DEF TypeOK, LoopTypes
<1>1. ASSUME NEW r \in Requests, RunStep(r) PROVE LoopTypes'
  <2>1. CASE Begin(r) \/ Gathered(r)
    BY <2>1 DEF Begin, Gathered, Block, blocking
  <2>2. CASE RoughFails(r) \/ RoughOver(r) \/ GatherRaises(r) \/ Pump(r) \/ PumpOver(r)
    BY <2>2 DEF RoughFails, RoughOver, GatherRaises, Pump, PumpOver, blocking
  <2>3. ASSUME NEW usable \in BOOLEAN, SyncOver(r, usable) PROVE LoopTypes'
    BY <2>3 DEF SyncOver, HydeOver, TurnOver, RecommendOver, Block, Unblock
  <2>4. CASE SyncAsk(r)
    BY <2>3, <2>4 DEF SyncAsk
  <2>5. CASE SyncCall(r)
    BY <2>3, <2>5 DEF SyncCall, TurnRaises, Unblock
  <2> QED
    BY <1>1, <2>1, <2>2, <2>4, <2>5 DEF RunStep
<1>2. ASSUME NEW r \in Requests, Disconnect(r) PROVE LoopTypes'
  BY <1>2 DEF Disconnect, blocking
<1>3. ASSUME NEW r \in Requests, NEW k \in Candidates, NEW e \in Experts, ExpertStep(r, k, e)
      PROVE  LoopTypes'
  BY <1>3 DEF ExpertStep, Acquire, Ask, ExpertAnswered, ExpertFails, Return, blocking
<1>4. ASSUME NEW u \in Uploads, StartExtract(u) \/ ExtractStep(u) PROVE LoopTypes'
  BY <1>4 DEF StartExtract, ExtractStep, ExtractAsk, ExtractCall, blocking
<1>5. ASSUME StartOther \/ OtherStep PROVE LoopTypes'
  BY <1>5 DEF StartOther, OtherStep, OtherAsk, OtherCall, Block, Unblock
<1>6. ASSUME Cooling \/ UNCHANGED vars PROVE LoopTypes'
  BY <1>6 DEF Cooling, vars, blocking
<1> QED
  BY <1>1, <1>2, <1>3, <1>4, <1>5, <1>6 DEF Next

\* An extraction is at one of its trials.
LEMMA UploadTypesKept ==
  ASSUME TypeOK, [Next]_vars
  PROVE  UploadTypes'
<1>t. UploadTypes
  BY DEF TypeOK, UploadTypes
<1>0. ASSUME UNCHANGED uploads PROVE UploadTypes'
  BY <1>0, <1>t DEF UploadTypes, uploads
<1>1. ASSUME NEW r \in Requests, RunStep(r) \/ Disconnect(r) PROVE UploadTypes'
  <2>1. UNCHANGED uploads
    BY <1>1 DEF RunStep, Begin, RoughFails, RoughOver, Gathered, GatherRaises, SyncAsk, SyncCall,
                Pump, PumpOver, Disconnect
  <2> QED
    BY <1>0, <2>1
<1>2. ASSUME NEW r \in Requests, NEW k \in Candidates, NEW e \in Experts, ExpertStep(r, k, e)
      PROVE  UploadTypes'
  BY <1>0, <1>2 DEF ExpertStep, Acquire, Ask, ExpertAnswered, ExpertFails, Return
<1>3. ASSUME NEW u \in Uploads, StartExtract(u) PROVE UploadTypes'
  BY <1>3, <1>t DEF StartExtract, UploadTypes
<1>4. ASSUME NEW u \in Uploads, TrialFails(u) \/ ExtractOver(u) PROVE UploadTypes'
  <2>1. trial[u] \in 1..Trials
    BY <1>t DEF UploadTypes
  <2>2. CASE ExtractOver(u)
    BY <1>t, <2>2 DEF ExtractOver, UploadTypes, Trials
  <2>3. CASE TrialFails(u) /\ trial[u] < Trials
    <3>1. trial[u] + 1 \in 1..Trials
      BY <2>1, <2>3 DEF Trials
    <3> QED
      BY <1>t, <2>3, <3>1 DEF TrialFails, UploadTypes
  <2>4. CASE TrialFails(u) /\ ~(trial[u] < Trials)
    BY <2>2, <2>4 DEF TrialFails
  <2> QED
    BY <1>4, <2>2, <2>3, <2>4
<1>5. ASSUME NEW u \in Uploads, ExtractStep(u) PROVE UploadTypes'
  <2>1. CASE ExtractAsk(u) /\ Allow
    BY <1>t, <2>1 DEF ExtractAsk, UploadTypes
  <2>2. CASE ExtractAsk(u) /\ ~Allow
    BY <1>4, <2>2 DEF ExtractAsk
  <2>3. CASE ExtractCall(u)
    BY <1>4, <2>3 DEF ExtractCall
  <2> QED
    BY <1>5, <2>1, <2>2, <2>3 DEF ExtractStep
<1>6. ASSUME StartOther \/ OtherStep \/ Cooling \/ UNCHANGED vars PROVE UploadTypes'
  BY <1>0, <1>6 DEF StartOther, OtherStep, OtherAsk, OtherCall, Cooling, vars
<1> QED
  BY <1>1, <1>2, <1>3, <1>5, <1>6 DEF Next

\* The generator's part of the types.
LEMMA GeneratorTypesKept ==
  ASSUME TypeOK, AllOrdered, [Next]_vars
  PROVE  GeneratorTypes'
<1> USE FineAssumption
<1>g. GeneratorTypes /\ queue \in [Requests -> Seq(Outcomes)]
  BY DEF TypeOK, GeneratorTypes
<1>0. ASSUME UNCHANGED generator, UNCHANGED turns PROVE GeneratorTypes'
  BY <1>0, <1>g DEF GeneratorTypes, generator
<1>1. ASSUME NEW r \in Requests, RunStep(r) PROVE GeneratorTypes'
  <2>1. CASE Begin(r)
    BY <1>g, <2>1 DEF Begin, GeneratorTypes, engine
  <2>2. CASE RoughFails(r)
    BY <1>g, <2>2 DEF RoughFails, GeneratorTypes, engine
  <2>3. CASE RoughOver(r)
    <3>1. PICK n \in 0..MaxCandidates[r] : \E hits \in SUBSET (1..n) :
            /\ pool' = [pool EXCEPT ![r] = n] /\ cached' = [cached EXCEPT ![r] = hits]
            /\ phase' = [phase EXCEPT ![r] = IF n = 0 THEN "done" ELSE "pump"]
      BY <2>3 DEF RoughOver
    <3>2. PICK hits \in SUBSET (1..n) :
            /\ pool' = [pool EXCEPT ![r] = n] /\ cached' = [cached EXCEPT ![r] = hits]
            /\ phase' = [phase EXCEPT ![r] = IF n = 0 THEN "done" ELSE "pump"]
      BY <3>1
    <3>3. n \in 0..MaxPool /\ hits \subseteq Candidates
      BY DEF Candidates
    <3>4. UNCHANGED <<sent, turns>>
      BY <2>3 DEF RoughOver
    <3> QED
      BY <1>g, <3>2, <3>3, <3>4 DEF GeneratorTypes
  <2>4. CASE Gathered(r)
    BY <1>g, <2>4 DEF Gathered, GeneratorTypes, generator
  <2>5. CASE GatherRaises(r)
    BY <1>0, <2>5 DEF GatherRaises, CandidateFails
  <2>6. ASSUME NEW usable \in BOOLEAN, SyncOver(r, usable) PROVE GeneratorTypes'
    <3>1. CASE HydeOver(r, usable)
      BY <1>g, <3>1 DEF HydeOver, GeneratorTypes, engine
    <3>2. CASE TurnOver(r, usable)
      <4>1. turns[r] \in 0..MaxTurns /\ turns[r] > 0
        BY <1>g, <3>2 DEF TurnOver, GeneratorTypes, AllOrdered, Ordered, Stage
      <4>2. turns[r] - 1 \in 0..MaxTurns
        BY <4>1
      <4> QED
        BY <1>g, <3>2, <4>2 DEF TurnOver, GeneratorTypes, generator
    <3>3. CASE RecommendOver(r, usable)
      BY <1>0, <3>3 DEF RecommendOver
    <3> QED
      BY <2>6, <3>1, <3>2, <3>3 DEF SyncOver
  <2>7. CASE SyncAsk(r)
    BY <1>0, <2>6, <2>7 DEF SyncAsk, engine
  <2>8. CASE SyncCall(r)
    BY <1>0, <2>6, <2>8 DEF SyncCall, TurnRaises, CandidateFails
  <2>9. CASE Pump(r)
    <3>1. Append(sent[r], Head(queue[r])) \in Seq(Outcomes)
      <4>1. sent[r] \in Seq(Outcomes) /\ queue[r] \in Seq(Outcomes) /\ queue[r] # <<>>
        BY <1>g, <2>9 DEF Pump, GeneratorTypes
      <4> QED
        BY <4>1, HeadTailProperties, AppendProperties
    <3> QED
      BY <1>g, <2>9, <3>1 DEF Pump, GeneratorTypes
  <2>10. CASE PumpOver(r)
    BY <1>g, <2>10 DEF PumpOver, GeneratorTypes, engine
  <2> QED
    BY <1>1, <2>1, <2>2, <2>3, <2>4, <2>5, <2>7, <2>8, <2>9, <2>10 DEF RunStep
<1>2. ASSUME NEW r \in Requests, Disconnect(r) PROVE GeneratorTypes'
  BY <1>g, <1>2 DEF Disconnect, GeneratorTypes, engine
<1>3. ASSUME NEW r \in Requests, NEW k \in Candidates, NEW e \in Experts, ExpertStep(r, k, e)
      PROVE  GeneratorTypes'
  BY <1>0, <1>3 DEF ExpertStep, Acquire, Ask, ExpertAnswered, ExpertFails, Return, engine
<1>4. ASSUME Aside PROVE GeneratorTypes'
  BY <1>0, <1>4 DEF Aside, engine
<1> QED
  BY <1>1, <1>2, <1>3, <1>4, NextParts

\* The engine's part of the types.
LEMMA EngineTypesKept ==
  ASSUME TypeOK, AllOrdered, [Next]_vars
  PROVE  EngineTypes'
<1> USE FineAssumption
<1>e. EngineTypes /\ sent \in [Requests -> Seq(Outcomes)]
  BY DEF TypeOK, EngineTypes
<1>0. ASSUME UNCHANGED <<queue, reports, cand, task, expert>> PROVE EngineTypes'
  BY <1>0, <1>e DEF EngineTypes
<1>1. ASSUME NEW r \in Requests, RunStep(r) PROVE EngineTypes'
  <2>1. CASE Begin(r) \/ RoughFails(r) \/ PumpOver(r)
    BY <1>0, <2>1 DEF Begin, RoughFails, PumpOver, engine
  <2>2. CASE RoughOver(r)
    BY <2>2, RoughOverGoes
  <2>3. CASE Gathered(r)
    BY <1>e, <2>3 DEF Gathered, EngineTypes
  <2>4. CASE GatherRaises(r)
    BY <2>4, RaisesGoes
  <2>5. ASSUME NEW usable \in BOOLEAN, SyncOver(r, usable) PROVE EngineTypes'
    <3>1. CASE HydeOver(r, usable)
      BY <1>0, <3>1 DEF HydeOver, engine
    <3>2. CASE TurnOver(r, usable)
      BY <1>e, <3>2 DEF TurnOver, EngineTypes
    <3>3. CASE RecommendOver(r, usable)
      BY <3>3, RecommendGoes
    <3> QED
      BY <2>5, <3>1, <3>2, <3>3 DEF SyncOver
  <2>6. CASE SyncAsk(r)
    BY <1>0, <2>5, <2>6 DEF SyncAsk, engine
  <2>7. CASE SyncCall(r)
    BY <2>5, <2>7, RaisesGoes DEF SyncCall
  <2>8. CASE Pump(r)
    <3>1. Tail(queue[r]) \in Seq(Outcomes)
      <4>1. queue[r] \in Seq(Outcomes) /\ queue[r] # <<>>
        BY <1>e, <2>8 DEF Pump, EngineTypes
      <4> QED
        BY <4>1, HeadTailProperties
    <3> QED
      BY <1>e, <2>8, <3>1 DEF Pump, EngineTypes
  <2> QED
    BY <1>1, <2>1, <2>2, <2>3, <2>4, <2>6, <2>7, <2>8 DEF RunStep
<1>2. ASSUME NEW r \in Requests, Disconnect(r) PROVE EngineTypes'
  BY <1>0, <1>2 DEF Disconnect, engine
<1>3. ASSUME NEW r \in Requests, NEW k \in Candidates, NEW e \in Experts, ExpertStep(r, k, e)
      PROVE  EngineTypes'
  <2>1. PICK to \in Places : Move(r, k, e, expert[r][k][e], to)
    <3>1. \A at \in Asking : Sent[at] \in Places /\ AfterTrial[at] \in Places
      BY DEF Asking, Calling, Holding, Places, Sent, AfterTrial
    <3>2. \A at \in Calling : AfterTrial[at] \in Places
      BY DEF Asking, Calling, Holding, Places, AfterTrial
    <3>3. {"ask1", "scored", "over", "raised"} \subseteq Places
      BY DEF Asking, Holding, Places
    <3>4. CASE Acquire(r, k, e)
      BY <3>3, <3>4 DEF Acquire, Move
    <3>5. CASE Ask(r, k, e)
      BY <3>1, <3>5 DEF Ask
    <3>6. CASE ExpertAnswered(r, k, e)
      BY <3>3, <3>6 DEF ExpertAnswered
    <3>7. CASE ExpertFails(r, k, e)
      BY <3>2, <3>7 DEF ExpertFails
    <3>8. CASE Return(r, k, e)
      BY <3>3, <3>8 DEF Return, Move
    <3> QED
      BY <1>3, <3>4, <3>5, <3>6, <3>7, <3>8 DEF ExpertStep
  <2>2. UNCHANGED <<queue, reports, cand, task>>
    BY <1>3 DEF ExpertStep, Acquire, Ask, ExpertAnswered, ExpertFails, Return, engine
  <2> QED
    BY <1>e, <2>1, <2>2 DEF Move, EngineTypes
<1>4. ASSUME Aside PROVE EngineTypes'
  BY <1>0, <1>4 DEF Aside, engine
<1> QED
  BY <1>1, <1>2, <1>3, <1>4, NextParts

\* Costs and histories are numbers.
LEMMA CostTypesKept ==
  ASSUME TypeOK, AllOrdered, [Next]_vars
  PROVE  CostTypes'
<1> USE FineAssumption
<1>c. CostTypes
  BY DEF TypeOK, CostTypes
<1>0. ASSUME UNCHANGED <<session, usages, billed, answered>> PROVE CostTypes'
  BY <1>0, <1>c DEF CostTypes
<1>k. \A r \in Requests : cand[r] \in 0..MaxPool + 1
  BY DEF TypeOK
<1>1. ASSUME NEW r \in Requests, RunStep(r) PROVE CostTypes'
  <2>0. Ordered(r)
    BY DEF AllOrdered
  <2>1. CASE Begin(r) \/ RoughFails(r) \/ RoughOver(r) \/ Gathered(r) \/ Pump(r)
    BY <1>0, <2>1 DEF Begin, RoughFails, RoughOver, Gathered, Pump, engine, generator
  <2>2. CASE PumpOver(r)
    <3>1. billed[r] + usages[r] \in Nat
      BY <1>c DEF CostTypes
    <3> QED
      BY <1>c, <2>2, <3>1 DEF PumpOver, CostTypes, engine
  <2>3. CASE GatherRaises(r)
    BY <1>c, <2>3 DEF GatherRaises, CandidateFails, CostTypes, generator
  <2>t. CASE TurnRaises(r)
    <3>1. cand[r] \in 0..MaxPool
      BY <2>0, <2>t DEF TurnRaises, Ordered, Stage, TypeOK
    <3>2. answered' \in [Requests -> [0..MaxPool -> Nat]]
      BY <1>c, <2>t, <3>1, Counting DEF TurnRaises
    <3> QED
      BY <1>c, <2>t, <3>2 DEF TurnRaises, CandidateFails, CostTypes, generator
  <2>4. ASSUME NEW usable \in BOOLEAN, SyncOver(r, usable) PROVE CostTypes'
    <3>1. CASE HydeOver(r, usable)
      <4>1. answered' \in [Requests -> [0..MaxPool -> Nat]]
        <5>1. CASE usable
          <6>1. 0 \in 0..MaxPool
            BY FineAssumption
          <6>2. Count(r, 0)
            BY <3>1, <5>1 DEF HydeOver
          <6> QED
            BY <1>c, <6>1, <6>2, Counting
        <5>2. CASE ~usable
          BY <1>c, <3>1, <5>2 DEF HydeOver, CostTypes
        <5> QED
          BY <5>1, <5>2
      <4>2. billed[r] + 1 \in Nat
        BY <1>c DEF CostTypes
      <4> QED
        BY <1>c, <3>1, <4>1, <4>2 DEF HydeOver, CostTypes, engine
    <3>2. CASE TurnOver(r, usable)
      <4>1. cand[r] \in 0..MaxPool
        BY <2>0, <3>2 DEF TurnOver, Ordered, Stage, TypeOK
      <4>2. answered' \in [Requests -> [0..MaxPool -> Nat]]
        BY <1>c, <3>2, <4>1, Counting DEF TurnOver, CostTypes
      <4>3. session[r] + 1 \in Nat
        BY <1>c DEF CostTypes
      <4> QED
        BY <1>c, <3>2, <4>2, <4>3 DEF TurnOver, CostTypes, generator
    <3>3. CASE RecommendOver(r, usable)
      <4>1. cand[r] \in 0..MaxPool
        BY <2>0, <3>3 DEF RecommendOver, Ordered, Stage, TypeOK
      <4>2. answered' \in [Requests -> [0..MaxPool -> Nat]]
        BY <1>c, <3>3, <4>1, Counting DEF RecommendOver, CostTypes
      <4>3. /\ session' = [session EXCEPT ![r] = 0]
            /\ usages' = [usages EXCEPT ![r] = Extended(@, IF usable THEN session[r] + 1
                                                                     ELSE session[r])]
            /\ UNCHANGED billed
        BY <3>3 DEF RecommendOver, generator
      <4>4. Extended(usages[r], IF usable THEN session[r] + 1 ELSE session[r]) \in Nat
        BY <1>c DEF CostTypes, Extended
      <4> QED
        BY <1>c, <4>2, <4>3, <4>4 DEF CostTypes
    <3> QED
      BY <2>4, <3>1, <3>2, <3>3 DEF SyncOver
  <2>5. CASE SyncAsk(r)
    BY <1>0, <2>4, <2>5 DEF SyncAsk, engine, generator
  <2>6. CASE SyncCall(r)
    BY <2>4, <2>t, <2>6 DEF SyncCall
  <2> QED
    BY <1>1, <2>1, <2>2, <2>3, <2>5, <2>6 DEF RunStep
<1>2. ASSUME NEW r \in Requests, Disconnect(r) PROVE CostTypes'
  BY <1>0, <1>2 DEF Disconnect, engine
<1>3. ASSUME NEW r \in Requests, NEW k \in Candidates, NEW e \in Experts, ExpertStep(r, k, e)
      PROVE  CostTypes'
  <2>1. CASE Acquire(r, k, e) \/ Ask(r, k, e) \/ ExpertFails(r, k, e)
    BY <1>0, <2>1 DEF Acquire, Ask, ExpertFails, engine, generator
  <2>2. CASE ExpertAnswered(r, k, e)
    <3>1. k \in 0..MaxPool
      BY DEF Candidates
    <3>2. answered' \in [Requests -> [0..MaxPool -> Nat]]
      BY <1>c, <2>2, <3>1, Counting DEF ExpertAnswered
    <3> QED
      BY <1>c, <2>2, <3>2 DEF ExpertAnswered, CostTypes, engine, generator
  <2>3. CASE Return(r, k, e)
    <3>1. session[r] + 1 \in Nat
      BY <1>c DEF CostTypes
    <3> QED
      BY <1>c, <2>3, <3>1 DEF Return, CostTypes, generator
  <2> QED
    BY <1>3, <2>1, <2>2, <2>3 DEF ExpertStep
<1>4. ASSUME Aside PROVE CostTypes'
  BY <1>0, <1>4 DEF Aside, engine, generator
<1> QED
  BY <1>1, <1>2, <1>3, <1>4, NextParts

\* What is left of m after taking c.
LEMMA Remainder ==
  ASSUME NEW c \in Nat, NEW m \in Nat, NEW s \in Nat, c = m - s
  PROVE  s \in 0..m
OBVIOUS

\* Free permits stay within bounds, since as many are out as there are holders.
LEMMA SlotsKept ==
  ASSUME TypeOK, Counted', slots' \in Nat
  PROVE  slots' \in 0..MaxConcurrency
<1>1. IsFiniteSet(Holders')
  BY AssessmentsFinite, FS_Subset DEF Holders
<1>2. Cardinality(Holders') \in Nat
  BY <1>1, FS_CardinalityType
<1>3. Cardinality(Holders') = MaxConcurrency - slots'
  BY DEF Counted
<1>4. MaxConcurrency \in Nat
  BY FineAssumption
<1> QED
  BY <1>2, <1>3, <1>4, Remainder

\* No step takes a permit that is not there.
LEMMA SlotsNat ==
  ASSUME TypeOK, [Next]_vars
  PROVE  slots' \in Nat
<1>0. slots \in Nat
  BY FineAssumption DEF TypeOK
<1>1. ASSUME NEW r \in Requests, RunStep(r) PROVE slots' = slots
  <2>1. CASE Begin(r) \/ RoughFails(r) \/ RoughOver(r) \/ Gathered(r) \/ GatherRaises(r)
             \/ Pump(r) \/ PumpOver(r)
    BY <2>1 DEF Begin, RoughFails, RoughOver, Gathered, GatherRaises, CandidateFails, Pump, PumpOver
  <2>2. CASE SyncAsk(r) \/ SyncCall(r)
    BY <2>2 DEF SyncAsk, SyncCall, SyncOver, HydeOver, TurnOver, RecommendOver, TurnRaises,
                CandidateFails
  <2> QED
    BY <1>1, <2>1, <2>2 DEF RunStep
<1>2. ASSUME NEW r \in Requests, NEW k \in Candidates, NEW e \in Experts, ExpertStep(r, k, e)
      PROVE  slots' \in Nat
  BY <1>0, <1>2
     DEF ExpertStep, Acquire, TakePermit, Ask, ExpertAnswered, ExpertFails, Return, PermitAfter
<1> QED
  BY <1>0, <1>1, <1>2, NextParts DEF Disconnect, Aside

-----------------------------------------------------------------------------
(* Sums *)

\* The element a fold takes next.
Some(s) == CHOOSE x \in s : TRUE

\* g adds up f over the subsets of S the way the fold does.
Adds(g, S, f) ==
  g = [s \in SUBSET S |-> IF s = {} THEN 0 ELSE f[Some(s)] + g[s \ {Some(s)}]]

\* What a fold is: the value of such a function.
LEMMA SumIsFold ==
  ASSUME NEW f, NEW S
  PROVE  SumOver(f, S) = (CHOOSE g : Adds(g, S, f))[S]
BY DEF SumOver, FoldFunctionOnSet, MapThenFoldSet, Adds, Some

\* A set of subsets of a finite set has a smallest member.
LEMMA Smallest ==
  ASSUME NEW S, IsFiniteSet(S), NEW T, T \subseteq SUBSET S, T # {}
  PROVE  \E s \in T : \A t \in T : t \subseteq s => t = s
<1>1. FiniteSubsetsOf(S) = SUBSET S
  BY FS_FiniteSubsetsOfFinite
<1>2. IsWellFoundedOn(StrictSubsetOrdering(S), SUBSET S)
  BY <1>1, FS_StrictSubsetOrderingWellFounded
<1>3. \E s \in T : \A t \in T : ~(<<t, s>> \in StrictSubsetOrdering(S))
  BY <1>2, WFMin
<1> QED
  BY <1>3 DEF StrictSubsetOrdering

\* The element that is taken is one of the set.
LEMMA SomeMember ==
  ASSUME NEW s, s # {}
  PROVE  Some(s) \in s
BY DEF Some

\* Restricted to the subsets of a subset, such a function still is one.
LEMMA AddsBelow ==
  ASSUME NEW f, NEW S, NEW g, Adds(g, S, f), NEW T \in SUBSET S
  PROVE  Adds([s \in SUBSET T |-> g[s]], T, f)
<1> DEFINE h == [s \in SUBSET T |-> g[s]]
<1>1. ASSUME NEW s \in SUBSET T
      PROVE  h[s] = IF s = {} THEN 0 ELSE f[Some(s)] + h[s \ {Some(s)}]
  <2>1. s \in SUBSET S /\ s \ {Some(s)} \in SUBSET T
    OBVIOUS
  <2>2. g[s] = IF s = {} THEN 0 ELSE f[Some(s)] + g[s \ {Some(s)}]
    BY <2>1 DEF Adds
  <2> QED
    BY <2>1, <2>2
<1> QED
  BY <1>1 DEF Adds

\* Over a finite set there is one only.
LEMMA AddsOnce ==
  ASSUME NEW f, NEW S, IsFiniteSet(S), NEW g, Adds(g, S, f), NEW h, Adds(h, S, f)
  PROVE  g = h
<1> DEFINE T == {s \in SUBSET S : g[s] # h[s]}
<1>1. SUFFICES T = {}
  BY DEF Adds
<1>2. SUFFICES ASSUME T # {} PROVE FALSE
  OBVIOUS
<1>3. T \subseteq SUBSET S
  OBVIOUS
<1> HIDE DEF T
<1>4. PICK s \in T : \A t \in T : t \subseteq s => t = s
  BY <1>2, <1>3, Smallest
<1>5. s \in SUBSET S /\ g[s] # h[s]
  BY DEF T
<1>6. s # {}
  BY <1>5 DEF Adds
<1>7. Some(s) \in s
  BY <1>6, SomeMember
<1>8. s \ {Some(s)} \in SUBSET S /\ s \ {Some(s)} \notin T
  BY <1>4, <1>5, <1>7
<1>9. g[s \ {Some(s)}] = h[s \ {Some(s)}]
  BY <1>8 DEF T
<1> QED
  BY <1>5, <1>6, <1>9 DEF Adds

\* And there is one: the fold follows its own equation.
LEMMA AddsExists ==
  ASSUME NEW f, NEW S, IsFiniteSet(S)
  PROVE  \E g : Adds(g, S, f)
<1> DEFINE T == {s \in SUBSET S : ~ \E g : Adds(g, s, f)}
<1>1. SUFFICES T = {}
  OBVIOUS
<1>2. SUFFICES ASSUME T # {} PROVE FALSE
  OBVIOUS
<1>3. T \subseteq SUBSET S
  OBVIOUS
<1>4. \A s \in SUBSET S : s \in T \/ \E g : Adds(g, s, f)
  OBVIOUS
<1>a. \A s \in T : s \in SUBSET S /\ ~ \E g : Adds(g, s, f)
  OBVIOUS
<1> HIDE DEF T
<1>5. PICK s \in T : \A t \in T : t \subseteq s => t = s
  BY <1>2, <1>3, Smallest
<1>6. s \in SUBSET S /\ IsFiniteSet(s)
  BY <1>3, FS_Subset
<1> DEFINE g == [t \in SUBSET s |-> IF t = {} THEN 0 ELSE f[Some(t)] + SumOver(f, t \ {Some(t)})]
<1>7. ASSUME NEW u \in SUBSET s, u # s PROVE g[u] = SumOver(f, u)
  <2>1. u \in SUBSET S /\ u \notin T /\ IsFiniteSet(u)
    BY <1>5, <1>6, <1>7, FS_Subset
  <2> DEFINE h == CHOOSE h : Adds(h, u, f)
  <2>2. Adds(h, u, f)
    BY <1>4, <2>1
  <2>3. SumOver(f, u) = h[u]
    BY SumIsFold
  <2> HIDE DEF h
  <2>4. SumOver(f, u) = IF u = {} THEN 0 ELSE f[Some(u)] + h[u \ {Some(u)}]
    BY <2>2, <2>3 DEF Adds
  <2>5. CASE u = {}
    BY <2>4, <2>5
  <2>6. CASE u # {}
    <3> DEFINE v == u \ {Some(u)}
    <3>1. v \in SUBSET u /\ v \in SUBSET s /\ v # s
      BY <2>6, SomeMember
    <3>2. v \in SUBSET S /\ v \notin T /\ IsFiniteSet(v)
      BY <1>5, <1>6, <3>1, FS_Subset
    <3> DEFINE k == CHOOSE k : Adds(k, v, f)
    <3>3. Adds(k, v, f) /\ SumOver(f, v) = k[v]
      BY <1>4, <3>2, SumIsFold
    <3> HIDE DEF k, v
    <3>4. Adds([x \in SUBSET v |-> h[x]], v, f)
      BY <2>2, <3>1, AddsBelow
    <3>5. k = [x \in SUBSET v |-> h[x]]
      BY <3>2, <3>3, <3>4, AddsOnce
    <3>6. k[v] = h[v]
      BY <3>5
    <3>7. SumOver(f, u) = f[Some(u)] + SumOver(f, u \ {Some(u)})
      BY <2>4, <2>6, <3>3, <3>6 DEF v
    <3> QED
      BY <2>6, <3>7
  <2> QED
    BY <2>5, <2>6
<1>8. Adds(g, s, f)
  <2>1. ASSUME NEW t \in SUBSET s, t # {}
        PROVE  g[t] = f[Some(t)] + g[t \ {Some(t)}]
    <3>1. t \ {Some(t)} \in SUBSET s /\ t \ {Some(t)} # s
      BY <2>1, SomeMember
    <3>2. g[t \ {Some(t)}] = SumOver(f, t \ {Some(t)})
      BY <1>7, <3>1
    <3>3. g[t] = f[Some(t)] + SumOver(f, t \ {Some(t)})
      BY <2>1
    <3> QED
      BY <3>2, <3>3
  <2>2. g[{}] = 0
    OBVIOUS
  <2>3. \A t \in SUBSET s : g[t] = IF t = {} THEN 0 ELSE f[Some(t)] + g[t \ {Some(t)}]
    BY <2>1, <2>2
  <2>4. g = [t \in SUBSET s |-> g[t]]
    OBVIOUS
  <2> HIDE DEF g
  <2> QED
    BY <2>3, <2>4 DEF Adds
<1> QED
  BY <1>8, <1>a

\* The sum over a set, taking out the element the fold takes first.
LEMMA SumTakes ==
  ASSUME NEW f, NEW S, IsFiniteSet(S)
  PROVE  SumOver(f, S) = IF S = {} THEN 0 ELSE f[Some(S)] + SumOver(f, S \ {Some(S)})
<1> DEFINE h == CHOOSE h : Adds(h, S, f)
           v == S \ {Some(S)}
           k == CHOOSE k : Adds(k, v, f)
<1>1. v \in SUBSET S /\ IsFiniteSet(v)
  BY FS_Subset
<1>2. Adds(h, S, f) /\ Adds(k, v, f) /\ SumOver(f, S) = h[S] /\ SumOver(f, v) = k[v]
  <2> HIDE DEF v
  <2> QED
    BY <1>1, AddsExists, SumIsFold
<1> HIDE DEF h, k
<1>3. h[S] = IF S = {} THEN 0 ELSE f[Some(S)] + h[v]
  BY <1>2 DEF Adds
<1> HIDE DEF v
<1>a. Adds([x \in SUBSET v |-> h[x]], v, f)
  BY <1>1, <1>2, AddsBelow
<1>4. k = [x \in SUBSET v |-> h[x]]
  BY <1>1, <1>2, <1>a, AddsOnce
<1>5. k[v] = h[v]
  BY <1>4
<1> QED
  BY <1>2, <1>3, <1>5 DEF v

\* The order does not matter.
LEMMA SumWithout ==
  ASSUME NEW f, NEW S, IsFiniteSet(S), \A x \in S : f[x] \in Int
  PROVE  SumOver(f, S) \in Int /\ \A x \in S : SumOver(f, S) = f[x] + SumOver(f, S \ {x})
<1> DEFINE Good(s) == SumOver(f, s) \in Int /\ \A x \in s : SumOver(f, s) = f[x] + SumOver(f, s \ {x})
           T == {s \in SUBSET S : ~ Good(s)}
<1>1. SUFFICES T = {}
  OBVIOUS
<1>2. SUFFICES ASSUME T # {} PROVE FALSE
  OBVIOUS
<1>3. T \subseteq SUBSET S
  OBVIOUS
<1>4. \A s \in SUBSET S : s \in T \/ Good(s)
  OBVIOUS
<1>a. \A s \in T : ~ Good(s)
  OBVIOUS
<1> HIDE DEF T
<1>5. PICK s \in T : \A t \in T : t \subseteq s => t = s
  BY <1>2, <1>3, Smallest
<1>6. s \in SUBSET S /\ IsFiniteSet(s)
  BY <1>3, FS_Subset
<1>7. \A t \in SUBSET s : t # s => Good(t)
  BY <1>3, <1>4, <1>5
<1>8. Good(s)
  <2>1. CASE s = {}
    <3>1. SumOver(f, s) = 0
      BY <2>1, <1>6, SumTakes
    <3> QED
      BY <2>1, <3>1
  <2>2. CASE s # {}
    <3> DEFINE c == Some(s)
    <3>1. c \in s /\ f[c] \in Int
      BY <2>2, <1>6, SomeMember
    <3>2. SumOver(f, s) = f[c] + SumOver(f, s \ {c})
      BY <1>6, <2>2, SumTakes
    <3> HIDE DEF c
    <3>3. Good(s \ {c})
      BY <1>7, <3>1
    <3>4. SumOver(f, s) \in Int
      BY <3>1, <3>2, <3>3
    <3>5. ASSUME NEW x \in s, x # c PROVE SumOver(f, s) = f[x] + SumOver(f, s \ {x})
      <4>1. Good(s \ {x})
        BY <1>7
      <4>2. SumOver(f, s \ {x}) = f[c] + SumOver(f, (s \ {x}) \ {c})
        BY <4>1, <3>1, <3>5
      <4>3. SumOver(f, s \ {c}) = f[x] + SumOver(f, (s \ {c}) \ {x})
        BY <3>3, <3>5
      <4>4. (s \ {x}) \ {c} = (s \ {c}) \ {x}
        OBVIOUS
      <4> DEFINE w == SumOver(f, (s \ {c}) \ {x})
      <4>5. Good((s \ {c}) \ {x})
        BY <1>7
      <4>6. w \in Int /\ f[x] \in Int /\ f[c] \in Int
        BY <4>5, <1>6, <3>1
      <4>7. SumOver(f, s) = f[c] + (f[x] + w) /\ SumOver(f, s \ {x}) = f[c] + w
        BY <3>2, <4>2, <4>3, <4>4
      <4> HIDE DEF w
      <4> QED
        BY <4>6, <4>7
    <3> QED
      BY <3>2, <3>4, <3>5
  <2> QED
    BY <2>1, <2>2
<1> QED
  BY <1>8, <1>a

\* Nothing adds up to zero.
LEMMA SumOfNothing == ASSUME NEW f PROVE SumOver(f, {}) = 0
BY SumTakes, FS_EmptySet

\* One element more.
LEMMA SumWith ==
  ASSUME NEW f, NEW S, IsFiniteSet(S), NEW x, x \notin S, \A y \in S \cup {x} : f[y] \in Int
  PROVE  SumOver(f, S \cup {x}) = f[x] + SumOver(f, S)
<1>1. IsFiniteSet(S \cup {x}) /\ (S \cup {x}) \ {x} = S
  BY FS_AddElement
<1> QED
  BY <1>1, SumWithout

\* Functions that agree on a set have the same sum over it.
LEMMA SumsEqual ==
  ASSUME NEW S, IsFiniteSet(S), NEW f, NEW g, \A x \in S : f[x] \in Int /\ f[x] = g[x]
  PROVE  SumOver(f, S) = SumOver(g, S)
<1> DEFINE T == {s \in SUBSET S : SumOver(f, s) # SumOver(g, s)}
<1>1. SUFFICES ASSUME T # {} PROVE FALSE
  OBVIOUS
<1>2. T \subseteq SUBSET S
  OBVIOUS
<1>3. \A s \in SUBSET S : s \in T \/ SumOver(f, s) = SumOver(g, s)
  OBVIOUS
<1>a. \A s \in T : SumOver(f, s) # SumOver(g, s)
  OBVIOUS
<1> HIDE DEF T
<1>4. PICK s \in T : \A t \in T : t \subseteq s => t = s
  BY <1>1, <1>2, Smallest
<1>5. IsFiniteSet(s) /\ s \in SUBSET S
  BY <1>2, FS_Subset
<1>6. s # {}
  BY <1>a, SumOfNothing
<1>7. PICK x \in s : TRUE
  BY <1>6
<1>8. SumOver(f, s) = f[x] + SumOver(f, s \ {x}) /\ SumOver(g, s) = g[x] + SumOver(g, s \ {x})
  <2>1. (\A y \in s : f[y] \in Int) /\ (\A y \in s : g[y] \in Int)
    BY <1>5
  <2> QED
    BY <1>5, <2>1, SumWithout
<1>9. SumOver(f, s \ {x}) = SumOver(g, s \ {x}) /\ f[x] = g[x]
  BY <1>3, <1>4, <1>5
<1> QED
  BY <1>a, <1>8, <1>9

\* Sums over disjoint sets make the sum over both.
LEMMA SumSplit ==
  ASSUME NEW f, NEW S, IsFiniteSet(S), NEW T, IsFiniteSet(T), S \cap T = {},
         \A x \in S \cup T : f[x] \in Int
  PROVE  SumOver(f, S \cup T) = SumOver(f, S) + SumOver(f, T)
<1> DEFINE Good(t) == SumOver(f, S \cup t) = SumOver(f, S) + SumOver(f, t)
           B == {t \in SUBSET T : ~ Good(t)}
<1>1. SUFFICES B = {}
  OBVIOUS
<1>2. SUFFICES ASSUME B # {} PROVE FALSE
  OBVIOUS
<1>3. B \subseteq SUBSET T
  OBVIOUS
<1>4. \A t \in SUBSET T : t \in B \/ Good(t)
  OBVIOUS
<1>a. \A t \in B : ~ Good(t)
  OBVIOUS
<1> HIDE DEF B
<1>5. PICK t \in B : \A v \in B : v \subseteq t => v = t
  BY <1>2, <1>3, Smallest
<1>6. t \in SUBSET T /\ IsFiniteSet(t)
  BY <1>3, FS_Subset
<1>s. SumOver(f, S) \in Int
  BY SumWithout
<1>7. t # {}
  <2>1. SumOver(f, S) = SumOver(f, S) + 0
    BY <1>s
  <2>2. S \cup {} = S /\ SumOver(f, {}) = 0
    BY SumOfNothing
  <2>3. Good({})
    BY <2>1, <2>2
  <2> QED
    BY <1>a, <2>3
<1>8. PICK x \in t : TRUE
  BY <1>7
<1> DEFINE v == t \ {x}
<1>9. v \in SUBSET T /\ v # t /\ v \subseteq t /\ x \notin v /\ x \notin S \cup v
  BY <1>6
<1>10. Good(v)
  BY <1>4, <1>5, <1>9
<1>11. IsFiniteSet(v) /\ IsFiniteSet(S \cup v) /\ t = v \cup {x} /\ S \cup t = (S \cup v) \cup {x}
  BY <1>6, FS_Subset, FS_Union
<1>12. (\A y \in v \cup {x} : f[y] \in Int) /\ (\A y \in (S \cup v) \cup {x} : f[y] \in Int)
  BY <1>6
<1>i. f[x] \in Int /\ \A y \in v : f[y] \in Int
  BY <1>12
<1> HIDE DEF v
<1>13. SumOver(f, t) = f[x] + SumOver(f, v)
  BY <1>9, <1>11, <1>12, SumWith
<1>14. SumOver(f, S \cup t) = f[x] + SumOver(f, S \cup v)
  BY <1>9, <1>11, <1>12, SumWith
<1>15. SumOver(f, v) \in Int
  BY <1>11, <1>i, SumWithout
<1>16. Good(t)
  BY <1>s, <1>i, <1>10, <1>13, <1>14, <1>15
<1> QED
  BY <1>a, <1>16

-----------------------------------------------------------------------------
(* The costs *)

\* What a run counts its answers for.
LEMMA CandidatesFinite ==
  /\ IsFiniteSet(Candidates) /\ Candidates \subseteq 0..MaxPool /\ 0 \in 0..MaxPool
  /\ 0 \notin Candidates /\ Candidates \subseteq Nat
<1>1. MaxPool \in Nat
  BY FineAssumption
<1>2. IsFiniteSet(Candidates)
  BY <1>1, FS_Interval DEF Candidates
<1> QED
  BY <1>1, <1>2 DEF Candidates

\* What the costs of a run are made of is the same after the step.
SameCosts(u) ==
  /\ phase'[u] = phase[u] /\ task'[u] = task[u] /\ cand'[u] = cand[u] /\ reports'[u] = reports[u]
  /\ cached'[u] = cached[u] /\ session'[u] = session[u] /\ usages'[u] = usages[u]
  /\ billed'[u] = billed[u] /\ answered'[u] = answered[u]

AllCosts == \A u \in Requests : Costs(u)

\* Then they stay explained if nobody becomes scored or leaves the end.
LEMMA CostsSame ==
  ASSUME NEW u \in Requests, Costs(u), SameCosts(u),
         \/ expert'[u] = expert[u]
         \/ cand[u] \in Candidates /\ expert'[u][cand[u]] = expert[u][cand[u]]
  PROVE  Costs(u)'
<1>1. Waiting(u)' = Waiting(u)
  BY DEF Waiting, SameCosts
<1> QED
  BY <1>1 DEF Assessed, Costs, SameCosts

\* A step of one run leaves the costs of the others alone.
LEMMA CostsOfOthers ==
  ASSUME AllCosts, NEW r \in Requests, Costs(r)',
         \A u \in Requests \ {r} : SameCosts(u) /\ expert'[u] = expert[u]
  PROVE  AllCosts'
BY CostsSame DEF AllCosts

\* The engine is at a new candidate, about whom nobody has been asked.
LEMMA CostsGoOn ==
  ASSUME TypeOK, NEW r \in Requests, NEW n \in 0..MaxPool, NEW hits \in SUBSET (1..n),
         NEW k \in 1..n + 1, NEW b \in k..n + 1, NEW ev, NEW known,
         Went(r, k, b, n, hits, ev, known), k > cand[r],
         session'[r] = 0, cached'[r] = hits, phase'[r] # "done", billed'[r] = answered'[r][0],
         answered'[r] \in [0..MaxPool -> Nat],
         \A j \in Candidates : j > cand[r] => answered'[r][j] = 0,
         usages'[r] = SumOver(answered'[r], known \ hits)
  PROVE  Costs(r)'
<1>1. /\ cand'[r] = b /\ reports'[r] = known \cup k..b - 1 /\ k..b - 1 \subseteq hits
      /\ task'[r] \in {"gather", "done", "broken"}
  BY DEF Went, Replay, TypeOK
<1>2. reports'[r] \ cached'[r] = known \ hits
  BY <1>1
<1>a. cand[r] \in 0..MaxPool + 1 /\ MaxPool \in Nat
  BY FineAssumption DEF TypeOK
<1>3. cand[r] \in Nat /\ b \in Nat /\ k \in Nat /\ b > cand[r] /\ MaxPool \in Nat
  BY <1>a
<1>4. ASSUME task'[r] = "gather"
      PROVE  session'[r] + Cardinality(Waiting(r)') = answered'[r][b]
  <2>1. b \in 1..n /\ expert' = [expert EXCEPT ![r][b] = [e \in Experts |-> "queued"]]
    BY <1>4 DEF Went, TypeOK
  <2>2. b \in Candidates
    BY <2>1, <1>3 DEF Candidates
  <2>3. \A e \in Experts : expert'[r][b][e] = "queued"
    BY <2>1, <2>2 DEF TypeOK
  <2>4. Waiting(r)' = {}
    BY <1>1, <2>3 DEF Waiting
  <2>5. answered'[r][b] = 0
    BY <1>3, <2>2
  <2> QED
    BY <2>4, <2>5, FS_EmptySet
<1>5. ASSUME NEW j \in Candidates, j > b PROVE answered'[r][j] = 0
  <2>1. j > cand[r]
    BY <1>3, <1>5 DEF Candidates
  <2> QED
    BY <2>1
<1>6. billed'[r] = answered'[r][0] + 0
  <2>1. answered'[r][0] \in Nat
    BY <1>3
  <2> QED
    BY <2>1
<1>7. /\ billed'[r] = answered'[r][0] + IF phase'[r] = "done" THEN usages'[r] ELSE 0
      /\ usages'[r] = SumOver(answered'[r], reports'[r] \ cached'[r])
      /\ task'[r] \notin {"none", "discuss", "recommend"}
      /\ task'[r] = "gather" => session'[r] + Cardinality(Waiting(r)') = answered'[r][cand'[r]]
      /\ \A j \in Candidates : j > cand'[r] => answered'[r][j] = 0
  BY <1>1, <1>2, <1>4, <1>5, <1>6
<1> QED
  BY <1>7 DEF Assessed, Costs

\* Nothing has been spent on candidates before there are any.
LEMMA NothingSpent ==
  ASSUME NEW r \in Requests, Costs(r), Stage(r), task[r] = "none"
  PROVE  usages[r] = 0 /\ session[r] = 0 /\ \A j \in Candidates : answered[r][j] = 0
<1>1. reports[r] \ cached[r] = {} /\ cand[r] = 0
  BY DEF Stage
<1>2. usages[r] = SumOver(answered[r], {}) /\ session[r] = 0
  BY <1>1 DEF Assessed, Costs
<1>3. \A j \in Candidates : j > 0
  BY DEF Candidates
<1> QED
  BY <1>1, <1>2, <1>3, SumOfNothing DEF Costs

\* So it is when the candidates are ranked.
LEMMA RoughOverCosts ==
  ASSUME TypeOK, AllOrdered, AllCosts, NEW r \in Requests, RoughOver(r)
  PROVE  AllCosts'
<1>1. task[r] = "none" /\ pool[r] = 0 /\ cand[r] = 0 /\ reports[r] = {} /\ cached[r] = {} /\ Stage(r)
  BY DEF RoughOver, AllOrdered, Ordered, Stage
<1>2. usages[r] = 0 /\ session[r] = 0 /\ \A j \in Candidates : answered[r][j] = 0
  BY <1>1, NothingSpent DEF AllCosts
<1>3. UNCHANGED <<billed, session, usages, answered>> /\ phase[r] = "rough"
  BY DEF RoughOver
<1>a. answered[r] \in [0..MaxPool -> Nat] /\ 0 \in 0..MaxPool
  <2>1. 0 \in 0..MaxPool
    BY FineAssumption
  <2> QED
    BY <2>1 DEF TypeOK
<1>4. billed[r] = answered[r][0] + 0 /\ answered[r][0] \in Nat
  BY <1>3, <1>a DEF AllCosts, Costs
<1>5. PICK n \in 0..MaxCandidates[r] : \E hits \in SUBSET (1..n) :
        /\ pool' = [pool EXCEPT ![r] = n] /\ cached' = [cached EXCEPT ![r] = hits]
        /\ phase' = [phase EXCEPT ![r] = IF n = 0 THEN "done" ELSE "pump"]
        /\ IF n = 0 THEN UNCHANGED <<queue, reports, cand, task, expert>>
           ELSE Continue(r, 1, n, hits, <<>>, {})
  BY DEF RoughOver
<1>6. PICK hits \in SUBSET (1..n) :
        /\ pool' = [pool EXCEPT ![r] = n] /\ cached' = [cached EXCEPT ![r] = hits]
        /\ phase' = [phase EXCEPT ![r] = IF n = 0 THEN "done" ELSE "pump"]
        /\ IF n = 0 THEN UNCHANGED <<queue, reports, cand, task, expert>>
           ELSE Continue(r, 1, n, hits, <<>>, {})
  BY <1>5
<1>7. n \in 0..MaxPool
  BY FineAssumption
<1>8. CASE n = 0
  <2>a. hits = {}
    BY <1>8
  <2>1. cached'[r] = {} /\ phase'[r] = "done" /\ UNCHANGED <<reports, cand, task, expert>>
    BY <1>6, <1>8, <2>a DEF TypeOK
  <2>2. \A u \in Requests \ {r} : SameCosts(u) /\ expert'[u] = expert[u]
    BY <1>3, <1>6, <2>1 DEF SameCosts, TypeOK
  <2>3. usages[r] = SumOver(answered[r], {} \ {})
    BY <1>2, SumOfNothing
  <2>4. Costs(r)'
    BY <1>1, <1>2, <1>3, <1>4, <2>1, <2>3 DEF Assessed, Costs
  <2> QED
    BY <2>2, <2>4, CostsOfOthers
<1>9. CASE n # 0
  <2>1. 1 \in 1..n + 1 /\ 1 > cand[r] /\ n \in Nat
    BY <1>1, <1>7, <1>9
  <2>2. PICK b \in 1..n + 1 : Went(r, 1, b, n, hits, <<>>, {})
    <3>1. Continue(r, 1, n, hits, <<>>, {})
      BY <1>6, <1>9
    <3> QED
      BY <2>1, <3>1, Goes
  <2>3. cached'[r] = hits /\ phase'[r] # "done"
    BY <1>6, <1>9 DEF TypeOK
  <2>4. answered'[r][0] \in Nat /\ billed'[r] = answered'[r][0]
    BY <1>3, <1>4
  <2>5. usages'[r] = SumOver(answered'[r], {} \ hits)
    BY <1>2, <1>3, SumOfNothing
  <2>6. Costs(r)'
    BY <1>2, <1>3, <1>a, <1>7, <2>1, <2>2, <2>3, <2>4, <2>5, CostsGoOn
  <2>7. \A u \in Requests \ {r} : SameCosts(u) /\ expert'[u] = expert[u]
    BY <1>3, <1>6, <2>2 DEF SameCosts, Went, Replay, TypeOK
  <2> QED
    BY <2>6, <2>7, CostsOfOthers
<1> QED
  BY <1>8, <1>9


\* What a run has spent so far, when it is about to leave the candidate it is at.
LEMMA SpentBefore ==
  ASSUME TypeOK, AllOrdered, AllCosts, NEW r \in Requests, task[r] \in {"gather", "discuss", "recommend"}
  PROVE  /\ cand[r] \in 1..pool[r] /\ cand[r] \in Candidates /\ cand[r] \notin cached[r]
         /\ pool[r] \in 0..MaxPool /\ cached[r] \in SUBSET (1..pool[r])
         /\ reports[r] \subseteq 1..cand[r] - 1 /\ cand[r] \notin reports[r] /\ 0 \notin reports[r]
         /\ IsFiniteSet(reports[r]) /\ phase[r] # "done"
         /\ answered[r] \in [0..MaxPool -> Nat] /\ reports[r] \subseteq Candidates
         /\ billed[r] = answered[r][0] /\ billed[r] \in Nat /\ session[r] \in Nat /\ usages[r] \in Nat
         /\ usages[r] = SumOver(answered[r], reports[r] \ cached[r])
<1>1. Stage(r) /\ InOrder(r) /\ Costs(r)
  BY DEF AllOrdered, Ordered, AllCosts
<1>2. /\ pool[r] \in 0..MaxPool /\ answered[r] \in [0..MaxPool -> Nat] /\ reports[r] \subseteq Candidates
      /\ billed[r] \in Nat /\ session[r] \in Nat /\ usages[r] \in Nat
  BY DEF TypeOK
<1>3. /\ cand[r] \in 1..pool[r] /\ cand[r] \notin cached[r] /\ cached[r] \in SUBSET (1..pool[r])
      /\ reports[r] \subseteq 1..cand[r] - 1 /\ phase[r] # "done"
  BY <1>1 DEF Stage, InOrder
<1>4. MaxPool \in Nat
  BY FineAssumption
<1>5. cand[r] \in Nat /\ cand[r] \in Candidates
  BY <1>2, <1>3, <1>4 DEF Candidates
<1>6. cand[r] \notin reports[r] /\ 0 \notin reports[r]
  BY <1>3, <1>5
<1>7. IsFiniteSet(reports[r])
  <2>1. IsFiniteSet(Candidates)
    BY <1>4, FS_Interval DEF Candidates
  <2> QED
    BY <1>2, <2>1, FS_Subset
<1>8. answered[r][0] \in Nat
  BY <1>2, <1>4
<1>9. billed[r] = answered[r][0] /\ usages[r] = SumOver(answered[r], reports[r] \ cached[r])
  BY <1>1, <1>3, <1>8 DEF Assessed, Costs
<1> QED
  BY <1>2, <1>3, <1>5, <1>6, <1>7, <1>9

\* A usable answer is counted where it belongs.
LEMMA CountsOne ==
  ASSUME TypeOK, NEW r \in Requests, NEW k \in 0..MaxPool, Count(r, k)
  PROVE  /\ answered'[r] = [answered[r] EXCEPT ![k] = @ + 1]
         /\ answered'[r] \in [0..MaxPool -> Nat] /\ answered'[r][k] = answered[r][k] + 1
         /\ \A j \in 0..MaxPool \ {k} : answered'[r][j] = answered[r][j]
         /\ \A u \in Requests \ {r} : answered'[u] = answered[u]
<1>1. answered' = [answered EXCEPT ![r][k] = @ + 1] /\ answered \in [Requests -> [0..MaxPool -> Nat]]
  BY DEF Count, TypeOK
<1>2. answered[r] \in [0..MaxPool -> Nat]
  BY <1>1
<1>3. answered[r][k] \in Nat
  BY <1>2
<1>4. answered'[r] = [answered[r] EXCEPT ![k] = @ + 1] /\ \A u \in Requests \ {r} : answered'[u] = answered[u]
  BY <1>1
<1>5. answered'[r][k] = answered[r][k] + 1 /\ \A j \in 0..MaxPool \ {k} : answered'[r][j] = answered[r][j]
  BY <1>2, <1>4
<1>6. answered[r][k] + 1 \in Nat
  BY <1>3
<1> QED
  BY <1>2, <1>4, <1>5, <1>6

\* When a candidate fails, the answers about it are lost.
LEMMA FailsCosts ==
  ASSUME TypeOK, AllOrdered, AllCosts, NEW r \in Requests, task[r] \in {"gather", "discuss"},
         CandidateFails(r), UNCHANGED answered \/ Count(r, cand[r])
  PROVE  AllCosts'
<1> DEFINE j == cand[r]
           n == pool[r]
           hits == cached[r]
           S == reports[r] \ hits
<1>1. /\ session' = [session EXCEPT ![r] = 0]
      /\ Continue(r, j + 1, n, hits, <<<<j, "failed">>>>, reports[r])
      /\ UNCHANGED <<phase, pool, cached, sent, billed, usages>>
  BY DEF CandidateFails, generator
<1>2. /\ j \in 1..n /\ j \in Candidates /\ n \in 0..MaxPool /\ hits \in SUBSET (1..n)
      /\ j \notin reports[r] /\ IsFiniteSet(reports[r]) /\ phase[r] # "done"
      /\ answered[r] \in [0..MaxPool -> Nat] /\ reports[r] \subseteq Candidates
      /\ billed[r] = answered[r][0] /\ usages[r] = SumOver(answered[r], S)
  BY SpentBefore
<1>3. /\ j \in Nat /\ j > 0 /\ j \in 0..MaxPool /\ j + 1 \in 1..n + 1 /\ j + 1 > j
      /\ 0 \in 0..MaxPool /\ Candidates \subseteq 0..MaxPool
  BY <1>2, FineAssumption DEF Candidates
<1>4. /\ session'[r] = 0 /\ cached'[r] = hits
      /\ phase'[r] # "done" /\ billed'[r] = billed[r] /\ usages'[r] = usages[r]
  BY <1>1, <1>2 DEF TypeOK
<1>5. PICK b \in j + 1..n + 1 : Went(r, j + 1, b, n, hits, <<<<j, "failed">>>>, reports[r])
  <2>1. Continue(r, j + 1, n, hits, <<<<j, "failed">>>>, reports[r])
    BY <1>1
  <2>2. n \in Nat /\ j + 1 \in 1..n + 1
    BY <1>2, <1>3
  <2> HIDE DEF j, n, hits, S
  <2> QED
    BY <2>1, <2>2, Goes
<1>6. \A k \in Candidates : k > j => answered[r][k] = 0
  BY DEF AllCosts, Costs
<1>7. j = cand[r] /\ S \subseteq Candidates /\ j \notin S /\ IsFiniteSet(S)
  BY <1>2, FS_Difference
<1>9. /\ answered'[r] \in [0..MaxPool -> Nat]
      /\ \A k \in 0..MaxPool \ {j} : answered'[r][k] = answered[r][k]
      /\ \A u \in Requests \ {r} : answered'[u] = answered[u]
  <2>1. CASE UNCHANGED answered
    BY <1>2, <2>1
  <2>2. CASE Count(r, cand[r])
    <3>1. j \in 0..MaxPool /\ Count(r, j)
      BY <1>3, <2>2
    <3> HIDE DEF j
    <3> QED
      BY <3>1, CountsOne
  <2> QED
    BY <2>1, <2>2
<1>8. \A u \in Requests \ {r} : SameCosts(u) /\ expert'[u] = expert[u]
  BY <1>1, <1>5, <1>9 DEF SameCosts, Went, Replay, TypeOK
<1>s. reports[r] \ hits = S
  OBVIOUS
<1> HIDE DEF j, n, hits, S
<1>10. billed'[r] = answered'[r][0]
  BY <1>2, <1>3, <1>4, <1>9
<1>11. ASSUME NEW k \in Candidates, k > j PROVE answered'[r][k] = 0
  <2>1. k \in 0..MaxPool \ {j}
    BY <1>3, <1>11
  <2> QED
    BY <1>6, <1>9, <1>11, <2>1
<1>12. usages'[r] = SumOver(answered'[r], S)
  <2>1. ASSUME NEW k \in S PROVE answered[r][k] \in Int /\ answered[r][k] = answered'[r][k]
    <3>1. k \in 0..MaxPool \ {j}
      BY <1>3, <1>7
    <3>2. answered[r][k] \in Nat
      BY <1>2, <3>1
    <3> QED
      BY <1>9, <3>1, <3>2
  <2>2. SumOver(answered[r], S) = SumOver(answered'[r], S)
    BY <1>7, <2>1, SumsEqual
  <2> QED
    BY <1>2, <1>4, <2>2
<1>13. Costs(r)'
  <2>1. j + 1 > cand[r] /\ \A k \in Candidates : k > cand[r] => answered'[r][k] = 0
    BY <1>3, <1>7, <1>11
  <2>2. usages'[r] = SumOver(answered'[r], reports[r] \ hits)
    BY <1>12, <1>s
  <2>3. /\ n \in 0..MaxPool /\ hits \in SUBSET (1..n) /\ j + 1 \in 1..n + 1 /\ session'[r] = 0
        /\ cached'[r] = hits /\ phase'[r] # "done" /\ answered'[r] \in [0..MaxPool -> Nat]
    BY <1>2, <1>3, <1>4, <1>9
  <2> QED
    BY <1>5, <1>10, <2>1, <2>2, <2>3, CostsGoOn
<1> QED
  BY <1>8, <1>13, CostsOfOthers

LEMMA RaisesCosts ==
  ASSUME TypeOK, AllOrdered, AllCosts, NEW r \in Requests, GatherRaises(r) \/ TurnRaises(r)
  PROVE  AllCosts'
<1>1. CASE GatherRaises(r)
  BY <1>1, FailsCosts DEF GatherRaises
<1>2. CASE TurnRaises(r)
  BY <1>2, FailsCosts DEF TurnRaises
<1> QED
  BY <1>1, <1>2

\* A candidate that is done is billed with all answers about it.
LEMMA RecommendCosts ==
  ASSUME TypeOK, AllOrdered, AllCosts, NEW r \in Requests, NEW usable \in BOOLEAN, RecommendOver(r, usable)
  PROVE  AllCosts'
<1> DEFINE j == cand[r]
           n == pool[r]
           hits == cached[r]
           new == IF usable THEN session[r] + 1 ELSE session[r]
           known == reports[r] \cup {j}
           S == reports[r] \ hits
<1>1. /\ task[r] = "recommend" /\ session' = [session EXCEPT ![r] = 0]
      /\ usages' = [usages EXCEPT ![r] = @ + new]
      /\ IF usable THEN Count(r, j) ELSE UNCHANGED answered
      /\ Continue(r, j + 1, n, hits, <<<<j, "done">>>>, known)
      /\ UNCHANGED <<phase, pool, cached, sent, billed>>
  BY DEF RecommendOver, generator, Extended
<1>2. /\ j \in 1..n /\ j \in Candidates /\ n \in 0..MaxPool /\ hits \in SUBSET (1..n) /\ j \notin hits
      /\ j \notin reports[r] /\ IsFiniteSet(reports[r]) /\ phase[r] # "done"
      /\ answered[r] \in [0..MaxPool -> Nat] /\ reports[r] \subseteq Candidates
      /\ billed[r] = answered[r][0] /\ usages[r] = SumOver(answered[r], S)
      /\ session[r] \in Nat /\ usages[r] \in Nat
  BY <1>1, SpentBefore
<1>3. /\ j \in Nat /\ j > 0 /\ j \in 0..MaxPool /\ j + 1 \in 1..n + 1 /\ j + 1 > j
      /\ 0 \in 0..MaxPool /\ Candidates \subseteq 0..MaxPool
  BY <1>2, FineAssumption, SMTT(20) DEF Candidates
<1>4. /\ session'[r] = 0 /\ cached'[r] = hits /\ usages'[r] = usages[r] + new
      /\ phase'[r] # "done" /\ billed'[r] = billed[r] /\ new \in Nat
  BY <1>1, <1>2 DEF TypeOK
<1>5. PICK b \in j + 1..n + 1 : Went(r, j + 1, b, n, hits, <<<<j, "done">>>>, known)
  <2>1. Continue(r, j + 1, n, hits, <<<<j, "done">>>>, known)
    BY <1>1
  <2>2. n \in Nat /\ j + 1 \in 1..n + 1
    BY <1>2, <1>3
  <2> HIDE DEF j, n, hits, new, known, S
  <2> QED
    BY <2>1, <2>2, Goes
<1>6. session[r] = answered[r][j] /\ \A k \in Candidates : k > j => answered[r][k] = 0
  BY <1>1 DEF AllCosts, Costs
<1>7. /\ j = cand[r] /\ S \subseteq Candidates /\ j \notin S /\ IsFiniteSet(S) /\ known \ hits = S \cup {j}
  BY <1>2, FS_Difference
<1>8. /\ answered'[r] \in [0..MaxPool -> Nat] /\ answered'[r][j] = new
      /\ \A k \in 0..MaxPool \ {j} : answered'[r][k] = answered[r][k]
      /\ \A u \in Requests \ {r} : answered'[u] = answered[u]
  <2>1. CASE usable
    <3>1. Count(r, j) /\ new = session[r] + 1
      BY <1>1, <2>1
    <3> HIDE DEF j, n, hits, new, known, S
    <3> QED
      <4>1. /\ answered'[r] \in [0..MaxPool -> Nat] /\ answered'[r][j] = answered[r][j] + 1
            /\ \A k \in 0..MaxPool \ {j} : answered'[r][k] = answered[r][k]
            /\ \A u \in Requests \ {r} : answered'[u] = answered[u]
        <5>1. j \in 0..MaxPool /\ j = cand[r] /\ Count(r, j)
          BY <1>3, <1>7, <3>1
        <5> QED
          BY <5>1, CountsOne
      <4> QED
        BY <1>6, <3>1, <4>1
  <2>2. CASE ~usable
    <3>1. UNCHANGED answered /\ new = session[r]
      BY <1>1, <2>2
    <3> HIDE DEF j, n, hits, new, known, S
    <3> QED
      BY <1>2, <1>6, <3>1
  <2> QED
    BY <2>1, <2>2
<1>9. \A u \in Requests \ {r} : SameCosts(u) /\ expert'[u] = expert[u]
  BY <1>1, <1>5, <1>8, ZenonT(40) DEF SameCosts, Went, Replay, TypeOK
<1> HIDE DEF j, n, hits, new, known, S
<1>10. billed'[r] = answered'[r][0]
  BY <1>2, <1>3, <1>4, <1>8
<1>11. ASSUME NEW k \in Candidates, k > j PROVE answered'[r][k] = 0
  <2>1. k \in 0..MaxPool \ {j}
    BY <1>3, <1>11
  <2> QED
    BY <1>6, <1>8, <1>11, <2>1
<1>12. usages'[r] = SumOver(answered'[r], known \ hits)
  <2>1. ASSUME NEW k \in S PROVE answered[r][k] \in Int /\ answered[r][k] = answered'[r][k]
    <3>1. k \in 0..MaxPool \ {j}
      BY <1>3, <1>7
    <3>2. answered[r][k] \in Nat
      BY <1>2, <3>1
    <3> QED
      BY <1>8, <3>1, <3>2
  <2>2. SumOver(answered[r], S) = SumOver(answered'[r], S)
    BY <1>7, <2>1, SumsEqual
  <2>3. \A k \in S \cup {j} : answered'[r][k] \in Int
    BY <1>4, <1>8, <2>1
  <2>4. SumOver(answered'[r], S \cup {j}) = answered'[r][j] + SumOver(answered'[r], S)
    BY <1>7, <2>3, SumWith
  <2>5. usages[r] + new = new + usages[r]
    BY <1>2, <1>4
  <2> QED
    BY <1>2, <1>4, <1>7, <1>8, <2>2, <2>4, <2>5
<1>13. Costs(r)'
  <2>1. j + 1 > cand[r] /\ \A k \in Candidates : k > cand[r] => answered'[r][k] = 0
    BY <1>3, <1>7, <1>11
  <2>2. /\ n \in 0..MaxPool /\ hits \in SUBSET (1..n) /\ j + 1 \in 1..n + 1 /\ session'[r] = 0
        /\ cached'[r] = hits /\ phase'[r] # "done" /\ answered'[r] \in [0..MaxPool -> Nat]
    BY <1>2, <1>3, <1>4, <1>8
  <2> QED
    BY <1>5, <1>10, <1>12, <2>1, <2>2, CostsGoOn
<1> QED
  BY <1>9, <1>13, CostsOfOthers


\* The rewriting of the query is billed when it is answered.
LEMMA HydeCosts ==
  ASSUME TypeOK, AllOrdered, AllCosts, NEW r \in Requests, NEW usable \in BOOLEAN, HydeOver(r, usable)
  PROVE  AllCosts'
<1>1. /\ phase[r] = "hyde" /\ phase' = [phase EXCEPT ![r] = "rough"]
      /\ billed' = IF usable THEN [billed EXCEPT ![r] = @ + 1] ELSE billed
      /\ IF usable THEN Count(r, 0) ELSE UNCHANGED answered
      /\ UNCHANGED <<cached, task, cand, reports, session, usages, expert>>
  BY DEF HydeOver, engine
<1>2. task[r] = "none" /\ Stage(r) /\ cand[r] = 0 /\ reports[r] \ cached[r] = {} /\ Costs(r)
  BY <1>1 DEF AllOrdered, Ordered, Stage, AllCosts
<1>3. /\ 0 \in 0..MaxPool /\ Candidates \subseteq 0..MaxPool \ {0} /\ answered[r][0] \in Nat
      /\ billed[r] = answered[r][0]
  <2>1. 0 \in 0..MaxPool /\ Candidates \subseteq 0..MaxPool \ {0}
    BY FineAssumption DEF Candidates
  <2>2. answered[r] \in [0..MaxPool -> Nat]
    BY DEF TypeOK
  <2>3. answered[r][0] \in Nat
    BY <2>1, <2>2
  <2> QED
    BY <1>1, <1>2, <2>1, <2>3 DEF Costs
<1>4. /\ answered'[r][0] = (IF usable THEN answered[r][0] + 1 ELSE answered[r][0])
      /\ \A j \in Candidates : answered'[r][j] = answered[r][j]
      /\ \A u \in Requests \ {r} : answered'[u] = answered[u]
  <2>1. CASE usable
    <3>1. /\ answered'[r][0] = answered[r][0] + 1
          /\ \A j \in 0..MaxPool \ {0} : answered'[r][j] = answered[r][j]
          /\ \A u \in Requests \ {r} : answered'[u] = answered[u]
      BY <1>1, <1>3, <2>1, CountsOne
    <3> QED
      BY <1>3, <2>1, <3>1
  <2>2. CASE ~usable
    BY <1>1, <2>2
  <2> QED
    BY <2>1, <2>2
<1>5. billed'[r] = answered'[r][0] + 0 /\ phase'[r] # "done"
  BY <1>1, <1>3, <1>4 DEF TypeOK
<1>6. usages[r] = 0 /\ session[r] = 0 /\ \A j \in Candidates : answered[r][j] = 0
  BY <1>2, NothingSpent
<1>7. usages'[r] = SumOver(answered'[r], reports'[r] \ cached'[r])
  BY <1>1, <1>2, <1>6, SumOfNothing
<1>8. Costs(r)'
  BY <1>1, <1>2, <1>4, <1>5, <1>6, <1>7 DEF Assessed, Costs
<1>9. \A u \in Requests \ {r} : SameCosts(u) /\ expert'[u] = expert[u]
  BY <1>1, <1>4 DEF SameCosts, TypeOK
<1> QED
  BY <1>8, <1>9, CostsOfOthers

\* One more answer about the candidate the engine is at, and as much more in its session or waiting:
\* what was spent before is not touched.
LEMMA AnotherAnswer ==
  ASSUME TypeOK, AllOrdered, AllCosts, NEW r \in Requests, task[r] \in {"gather", "discuss", "recommend"},
         Count(r, cand[r]), UNCHANGED <<phase, cached, cand, reports, usages, billed>>
  PROVE  /\ answered'[r][cand[r]] = answered[r][cand[r]] + 1 /\ answered[r][cand[r]] \in Nat
         /\ phase'[r] # "done" /\ billed'[r] = answered'[r][0] /\ billed'[r] \in Nat
         /\ usages'[r] = SumOver(answered'[r], reports'[r] \ cached'[r])
         /\ \A k \in Candidates : k > cand[r] => answered'[r][k] = 0
         /\ \A u \in Requests \ {r} : answered'[u] = answered[u]
<1> DEFINE j == cand[r]
           S == reports[r] \ cached[r]
<1>1. /\ j \in Candidates /\ j \notin reports[r] /\ IsFiniteSet(reports[r]) /\ phase[r] # "done"
      /\ answered[r] \in [0..MaxPool -> Nat] /\ reports[r] \subseteq Candidates
      /\ billed[r] = answered[r][0] /\ billed[r] \in Nat /\ usages[r] = SumOver(answered[r], S)
  BY SpentBefore
<1>2. /\ j \in 0..MaxPool /\ 0 \in 0..MaxPool \ {j} /\ Candidates \subseteq 0..MaxPool
      /\ S \subseteq 0..MaxPool \ {j} /\ IsFiniteSet(S)
  <2>1. Candidates \subseteq 0..MaxPool /\ 0 \in 0..MaxPool /\ 0 \notin Candidates
    BY FineAssumption DEF Candidates
  <2> QED
    BY <1>1, <2>1, FS_Difference
<1>3. /\ answered'[r][j] = answered[r][j] + 1
      /\ \A k \in 0..MaxPool \ {j} : answered'[r][k] = answered[r][k]
      /\ \A u \in Requests \ {r} : answered'[u] = answered[u]
  BY <1>2, CountsOne, ZenonT(40)
<1>4. \A k \in Candidates : k > j => answered[r][k] = 0
  BY DEF AllCosts, Costs
<1>5. \A k \in 0..MaxPool : answered[r][k] \in Nat
  BY <1>1
<1>6. SumOver(answered[r], S) = SumOver(answered'[r], S)
  <2>1. \A k \in S : answered[r][k] \in Int /\ answered[r][k] = answered'[r][k]
    BY <1>2, <1>3, <1>5
  <2> HIDE DEF S
  <2> QED
    BY <1>2, <2>1, SumsEqual
<1>7. ASSUME NEW k \in Candidates, k > j PROVE answered'[r][k] = 0
  <2>1. j \in Nat /\ k \in Nat
    BY <1>1, FineAssumption DEF Candidates
  <2>2. k \in 0..MaxPool \ {j}
    BY <1>2, <1>7, <2>1
  <2> QED
    BY <1>3, <1>4, <1>7, <2>2
<1>8. phase'[r] # "done" /\ billed'[r] = answered'[r][0] /\ billed'[r] \in Nat /\ answered[r][j] \in Nat
  BY <1>1, <1>2, <1>3, <1>5
<1>9. usages'[r] = SumOver(answered'[r], reports'[r] \ cached'[r])
  BY <1>1, <1>6
<1> QED
  BY <1>3, <1>7, <1>8, <1>9

\* A contribution to the discussion that is answered is noted at once.
LEMMA TurnCosts ==
  ASSUME TypeOK, AllOrdered, AllCosts, NEW r \in Requests, NEW usable \in BOOLEAN, TurnOver(r, usable)
  PROVE  AllCosts'
<1>1. /\ task[r] = "discuss" /\ task' = IF turns[r] = 1 THEN [task EXCEPT ![r] = "recommend"] ELSE task
      /\ session' = IF usable THEN [session EXCEPT ![r] = @ + 1] ELSE session
      /\ IF usable THEN Count(r, cand[r]) ELSE UNCHANGED answered
      /\ UNCHANGED <<phase, cached, cand, reports, usages, billed, expert>>
  BY DEF TurnOver, generator
<1>2. task'[r] \in {"discuss", "recommend"} /\ \A u \in Requests \ {r} : task'[u] = task[u] /\ session'[u] = session[u]
  BY <1>1 DEF TypeOK
<1>3. /\ session[r] = answered[r][cand[r]] /\ \A e \in Experts : expert[r][cand[r]][e] = "over"
      /\ Costs(r)
  BY <1>1 DEF AllCosts, Costs
<1>4. CASE usable
  <2>1. /\ answered'[r][cand[r]] = answered[r][cand[r]] + 1
        /\ phase'[r] # "done" /\ billed'[r] = answered'[r][0] /\ billed'[r] \in Nat
        /\ usages'[r] = SumOver(answered'[r], reports'[r] \ cached'[r])
        /\ \A k \in Candidates : k > cand[r] => answered'[r][k] = 0
        /\ \A u \in Requests \ {r} : answered'[u] = answered[u]
    BY <1>1, <1>4, AnotherAnswer
  <2>2. session'[r] = session[r] + 1
    BY <1>1, <1>4 DEF TypeOK
  <2>3. Costs(r)'
    BY <1>1, <1>2, <1>3, <2>1, <2>2 DEF Assessed, Costs
  <2>4. \A u \in Requests \ {r} : SameCosts(u) /\ expert'[u] = expert[u]
    BY <1>1, <1>2, <2>1 DEF SameCosts
  <2> QED
    BY <2>3, <2>4, CostsOfOthers
<1>5. CASE ~usable
  <2>1. Costs(r)'
    BY <1>1, <1>2, <1>3, <1>5 DEF Assessed, Costs
  <2>2. \A u \in Requests \ {r} : SameCosts(u) /\ expert'[u] = expert[u]
    BY <1>1, <1>2, <1>5 DEF SameCosts
  <2> QED
    BY <2>1, <2>2, CostsOfOthers
<1> QED
  BY <1>4, <1>5


\* Assessed by all, a candidate has all its answers in its session.
LEMMA GatheredCosts ==
  ASSUME TypeOK, AllOrdered, AllCosts, NEW r \in Requests, Gathered(r)
  PROVE  AllCosts'
<1>1. PICK t \in 0..MaxTurns : task' = [task EXCEPT ![r] = IF t = 0 THEN "recommend" ELSE "discuss"]
  BY DEF Gathered
<1>2. /\ task[r] = "gather" /\ \A e \in Experts : expert[r][cand[r]][e] = "over"
      /\ UNCHANGED <<phase, cached, cand, reports, session, usages, billed, expert, answered>>
  BY DEF Gathered, generator
<1>3. Waiting(r) = {} /\ Costs(r) /\ session[r] \in Nat
  BY <1>2 DEF Waiting, AllCosts, TypeOK
<1>4. session[r] = answered[r][cand[r]]
  BY <1>2, <1>3, FS_EmptySet DEF Costs
<1>5. task'[r] \in {"discuss", "recommend"} /\ \A u \in Requests \ {r} : task'[u] = task[u]
  BY <1>1 DEF TypeOK
<1>6. Costs(r)'
  BY <1>2, <1>3, <1>4, <1>5 DEF Assessed, Costs
<1>7. \A u \in Requests \ {r} : SameCosts(u) /\ expert'[u] = expert[u]
  BY <1>2, <1>5 DEF SameCosts
<1> QED
  BY <1>6, <1>7, CostsOfOthers

\* The bill comes when the pump is over; nobody is billed for before.
LEMMA BillCosts ==
  ASSUME TypeOK, AllOrdered, AllCosts, NEW r \in Requests,
         Begin(r) \/ RoughFails(r) \/ PumpOver(r) \/ Disconnect(r)
  PROVE  AllCosts'
<1>1. /\ UNCHANGED <<cached, task, cand, reports, session, usages, expert, answered>>
      /\ phase[r] # "done" /\ \A u \in Requests \ {r} : phase'[u] = phase[u] /\ billed'[u] = billed[u]
  BY ZenonT(40) DEF Begin, RoughFails, PumpOver, Disconnect, engine, TypeOK
<1>2. Stage(r) /\ Costs(r) /\ answered[r] \in [0..MaxPool -> Nat] /\ billed[r] \in Nat /\ usages[r] \in Nat
  BY DEF AllOrdered, Ordered, AllCosts, TypeOK
<1>3. answered[r][0] \in Nat /\ billed[r] = answered[r][0]
  <2>1. 0 \in 0..MaxPool
    BY FineAssumption
  <2>2. answered[r][0] \in Nat
    BY <1>2, <2>1
  <2> QED
    BY <1>1, <1>2, <2>2 DEF Costs
<1>4. billed'[r] = answered[r][0] + IF phase'[r] = "done" THEN usages[r] ELSE 0
  <2>1. CASE Begin(r)
    <3>1. usages[r] = 0 /\ billed' = billed
      BY <1>2, <2>1, NothingSpent DEF Begin, Stage
    <3> QED
      BY <1>3, <3>1
  <2>2. CASE RoughFails(r) \/ Disconnect(r)
    <3>1. billed' = billed /\ phase'[r] # "done"
      BY <2>2 DEF RoughFails, Disconnect, TypeOK
    <3> QED
      BY <1>3, <3>1
  <2>3. CASE PumpOver(r)
    <3>1. CASE task[r] = "done"
      <4>1. billed'[r] = billed[r] + usages[r] /\ phase'[r] = "done"
        BY <2>3, <3>1 DEF PumpOver, TypeOK
      <4> QED
        BY <1>3, <4>1
    <3>2. CASE task[r] # "done"
      <4>1. billed' = billed /\ phase'[r] = "error"
        BY <2>3, <3>2 DEF PumpOver, TypeOK
      <4> QED
        BY <1>3, <4>1
    <3> QED
      BY <3>1, <3>2
  <2> QED
    BY <2>1, <2>2, <2>3
<1>5. Waiting(r)' = Waiting(r)
  BY <1>1 DEF Waiting
<1>6. Costs(r)'
  BY <1>1, <1>2, <1>4, <1>5 DEF Assessed, Costs
<1>7. \A u \in Requests \ {r} : SameCosts(u) /\ expert'[u] = expert[u]
  BY <1>1 DEF SameCosts
<1> QED
  BY <1>6, <1>7, CostsOfOthers

\* Where an expert of run r is after its step, and that nobody else has moved.
MovedTo(r, k, e, to) ==
  \A u \in Requests, i \in Candidates, x \in Experts :
    expert'[u][i][x] = IF u = r /\ i = k /\ x = e THEN to ELSE expert[u][i][x]

\* A move of one expert is one.
LEMMA MovesTo ==
  ASSUME TypeOK, NEW r \in Requests, NEW k \in Candidates, NEW e \in Experts, NEW from, NEW to,
         Move(r, k, e, from, to)
  PROVE  /\ expert[r][k][e] = from /\ MovedTo(r, k, e, to)
         /\ \A u \in Requests \ {r} : expert'[u] = expert[u]
         /\ \A i \in Candidates \ {k} : expert'[r][i] = expert[r][i]
<1>1. expert \in [Requests -> [Candidates -> [Experts -> Places]]] /\ expert[r][k][e] = from
      /\ expert' = [expert EXCEPT ![r][k][e] = to]
  BY DEF Move, TypeOK
<1> QED
  BY <1>1 DEF MovedTo

\* An expert of another candidate than the engine's changes no costs.
LEMMA ElsewhereCosts ==
  ASSUME TypeOK, AllOrdered, AllCosts, NEW r \in Requests, NEW k \in Candidates, k # cand[r],
         \A u \in Requests \ {r} : expert'[u] = expert[u],
         \A i \in Candidates \ {k} : expert'[r][i] = expert[r][i],
         \A u \in Requests : SameCosts(u)
  PROVE  AllCosts'
<1>1. Costs(r)'
  <2>1. CASE cand[r] \in Candidates
    BY <2>1, CostsSame DEF AllCosts
  <2>2. CASE cand[r] \notin Candidates
    <3>1. Waiting(r)' = {} /\ Waiting(r) = {}
      BY <2>2 DEF Waiting, SameCosts
    <3>2. task[r] \notin {"gather", "discuss", "recommend"}
      BY <2>2, SpentBefore
    <3>3. Costs(r)
      BY DEF AllCosts
    <3> QED
      BY <3>1, <3>2, <3>3 DEF Assessed, Costs, SameCosts
  <2> QED
    BY <2>1, <2>2
<1> QED
  BY <1>1, CostsOfOthers

\* Nor does one that asks, or that fails.
LEMMA UnscoredCosts ==
  ASSUME TypeOK, AllOrdered, AllCosts, NEW r \in Requests, NEW k \in Candidates, NEW e \in Experts,
         NEW from, NEW to, Move(r, k, e, from, to), from \notin {"scored", "over"}, to # "scored",
         \A u \in Requests : SameCosts(u)
  PROVE  AllCosts'
<1>1. /\ expert[r][k][e] = from /\ MovedTo(r, k, e, to)
      /\ \A u \in Requests \ {r} : expert'[u] = expert[u]
      /\ \A i \in Candidates \ {k} : expert'[r][i] = expert[r][i]
  BY MovesTo
<1>2. CASE k # cand[r]
  BY <1>1, <1>2, ElsewhereCosts
<1>3. CASE k = cand[r]
  <2>1. Costs(r) /\ SameCosts(r)
    BY DEF AllCosts
  <2>2. task[r] \notin {"discuss", "recommend"}
    BY <1>1, <1>3, <2>1 DEF Costs
  <2>3. Waiting(r)' = Waiting(r)
    BY <1>1, <1>3, <2>1 DEF MovedTo, Waiting, SameCosts
  <2>4. Costs(r)'
    BY <2>1, <2>2, <2>3 DEF Assessed, Costs, SameCosts
  <2> QED
    BY <1>1, <2>4, CostsOfOthers
<1> QED
  BY <1>2, <1>3

\* Nobody's answer about an assessed candidate is still to come, in any run.
AllSettled == \A u \in Requests : Settled(u)

\* An answer about another candidate than the engine's is about one that failed.
LEMMA LateCosts ==
  ASSUME TypeOK, AllOrdered, AllCosts, AllSettled, NEW r \in Requests, NEW k \in Candidates,
         NEW e \in Experts, expert[r][k][e] \in Calling, Count(r, k),
         UNCHANGED <<phase, cached, task, cand, reports, session, usages, billed>>
  PROVE  /\ billed'[r] = answered'[r][0] + IF phase'[r] = "done" THEN usages'[r] ELSE 0
         /\ usages'[r] = SumOver(answered'[r], Assessed(r)')
         /\ \A i \in Candidates : i > cand'[r] => answered'[r][i] = 0
<1> DEFINE S == Assessed(r)
<1>1. Costs(r) /\ NotYet(r) /\ Settled(r)
  BY DEF AllCosts, AllOrdered, Ordered, AllSettled
<1>2. /\ k \in 0..MaxPool /\ 0 \in 0..MaxPool \ {k} /\ Candidates \subseteq 0..MaxPool
      /\ IsFiniteSet(Candidates)
  BY CandidatesFinite
<1>3. \A i \in 0..MaxPool \ {k} : answered'[r][i] = answered[r][i]
  BY <1>2, CountsOne
<1>4. S \subseteq Candidates /\ IsFiniteSet(S)
  <2>1. S \subseteq Candidates
    BY DEF Assessed, TypeOK
  <2> QED
    BY <1>2, <2>1, FS_Subset
<1>5. k \notin S
  BY <1>1 DEF Settled, Calling
<1>6. ~(k > cand[r])
  BY <1>1 DEF NotYet, Calling
<1>7. answered[r] \in [0..MaxPool -> Nat]
  BY DEF TypeOK
<1>s. Assessed(r)' = S
  BY DEF Assessed
<1>c. /\ billed[r] = answered[r][0] + IF phase[r] = "done" THEN usages[r] ELSE 0
      /\ usages[r] = SumOver(answered[r], S)
      /\ \A i \in Candidates : i > cand[r] => answered[r][i] = 0
  BY <1>1 DEF Costs
<1> HIDE DEF S
<1>8. SumOver(answered[r], S) = SumOver(answered'[r], S)
  <2>1. ASSUME NEW i \in S PROVE answered[r][i] \in Int /\ answered[r][i] = answered'[r][i]
    <3>1. i \in 0..MaxPool \ {k}
      BY <1>2, <1>4, <1>5
    <3>2. answered[r][i] \in Nat
      BY <1>7, <3>1
    <3> QED
      BY <1>3, <3>1, <3>2
  <2> QED
    BY <1>4, <2>1, SumsEqual
<1>9. answered'[r][0] = answered[r][0]
  BY <1>2, <1>3
<1>10. ASSUME NEW i \in Candidates, i > cand[r] PROVE answered'[r][i] = 0
  <2>1. i \in 0..MaxPool \ {k}
    BY <1>2, <1>6, <1>10
  <2> QED
    BY <1>3, <1>c, <1>10, <2>1
<1> QED
  BY <1>c, <1>s, <1>8, <1>9, <1>10

\* An answer that arrives at the candidate of the engine waits; any other is lost.
LEMMA AnsweredCosts ==
  ASSUME TypeOK, AllOrdered, AllCosts, AllSettled, NEW r \in Requests, NEW k \in Candidates,
         NEW e \in Experts, ExpertAnswered(r, k, e)
  PROVE  AllCosts'
<1>1. /\ expert[r][k][e] \in Calling /\ Move(r, k, e, expert[r][k][e], "scored") /\ Count(r, k)
      /\ UNCHANGED <<phase, cached, task, cand, reports, session, usages, billed>>
  BY DEF ExpertAnswered, generator, engine
<1>2. /\ MovedTo(r, k, e, "scored")
      /\ \A u \in Requests \ {r} : expert'[u] = expert[u]
      /\ \A i \in Candidates \ {k} : expert'[r][i] = expert[r][i]
  BY <1>1, MovesTo
<1>3. k # 0 /\ k \in 0..MaxPool
  BY FineAssumption DEF Candidates
<1>4. /\ \A u \in Requests \ {r} : answered'[u] = answered[u]
      /\ \A i \in 0..MaxPool \ {k} : answered'[r][i] = answered[r][i]
      /\ answered'[r][k] = answered[r][k] + 1
  BY <1>1, <1>3, CountsOne
<1>5. Costs(r) /\ Stage(r)
  BY DEF AllCosts, AllOrdered, Ordered
<1>6. /\ billed'[r] = answered'[r][0] + IF phase'[r] = "done" THEN usages'[r] ELSE 0
      /\ usages'[r] = SumOver(answered'[r], Assessed(r)')
      /\ \A i \in Candidates : i > cand'[r] => answered'[r][i] = 0
  BY <1>1, LateCosts
<1>7. task'[r] = "none" => session'[r] = 0
  BY <1>1, <1>5 DEF Costs
<1>8. ASSUME task'[r] = "gather"
      PROVE  session'[r] + Cardinality(Waiting(r)') = answered'[r][cand'[r]]
  <2>1. task[r] = "gather" /\ cand' = cand /\ session' = session
    BY <1>1, <1>8
  <2>2. session[r] + Cardinality(Waiting(r)) = answered[r][cand[r]] /\ session[r] \in Nat
    BY <1>5, <2>1 DEF Costs, TypeOK
  <2>3. CASE k # cand[r]
    <3>1. cand[r] \in Candidates
      BY <2>1, SpentBefore
    <3>2. answered'[r][cand[r]] = answered[r][cand[r]]
      BY <1>4, <2>3, <3>1, CandidatesFinite
    <3>3. Waiting(r)' = Waiting(r)
      BY <1>2, <2>1, <2>3, <3>1 DEF Waiting
    <3> QED
      BY <2>1, <2>2, <3>2, <3>3
  <2>4. CASE k = cand[r]
    <3>1. expert[r][cand[r]][e] # "scored"
      BY <1>1, <2>4 DEF Calling
    <3>2. Waiting(r)' = Waiting(r) \cup {e} /\ e \notin Waiting(r) /\ Waiting(r) \subseteq Experts
      BY <1>1, <1>2, <2>4, <3>1 DEF MovedTo, Waiting
    <3>3. IsFiniteSet(Waiting(r))
      BY <3>2, FS_Subset, FineAssumption
    <3>4. Cardinality(Waiting(r)') = Cardinality(Waiting(r)) + 1 /\ Cardinality(Waiting(r)) \in Nat
      BY <3>2, <3>3, FS_AddElement, FS_CardinalityType
    <3> QED
      BY <1>4, <2>1, <2>2, <2>4, <3>4
  <2> QED
    BY <2>3, <2>4
<1>9. ASSUME task'[r] \in {"discuss", "recommend"}
      PROVE  session'[r] = answered'[r][cand'[r]] /\ \A x \in Experts : expert'[r][cand'[r]][x] = "over"
  <2>1. task[r] \in {"discuss", "recommend"} /\ cand' = cand /\ session' = session
    BY <1>1, <1>9
  <2>2. session[r] = answered[r][cand[r]] /\ \A x \in Experts : expert[r][cand[r]][x] = "over"
    BY <1>5, <2>1 DEF Costs
  <2>3. k # cand[r]
    BY <1>1, <2>2 DEF Calling
  <2>4. cand[r] \in Candidates
    BY <2>1, SpentBefore
  <2>5. cand[r] \in 0..MaxPool \ {k} /\ cand[r] \in Candidates \ {k}
    BY <2>3, <2>4, CandidatesFinite
  <2> QED
    BY <1>2, <1>4, <2>1, <2>2, <2>5
<1>10. Costs(r)'
  BY <1>6, <1>7, <1>8, <1>9 DEF Costs
<1>11. \A u \in Requests \ {r} : SameCosts(u) /\ expert'[u] = expert[u]
  BY <1>1, <1>2, <1>4 DEF SameCosts
<1> QED
  BY <1>10, <1>11, CostsOfOthers

\* When the expert's coroutine goes on, the answer that waited is noted.
LEMMA ReturnCosts ==
  ASSUME TypeOK, AllOrdered, AllCosts, NEW r \in Requests, NEW k \in Candidates, NEW e \in Experts,
         Return(r, k, e)
  PROVE  AllCosts'
<1>1. UNCHANGED <<phase, cached, task, cand, reports, usages, billed, answered>>
  BY DEF Return, generator
<1>2. CASE Move(r, k, e, "failed", "raised") /\ UNCHANGED session
  <2>1. \A u \in Requests : SameCosts(u)
    BY <1>1, <1>2 DEF SameCosts
  <2> QED
    BY <1>2, <2>1, UnscoredCosts
<1>3. CASE /\ Move(r, k, e, "scored", "over")
           /\ session' = IF cand[r] = k THEN [session EXCEPT ![r] = @ + 1] ELSE session
  <2>1. /\ expert[r][k][e] = "scored" /\ MovedTo(r, k, e, "over")
        /\ \A u \in Requests \ {r} : expert'[u] = expert[u]
        /\ \A i \in Candidates \ {k} : expert'[r][i] = expert[r][i]
    BY <1>3, MovesTo
  <2>2. CASE k # cand[r]
    <3>1. \A u \in Requests : SameCosts(u)
      BY <1>1, <1>3, <2>2 DEF SameCosts
    <3> QED
      BY <2>1, <2>2, <3>1, ElsewhereCosts
  <2>3. CASE k = cand[r]
    <3>1. Costs(r) /\ Stage(r) /\ k # 0
      BY FineAssumption DEF AllCosts, AllOrdered, Ordered, Candidates
    <3>2. task[r] \notin {"none", "discuss", "recommend"}
      BY <2>1, <2>3, <3>1 DEF Costs, Stage
    <3>3. /\ session'[r] = session[r] + 1 /\ session[r] \in Nat
          /\ \A u \in Requests \ {r} : session'[u] = session[u]
      BY <1>3, <2>3 DEF TypeOK
    <3>4. Waiting(r)' = Waiting(r) \ {e} /\ e \in Waiting(r) /\ Waiting(r) \subseteq Experts
      BY <1>1, <2>1, <2>3 DEF MovedTo, Waiting
    <3>5. IsFiniteSet(Waiting(r))
      BY <3>4, FS_Subset, FineAssumption
    <3>6. Cardinality(Waiting(r)') = Cardinality(Waiting(r)) - 1 /\ Cardinality(Waiting(r)) \in Nat
      BY <3>4, <3>5, FS_RemoveElement, FS_CardinalityType
    <3>7. session'[r] + Cardinality(Waiting(r)') = session[r] + Cardinality(Waiting(r))
      BY <3>3, <3>6
    <3>8. Costs(r)'
      BY <1>1, <3>1, <3>2, <3>7 DEF Assessed, Costs
    <3>9. \A u \in Requests \ {r} : SameCosts(u) /\ expert'[u] = expert[u]
      BY <1>1, <2>1, <3>3 DEF SameCosts
    <3> QED
      BY <3>8, <3>9, CostsOfOthers
  <2> QED
    BY <2>2, <2>3
<1> QED
  BY <1>2, <1>3 DEF Return

\* No step of an expert leaves costs unexplained.
LEMMA ExpertCosts ==
  ASSUME TypeOK, AllOrdered, AllCosts, AllSettled, NEW r \in Requests, NEW k \in Candidates,
         NEW e \in Experts, ExpertStep(r, k, e)
  PROVE  AllCosts'
<1>1. CASE Acquire(r, k, e)
  <2>1. Move(r, k, e, "queued", "ask1") /\ \A u \in Requests : SameCosts(u)
    BY <1>1 DEF Acquire, SameCosts, generator, engine
  <2> QED
    BY <2>1, UnscoredCosts
<1>2. CASE Ask(r, k, e)
  <2>1. expert[r][k][e] \in Asking /\ \A u \in Requests : SameCosts(u)
    BY <1>2 DEF Ask, SameCosts, generator, engine
  <2> DEFINE from == expert[r][k][e]
             to == IF Allow THEN Sent[from] ELSE AfterTrial[from]
  <2>2. Move(r, k, e, from, to)
    BY <1>2 DEF Ask
  <2>3. from \notin {"scored", "over"} /\ to # "scored"
    BY <2>1 DEF Asking, Sent, AfterTrial
  <2> HIDE DEF from, to
  <2> QED
    BY <2>1, <2>2, <2>3, UnscoredCosts
<1>3. CASE ExpertFails(r, k, e)
  <2>1. expert[r][k][e] \in Calling /\ \A u \in Requests : SameCosts(u)
    BY <1>3 DEF ExpertFails, SameCosts, generator, engine
  <2> DEFINE from == expert[r][k][e]
             to == AfterTrial[from]
  <2>2. Move(r, k, e, from, to)
    BY <1>3 DEF ExpertFails
  <2>3. from \notin {"scored", "over"} /\ to # "scored"
    BY <2>1 DEF Calling, AfterTrial
  <2> HIDE DEF from, to
  <2> QED
    BY <2>1, <2>2, <2>3, UnscoredCosts
<1> QED
  BY <1>1, <1>2, <1>3, AnsweredCosts, ReturnCosts DEF ExpertStep

\* At first nothing is spent.
LEMMA NoCosts ==
  ASSUME Init
  PROVE  AllCosts
<1> SUFFICES ASSUME NEW r \in Requests PROVE Costs(r)
  BY DEF AllCosts
<1>1. Candidates \subseteq 0..MaxPool /\ 0 \in 0..MaxPool
  BY CandidatesFinite
<1>2. answered[r][0] = 0 /\ \A k \in Candidates : answered[r][k] = 0
  BY <1>1 DEF Init
<1>3. /\ task[r] = "none" /\ phase[r] = "new" /\ session[r] = 0 /\ billed[r] = 0
      /\ usages[r] = 0 /\ reports[r] = {}
  BY DEF Init
<1>4. usages[r] = SumOver(answered[r], reports[r] \ cached[r])
  BY <1>3, SumOfNothing
<1> QED
  BY <1>2, <1>3, <1>4 DEF Assessed, Costs

\* When nothing that costs are made of changes, they stay explained.
LEMMA UntouchedCosts ==
  ASSUME AllCosts, UNCHANGED <<phase, cached, task, cand, reports, session, usages, billed, expert, answered>>
  PROVE  AllCosts'
<1>1. \A u \in Requests : SameCosts(u) /\ expert'[u] = expert[u]
  BY DEF SameCosts
<1> QED
  BY <1>1, CostsSame DEF AllCosts

\* The end of a call from the loop.
LEMMA SyncCosts ==
  ASSUME TypeOK, AllOrdered, AllCosts, NEW r \in Requests, NEW usable \in BOOLEAN, SyncOver(r, usable)
  PROVE  AllCosts'
BY HydeCosts, TurnCosts, RecommendCosts DEF SyncOver

\* No step leaves costs unexplained.
LEMMA CostsKept ==
  ASSUME TypeOK, AllOrdered, AllCosts, AllSettled, [Next]_vars
  PROVE  AllCosts'
<1>1. ASSUME NEW r \in Requests, SyncAsk(r) PROVE AllCosts'
  <2>1. CASE Allow
    <3>1. UNCHANGED <<phase, cached, task, cand, reports, session, usages, billed, expert, answered>>
      BY <1>1, <2>1 DEF SyncAsk, generator, engine
    <3> QED
      BY <3>1, UntouchedCosts
  <2>2. CASE ~Allow
    <3>1. SyncOver(r, FALSE) /\ FALSE \in BOOLEAN
      BY <1>1, <2>2 DEF SyncAsk
    <3> QED
      BY <3>1, SyncCosts
  <2> QED
    BY <2>1, <2>2
<1>2. ASSUME NEW r \in Requests, SyncCall(r) PROVE AllCosts'
  <2>1. TurnRaises(r) \/ \E usable \in BOOLEAN : SyncOver(r, usable)
    BY <1>2 DEF SyncCall
  <2> QED
    BY <2>1, SyncCosts, RaisesCosts
<1>3. ASSUME NEW r \in Requests, Pump(r) PROVE AllCosts'
  BY <1>3, UntouchedCosts DEF Pump
<1>4. ASSUME NEW r \in Requests, RunStep(r) \/ Disconnect(r) PROVE AllCosts'
  BY <1>1, <1>2, <1>3, <1>4, BillCosts, RoughOverCosts, GatheredCosts, RaisesCosts DEF RunStep
<1>5. ASSUME Aside PROVE AllCosts'
  <2>1. UNCHANGED <<phase, cached, task, cand, reports, session, usages, billed, expert, answered>>
    BY <1>5 DEF Aside, generator, engine
  <2> QED
    BY <2>1, UntouchedCosts
<1> QED
  BY <1>4, <1>5, ExpertCosts, NextParts

\* Nobody is assessed without the engine having passed him.
LEMMA SettledSame ==
  ASSUME AllSettled, NEW u \in Requests, reports'[u] = reports[u], cached'[u] = cached[u],
         \A k \in Assessed(u), e \in Experts : expert[u][k][e] = "over" => expert'[u][k][e] = "over"
  PROVE  Settled(u)'
<1>1. Assessed(u)' = Assessed(u)
  BY DEF Assessed
<1> QED
  BY <1>1 DEF AllSettled, Settled

\* A run that goes on from a candidate all whose answers are there has them for all it reports.
LEMMA SettledOn ==
  ASSUME TypeOK, AllSettled, NEW r \in Requests, NEW n \in 0..MaxPool, NEW hits \in SUBSET (1..n),
         NEW k \in 1..n + 1, NEW ev, NEW known, known \subseteq 1..k - 1,
         Continue(r, k, n, hits, ev, known), cached' = [cached EXCEPT ![r] = hits],
         \A j \in known \ hits, e \in Experts : expert[r][j][e] = "over"
  PROVE  AllSettled'
<1>1. PICK b \in k..n + 1 : Went(r, k, b, n, hits, ev, known)
  BY Goes
<1>2. /\ reports' = [reports EXCEPT ![r] = known \cup k..b - 1] /\ k..b - 1 \subseteq hits
      /\ \/ UNCHANGED expert
         \/ expert' = [expert EXCEPT ![r][b] = [e \in Experts |-> "queued"]]
  BY <1>1 DEF Went, Replay
<1>k. known \subseteq Candidates
  BY FineAssumption DEF Candidates
<1>3. ASSUME NEW u \in Requests \ {r} PROVE Settled(u)'
  <2>1. reports'[u] = reports[u] /\ cached'[u] = cached[u] /\ expert'[u] = expert[u]
    BY <1>2 DEF TypeOK
  <2> QED
    BY <2>1, SettledSame
<1>4. Settled(r)'
  <2>1. Assessed(r)' = known \ hits
    BY <1>2 DEF Assessed, TypeOK
  <2>2. ASSUME NEW j \in known \ hits PROVE expert'[r][j] = expert[r][j]
    <3>1. j # b
      BY <1>1
    <3>2. expert \in [Requests -> [Candidates -> [Experts -> Places]]]
      BY DEF TypeOK
    <3>3. CASE UNCHANGED expert
      BY <3>3
    <3>4. CASE expert' = [expert EXCEPT ![r][b] = [e \in Experts |-> "queued"]]
      <4>1. expert'[r] = [expert[r] EXCEPT ![b] = [e \in Experts |-> "queued"]]
        BY <3>2, <3>4
      <4>2. j \in Candidates
        BY <1>k
      <4> QED
        BY <3>1, <3>2, <4>1, <4>2
    <3> QED
      BY <1>2, <3>3, <3>4
  <2> QED
    BY <2>1, <2>2 DEF Settled
<1> QED
  BY <1>3, <1>4 DEF AllSettled

LEMMA SettledKept ==
  ASSUME TypeOK, AllOrdered, AllCosts, AllSettled, [Next]_vars
  PROVE  AllSettled'
<1>0. ASSUME UNCHANGED <<reports, cached, expert>> PROVE AllSettled'
  BY <1>0, SettledSame DEF AllSettled
<1>1. ASSUME NEW r \in Requests, RoughOver(r) PROVE AllSettled'
  <2>1. PICK n \in 0..MaxCandidates[r] : \E hits \in SUBSET (1..n) :
          /\ cached' = [cached EXCEPT ![r] = hits]
          /\ IF n = 0 THEN UNCHANGED <<queue, reports, cand, task, expert>>
             ELSE Continue(r, 1, n, hits, <<>>, {})
    BY <1>1 DEF RoughOver
  <2>2. PICK hits \in SUBSET (1..n) :
          /\ cached' = [cached EXCEPT ![r] = hits]
          /\ IF n = 0 THEN UNCHANGED <<queue, reports, cand, task, expert>>
             ELSE Continue(r, 1, n, hits, <<>>, {})
    BY <2>1
  <2>3. n \in 0..MaxPool
    BY FineAssumption
  <2>4. CASE n = 0
    <3>1. cached[r] = {} /\ hits = {}
      BY <1>1, <2>4 DEF RoughOver, AllOrdered, Ordered, Stage
    <3>2. UNCHANGED <<reports, cached, expert>>
      BY <2>2, <2>4, <3>1 DEF TypeOK
    <3> QED
      BY <1>0, <3>2
  <2>5. CASE n # 0
    <3>1. 1 \in 1..n + 1 /\ {} \subseteq 1..1 - 1
      BY <2>3, <2>5
    <3>2. Continue(r, 1, n, hits, <<>>, {})
      BY <2>2, <2>5
    <3>3. \A j \in {} \ hits, e \in Experts : expert[r][j][e] = "over"
      OBVIOUS
    <3>4. cached' = [cached EXCEPT ![r] = hits]
      BY <2>2
    <3> QED
      BY <2>3, <3>1, <3>2, <3>3, <3>4, SettledOn
  <2> QED
    BY <2>4, <2>5
<1>2. ASSUME NEW r \in Requests, task[r] \in {"gather", "discuss", "recommend"}, NEW ev, NEW known,
             known \subseteq reports[r] \cup {cand[r]}, UNCHANGED cached,
             Continue(r, cand[r] + 1, pool[r], cached[r], ev, known),
             cand[r] \in known => task[r] = "recommend"
      PROVE  AllSettled'
  <2>1. /\ cand[r] \in 1..pool[r] /\ pool[r] \in 0..MaxPool /\ cached[r] \in SUBSET (1..pool[r])
        /\ reports[r] \subseteq 1..cand[r] - 1
    BY <1>2, SpentBefore
  <2>2. cand[r] + 1 \in 1..pool[r] + 1 /\ known \subseteq 1..(cand[r] + 1) - 1
    BY <1>2, <2>1
  <2>3. cached' = [cached EXCEPT ![r] = cached[r]]
    BY <1>2 DEF TypeOK
  <2>4. ASSUME NEW j \in known \ cached[r], NEW e \in Experts PROVE expert[r][j][e] = "over"
    <3>1. CASE j \in reports[r]
      BY <3>1 DEF AllSettled, Settled, Assessed
    <3>2. CASE j = cand[r]
      BY <1>2, <3>2 DEF AllCosts, Costs
    <3> QED
      BY <1>2, <3>1, <3>2
  <2> DEFINE j == cand[r] + 1
  <2>5. j \in 1..pool[r] + 1 /\ known \subseteq 1..j - 1 /\ Continue(r, j, pool[r], cached[r], ev, known)
    BY <1>2, <2>2
  <2> HIDE DEF j
  <2> QED
    BY <2>1, <2>3, <2>4, <2>5, SettledOn
<1>3. ASSUME NEW r \in Requests, GatherRaises(r) \/ TurnRaises(r) PROVE AllSettled'
  <2>1. /\ task[r] \in {"gather", "discuss"} /\ UNCHANGED cached
        /\ Continue(r, cand[r] + 1, pool[r], cached[r], <<<<cand[r], "failed">>>>, reports[r])
    BY <1>3 DEF GatherRaises, TurnRaises, CandidateFails, generator
  <2>2. cand[r] \notin reports[r]
    BY <2>1, SpentBefore
  <2> QED
    BY <1>2, <2>1, <2>2
<1>4. ASSUME NEW r \in Requests, NEW usable \in BOOLEAN, SyncOver(r, usable) PROVE AllSettled'
  <2>1. CASE HydeOver(r, usable) \/ TurnOver(r, usable)
    BY <1>0, <2>1 DEF HydeOver, TurnOver, generator, engine
  <2>2. CASE RecommendOver(r, usable)
    <3>1. /\ task[r] = "recommend" /\ UNCHANGED cached
          /\ Continue(r, cand[r] + 1, pool[r], cached[r], <<<<cand[r], "done">>>>,
                      reports[r] \cup {cand[r]})
      BY <2>2 DEF RecommendOver, generator
    <3> QED
      BY <1>2, <3>1
  <2> QED
    BY <1>4, <2>1, <2>2 DEF SyncOver
<1>5. ASSUME NEW r \in Requests, RunStep(r) PROVE AllSettled'
  <2>1. CASE Begin(r) \/ RoughFails(r) \/ Gathered(r) \/ Pump(r) \/ PumpOver(r)
    BY <1>0, <2>1 DEF Begin, RoughFails, Gathered, Pump, PumpOver, generator, engine
  <2>2. CASE SyncAsk(r) /\ Allow
    BY <1>0, <2>2 DEF SyncAsk, generator, engine
  <2>3. CASE SyncAsk(r) /\ ~Allow
    BY <1>4, <2>3 DEF SyncAsk
  <2>4. CASE SyncCall(r)
    BY <1>3, <1>4, <2>4 DEF SyncCall
  <2> QED
    BY <1>1, <1>3, <1>5, <2>1, <2>2, <2>3, <2>4 DEF RunStep
<1>6. ASSUME NEW r \in Requests, NEW k \in Candidates, NEW e \in Experts, ExpertStep(r, k, e)
      PROVE  AllSettled'
  <2>1. UNCHANGED <<reports, cached>>
    BY <1>6 DEF ExpertStep, Acquire, Ask, ExpertAnswered, ExpertFails, Return, generator, engine
  <2>2. expert[r][k][e] # "over" /\ \E to : Move(r, k, e, expert[r][k][e], to)
    BY <1>6 DEF ExpertStep, Acquire, Ask, ExpertAnswered, ExpertFails, Return, Move, Asking, Calling
  <2>3. PICK to : Move(r, k, e, expert[r][k][e], to)
    BY <2>2
  <2>4. MovedTo(r, k, e, to)
    BY <2>3, MovesTo
  <2>5. ASSUME NEW u \in Requests PROVE Settled(u)'
    <3>1. Assessed(u) \subseteq Candidates
      BY DEF Assessed, TypeOK
    <3>2. \A j \in Assessed(u), x \in Experts : expert[u][j][x] = "over" => expert'[u][j][x] = "over"
      BY <2>2, <2>4, <3>1 DEF MovedTo
    <3> QED
      BY <2>1, <3>2, SettledSame
  <2> QED
    BY <2>5 DEF AllSettled
<1>7. ASSUME NEW r \in Requests, Disconnect(r) PROVE AllSettled'
  BY <1>0, <1>7 DEF Disconnect, generator, engine
<1>8. ASSUME Aside PROVE AllSettled'
  BY <1>0, <1>8 DEF Aside, generator, engine
<1> QED
  BY <1>5, <1>6, <1>7, <1>8, NextParts

\* The answers to a run that has ended with done are billed or lost.
LEMMA CostsAtTheEnd == TypeOK /\ AllOrdered /\ AllCosts => CostsExplained
<1> SUFFICES ASSUME TypeOK, AllOrdered, AllCosts, NEW r \in Requests, phase[r] = "done"
             PROVE  Usable(r) = billed[r] + Lost(r)
  BY DEF CostsExplained
<1> DEFINE S == Assessed(r)
           f == answered[r]
<1>1. billed[r] = f[0] + usages[r] /\ usages[r] = SumOver(f, S)
  BY DEF AllCosts, Costs
<1>2. /\ f \in [0..MaxPool -> Nat] /\ Candidates \subseteq 0..MaxPool /\ 0 \in 0..MaxPool
      /\ 0 \notin Candidates /\ IsFiniteSet(Candidates) /\ 0..MaxPool = Candidates \cup {0}
  <2>1. 0..MaxPool = Candidates \cup {0}
    BY FineAssumption DEF Candidates
  <2> QED
    BY <2>1, CandidatesFinite DEF TypeOK
<1>3. S \subseteq Candidates /\ IsFiniteSet(S) /\ IsFiniteSet(Candidates \ S)
  <2>1. S \subseteq Candidates
    BY DEF Assessed, TypeOK
  <2> QED
    BY <1>2, <2>1, FS_Subset
<1>4. Usable(r) = SumOver(f, Candidates \cup {0}) /\ Lost(r) = SumOver(f, Candidates \ S)
  BY <1>2 DEF Usable, Lost
<1> HIDE DEF S, f
<1>5. \A k \in Candidates \cup {0} : f[k] \in Int
  <2>1. \A k \in Candidates \cup {0} : f[k] \in Nat
    BY <1>2
  <2> QED
    BY <2>1
<1>6. SumOver(f, Candidates \cup {0}) = f[0] + SumOver(f, Candidates)
  BY <1>2, <1>5, SumWith
<1>7. SumOver(f, Candidates) = SumOver(f, S) + SumOver(f, Candidates \ S)
  <2>1. S \cup (Candidates \ S) = Candidates /\ S \cap (Candidates \ S) = {}
    BY <1>3
  <2>2. \A k \in S \cup (Candidates \ S) : f[k] \in Int
    BY <1>5, <2>1
  <2>3. SumOver(f, S \cup (Candidates \ S)) = SumOver(f, S) + SumOver(f, Candidates \ S)
    BY <1>3, <2>1, <2>2, SumSplit
  <2> QED
    BY <2>1, <2>3
<1>8. SumOver(f, S) \in Int /\ SumOver(f, Candidates \ S) \in Int /\ f[0] \in Int
  <2>1. (\A k \in S : f[k] \in Int) /\ (\A k \in Candidates \ S : f[k] \in Int)
    BY <1>3, <1>5
  <2> QED
    BY <1>3, <1>5, <2>1, SumWithout
<1> QED
  BY <1>1, <1>4, <1>6, <1>7, <1>8

-----------------------------------------------------------------------------
(* The theorems *)

\* The inductive invariant, FineInv with the permits counted one by one.
Inductive == TypeOK /\ BreakerAgrees /\ Counted /\ AllOrdered /\ AllCosts /\ AllSettled

\* At first nothing has begun and all permits are free.
LEMMA InitInductive == Init => Inductive
<1> SUFFICES ASSUME Init PROVE Inductive
  OBVIOUS
<1> USE FineAssumption, FailMaxAssumption DEF Init
<1>1. BreakerTypeOK /\ BreakerAgrees
  BY DEF BreakerInit, BreakerTypeOK, BreakerAgrees
<1>2. LoopTypes /\ slots \in 0..MaxConcurrency
  BY DEF LoopTypes
<1>3. GeneratorTypes
  BY DEF GeneratorTypes
<1>4. EngineTypes
  <2>1. "none" \in Places
    BY DEF Places
  <2> QED
    BY <2>1 DEF EngineTypes
<1>5. CostTypes
  BY DEF CostTypes
<1>10. UploadTypes
  BY DEF UploadTypes, Trials
<1>6. TypeOK
  BY <1>1, <1>2, <1>3, <1>4, <1>5, <1>10, TypeParts
<1>7. Counted
  <2>1. Holders = {}
    BY DEF Holders, Assessments, At, Holding, Asking, Calling
  <2> QED
    BY <2>1, FS_EmptySet DEF Counted
<1>8. AllOrdered
  BY DEF AllOrdered, Ordered, Stage, InOrder, NotYet
<1>9. AllCosts
  BY NoCosts
<1>11. AllSettled
  BY DEF AllSettled, Settled, Assessed
<1> QED
  BY <1>1, <1>6, <1>7, <1>8, <1>9, <1>11 DEF Inductive

\* And every step keeps it so.
LEMMA InductiveStep == Inductive /\ [Next]_vars => Inductive'
<1> SUFFICES ASSUME Inductive, [Next]_vars PROVE Inductive'
  OBVIOUS
<1>1. TypeOK /\ BreakerAgrees /\ Counted /\ AllOrdered /\ AllCosts /\ AllSettled /\ BreakerTypeOK
  BY TypeParts DEF Inductive
<1>2. BreakerTypeOK' /\ BreakerAgrees'
  BY <1>1, BreakerKept
<1>3. Counted' /\ AllOrdered' /\ AllCosts' /\ AllSettled'
  BY <1>1, PermitsKept, OrderKept, CostsKept, SettledKept
<1>4. slots' \in 0..MaxConcurrency
  BY <1>1, <1>3, SlotsNat, SlotsKept
<1>5. LoopTypes' /\ GeneratorTypes' /\ EngineTypes' /\ CostTypes' /\ UploadTypes'
  BY <1>1, LoopTypesKept, GeneratorTypesKept, EngineTypesKept, CostTypesKept, UploadTypesKept
<1>6. TypeOK'
  BY <1>2, <1>4, <1>5 DEF TypeOK, LoopTypes, GeneratorTypes, EngineTypes, CostTypes, UploadTypes
<1> QED
  BY <1>2, <1>3, <1>6 DEF Inductive

\* What the proofs below rest on.
LEMMA AlwaysInductive == Spec => []Inductive
  BY InitInductive, InductiveStep, PTL DEF Spec

\* Type correctness of the runs.
THEOREM RunTypes == Spec => []TypeOK
<1>1. Inductive => TypeOK
  BY DEF Inductive
<1> QED
  BY AlwaysInductive, <1>1, PTL

\* The breaker is open exactly when its count says so, whoever records what in which order.
THEOREM BreakerConsistent == Spec => []BreakerAgrees
<1>1. Inductive => BreakerAgrees
  BY DEF Inductive
<1> QED
  BY AlwaysInductive, <1>1, PTL

\* From screening runs and the loop the provider sees one call more than the semaphore permits at
\* most, each resume that is being extracted adds one at most, and no permit is lost.
THEOREM LoadBounded == Spec => []UpstreamLoad
<1>1. Inductive => UpstreamLoad
  BY CountBoundsLoad DEF Inductive
<1> QED
  BY AlwaysInductive, <1>1, PTL

\* A run that ends with done has sent the outcome of every ranked candidate, in their order.
THEOREM DoneSaysAll == Spec => []DoneIsComplete
<1>1. Inductive => DoneIsComplete
  <2> SUFFICES ASSUME Inductive, NEW r \in Requests, phase[r] = "done"
               PROVE  /\ sent[r] = [k \in 1..pool[r] |->
                                      <<k, IF k \in reports[r] THEN "done" ELSE "failed">>]
                      /\ reports[r] \subseteq 1..pool[r] /\ cached[r] \subseteq reports[r]
    BY DEF DoneIsComplete
  <2>1. Stage(r) /\ InOrder(r) /\ sent[r] \in Seq(Outcomes) /\ pool[r] \in 0..MaxPool
    BY DEF Inductive, AllOrdered, Ordered, TypeOK
  <2>2. queue[r] = <<>> /\ Len(sent[r]) \in Nat /\ pool[r] \in Nat
    BY <2>1, LenProperties, FineAssumption DEF Stage
  <2>3. Len(sent[r]) = pool[r] /\ Lined(sent[r], 0, reports[r])
    <3>1. CASE task[r] = "none"
      BY <2>1, <3>1 DEF Stage, Lined
    <3>2. CASE task[r] = "done"
      BY <2>1, <2>2, <3>2 DEF Stage, InOrder
    <3> QED
      BY <2>1, <3>1, <3>2 DEF Stage
  <2>4. reports[r] \subseteq 1..pool[r] /\ cached[r] \subseteq reports[r]
    <3>1. CASE task[r] = "none"
      BY <2>1, <3>1 DEF Stage
    <3>2. CASE task[r] = "done"
      <4>1. cand[r] - 1 = pool[r] /\ cached[r] \subseteq 1..pool[r]
        BY <2>1, <2>2, <3>2 DEF Stage
      <4> QED
        BY <2>1, <3>2, <4>1 DEF InOrder
    <3> QED
      BY <2>1, <3>1, <3>2 DEF Stage
  <2>5. sent[r] = [k \in 1..pool[r] |-> sent[r][k]]
    BY <2>1, <2>3, LenProperties
  <2>6. \A k \in 1..pool[r] : sent[r][k] = Verdict(reports[r], k)
    BY <2>2, <2>3 DEF Lined
  <2> QED
    BY <2>4, <2>5, <2>6 DEF Verdict
<1> QED
  BY AlwaysInductive, <1>1, PTL

\* A run that ends with done has billed its usable answers once each, but for those it lost with
\* candidates that failed, late answers about them included.
THEOREM BillIsExplained == Spec => []CostsExplained
<1>1. Inductive => CostsExplained
  BY CostsAtTheEnd DEF Inductive
<1> QED
  BY AlwaysInductive, <1>1, PTL
=============================================================================
