------------------------- MODULE ModelServingProofs --------------------------
(***************************************************************************)
(* Proofs about ModelServing for any number of threads.                    *)
(***************************************************************************)
EXTENDS ModelServing, TLAPS

\* No thread has begun and no model is loaded at first.
LEMMA InitServing == Init => ServingInv
<1> SUFFICES ASSUME Init PROVE ServingInv
  OBVIOUS
<1> USE NobodyAssumption DEF Init, InitProcess
<1>1. TypeOK
  <2>1. /\ job \in [Threads -> Jobs] /\ at \in [Threads -> Places]
        /\ tries \in [Threads -> 0..1]
    BY DEF Jobs, Places
  <2>2. /\ model \in [Threads -> Models \cup {None, "reranker"}]
        /\ branch \in [Threads -> Models \cup {None}]
        /\ answer \in [Threads -> Models \cup {None, "scores", "pending"}]
    OBVIOUS
  <2> QED
    BY <2>1, <2>2 DEF TypeOK
<1>2. Locks
  BY DEF Locks, SerialInference
<1>3. Ranking /\ Encoding /\ OneModelServes /\ NoneForAReason
  BY DEF Ranking, Encoding, OneModelServes, NoneForAReason
<1> QED
  BY <1>1, <1>2, <1>3 DEF ServingInv

\* Every step keeps the types.
LEMMA TypeKept ==
  ASSUME TypeOK, Ranking, [Next]_vars
  PROVE  TypeOK' /\ Ranking'
<1> USE NobodyAssumption DEF TypeOK, Ranking, Jobs, Places, Models, vars, loading, stores, threads, history
<1>1. ASSUME NEW t \in Threads, ThreadStep(t) PROVE TypeOK' /\ Ranking'
  <2>1. CASE Call(t)
    BY <2>1 DEF Call, Begin, Goto
  <2>2. CASE Proceed(t)
    BY <2>2 DEF Proceed, Begin, Goto
  <2>3. CASE GetEmbedder(t)
    BY <2>3 DEF GetEmbedder, Got, Return, Goto
  <2>4. CASE TakeEmbedderLock(t)
    BY <2>4 DEF TakeEmbedderLock, Needed, Got, Return, Goto
  <2>5. CASE Publish(t)
    BY <2>5 DEF Publish, Goto
  <2>6. CASE NameBackend(t)
    BY <2>6 DEF NameBackend, Got, Return, Goto
  <2>7. CASE LoadFails(t)
    BY <2>7 DEF LoadFails, Return, Goto
  <2>8. CASE GetReranker(t)
    <3>1. CASE reranker = "none"
      BY <2>8, <3>1 DEF GetReranker, Goto
    <3>2. CASE Scoring(t) /\ job[t] = "rerank"
      BY <2>8, <3>2 DEF GetReranker, Scoring, Goto
    <3>3. CASE Return(t, "scores") /\ UNCHANGED model
      BY <2>8, <3>3 DEF GetReranker, Return, Goto
    <3>4. CASE Return(t, None) /\ UNCHANGED model
      BY <2>8, <3>4 DEF GetReranker, Return, Goto
    <3> QED
      BY <2>8, <3>1, <3>2, <3>3, <3>4 DEF GetReranker, GotReranker
  <2>9. CASE TakeRerankerLock(t)
    BY <2>9 DEF TakeRerankerLock, Goto
  <2>10. CASE LoadReranker(t)
    BY <2>10 DEF LoadReranker, Goto
  <2>11. CASE Infer(t)
    BY <2>11 DEF Infer, Free, Goto
  <2>12. CASE Succeeds(t)
    <3>1. CASE model[t] = "reranker"
      BY <2>12, <3>1 DEF Succeeds, Return, Goto
    <3>2. CASE model[t] # "reranker"
      BY <2>12, <3>2 DEF Succeeds, Return, Goto
    <3> QED
      BY <3>1, <3>2
  <2>13. CASE Races(t)
    BY <2>13 DEF Races, MayRetry, Goto
  <2>14. CASE Fails(t)
    BY <2>14 DEF Fails, Suits, Return, Goto
  <2> QED
    BY <1>1, <2>1, <2>2, <2>3, <2>4, <2>5, <2>6, <2>7, <2>8, <2>9, <2>10, <2>11, <2>12, <2>13, <2>14 DEF ThreadStep
<1>2. CASE Restart
  BY <1>2 DEF Restart
<1>3. CASE UNCHANGED vars
  BY <1>3
<1> QED
  BY <1>1, <1>2, <1>3 DEF Next

\* Every step keeps the locks, what threads know of models, and what has been answered.
LEMMA ServingKept == ServingInv /\ [Next]_vars => ServingInv'
<1> SUFFICES ASSUME ServingInv, [Next]_vars PROVE ServingInv'
  OBVIOUS
<1>t. TypeOK' /\ Ranking'
  BY TypeKept DEF ServingInv
<1> USE NobodyAssumption DEF ServingInv, TypeOK, Ranking, Models, vars, loading, stores, threads, history
<1>1. ASSUME NEW t \in Threads, ThreadStep(t) PROVE Locks' /\ Encoding' /\ OneModelServes' /\ NoneForAReason'
  <2>1. CASE Call(t)
    <3>1. Locks'
      BY <2>1 DEF Call, Begin, Goto, Locks, SerialInference
    <3>2. Encoding'
      BY <2>1 DEF Call, Begin, Goto, Encoding, Locks, OneModelServes
    <3>3. OneModelServes'
      BY <2>1 DEF Call, Begin, Goto, OneModelServes, Locks, Encoding
    <3>4. NoneForAReason'
      BY <2>1 DEF Call, Begin, Goto, NoneForAReason, Locks, Encoding, OneModelServes
    <3> QED
      BY <3>1, <3>2, <3>3, <3>4
  <2>2. CASE Proceed(t)
    <3>1. Locks'
      BY <2>2 DEF Proceed, Begin, Goto, Locks, SerialInference
    <3>2. Encoding'
      BY <2>2 DEF Proceed, Begin, Goto, Encoding, Locks, OneModelServes
    <3>3. OneModelServes'
      BY <2>2 DEF Proceed, Begin, Goto, OneModelServes, Locks, Encoding
    <3>4. NoneForAReason'
      BY <2>2 DEF Proceed, Begin, Goto, NoneForAReason, Locks, Encoding, OneModelServes
    <3> QED
      BY <3>1, <3>2, <3>3, <3>4
  <2>3. CASE GetEmbedder(t)
    <3>1. Locks'
      BY <2>3 DEF GetEmbedder, Got, Return, Goto, Locks, SerialInference
    <3>2. Encoding'
      BY <2>3 DEF GetEmbedder, Got, Return, Goto, Encoding, Locks, OneModelServes
    <3>3. OneModelServes'
      BY <2>3 DEF GetEmbedder, Got, Return, Goto, OneModelServes, Locks, Encoding
    <3>4. NoneForAReason'
      BY <2>3 DEF GetEmbedder, Got, Return, Goto, NoneForAReason, Locks, Encoding, OneModelServes
    <3> QED
      BY <3>1, <3>2, <3>3, <3>4
  <2>4. CASE TakeEmbedderLock(t)
    <3>1. Locks'
      BY <2>4 DEF TakeEmbedderLock, Needed, Got, Return, Goto, Locks, SerialInference
    <3>2. Encoding'
      BY <2>4 DEF TakeEmbedderLock, Needed, Got, Return, Goto, Encoding, Locks, OneModelServes
    <3>3. OneModelServes'
      BY <2>4 DEF TakeEmbedderLock, Needed, Got, Return, Goto, OneModelServes, Locks, Encoding
    <3>4. NoneForAReason'
      BY <2>4 DEF TakeEmbedderLock, Needed, Got, Return, Goto, NoneForAReason, Locks, Encoding, OneModelServes
    <3> QED
      BY <3>1, <3>2, <3>3, <3>4
  <2>5. CASE Publish(t)
    <3>1. Locks'
      BY <2>5 DEF Publish, Goto, Locks, SerialInference
    <3>2. Encoding'
      BY <2>5 DEF Publish, Goto, Encoding, Locks, OneModelServes
    <3>3. OneModelServes'
      <4>1. embedder = None
        BY <2>5 DEF Publish, Locks
      <4> QED
        BY <2>5, <4>1 DEF Publish, Goto, OneModelServes
    <3>4. NoneForAReason'
      BY <2>5 DEF Publish, Goto, NoneForAReason, Locks, Encoding, OneModelServes
    <3> QED
      BY <3>1, <3>2, <3>3, <3>4
  <2>6. CASE NameBackend(t)
    <3>1. Locks'
      BY <2>6 DEF NameBackend, Got, Return, Goto, Locks, SerialInference
    <3>2. Encoding'
      BY <2>6 DEF NameBackend, Got, Return, Goto, Encoding, Locks, OneModelServes
    <3>3. OneModelServes'
      BY <2>6 DEF NameBackend, Got, Return, Goto, OneModelServes, Locks, Encoding
    <3>4. NoneForAReason'
      BY <2>6 DEF NameBackend, Got, Return, Goto, NoneForAReason, Locks, Encoding, OneModelServes
    <3> QED
      BY <3>1, <3>2, <3>3, <3>4
  <2>7. CASE LoadFails(t)
    <3>1. Locks'
      BY <2>7 DEF LoadFails, Return, Goto, Locks, SerialInference
    <3>2. Encoding'
      BY <2>7 DEF LoadFails, Return, Goto, Encoding, Locks, OneModelServes
    <3>3. OneModelServes'
      BY <2>7 DEF LoadFails, Return, Goto, OneModelServes, Locks, Encoding
    <3>4. NoneForAReason'
      BY <2>7 DEF LoadFails, Return, Goto, NoneForAReason, Locks, Encoding, OneModelServes
    <3> QED
      BY <3>1, <3>2, <3>3, <3>4
  <2>8. CASE GetReranker(t)
    <3>1. Locks'
      BY <2>8 DEF GetReranker, GotReranker, Scoring, Return, Goto, Locks, SerialInference
    <3>2. Encoding'
      BY <2>8 DEF GetReranker, GotReranker, Scoring, Return, Goto, Encoding, Locks, OneModelServes
    <3>3. OneModelServes'
      <4>1. CASE reranker = "none" \/ Scoring(t)
        BY <2>8, <4>1 DEF GetReranker, GotReranker, Scoring, Return, Goto, OneModelServes
      <4>2. CASE Return(t, "scores") /\ UNCHANGED model
        BY <2>8, <4>2 DEF GetReranker, Return, Goto, OneModelServes
      <4>3. CASE Return(t, None) /\ UNCHANGED model
        BY <2>8, <4>3 DEF GetReranker, Return, Goto, OneModelServes
      <4> QED
        BY <2>8, <4>1, <4>2, <4>3 DEF GetReranker, GotReranker
    <3>4. NoneForAReason'
      BY <2>8 DEF GetReranker, GotReranker, Scoring, Return, Goto, NoneForAReason, Locks, Encoding, OneModelServes
    <3> QED
      BY <3>1, <3>2, <3>3, <3>4
  <2>9. CASE TakeRerankerLock(t)
    <3>1. Locks'
      BY <2>9 DEF TakeRerankerLock, Goto, Locks, SerialInference
    <3>2. Encoding'
      BY <2>9 DEF TakeRerankerLock, Goto, Encoding, Locks, OneModelServes
    <3>3. OneModelServes'
      BY <2>9 DEF TakeRerankerLock, Goto, OneModelServes, Locks, Encoding
    <3>4. NoneForAReason'
      BY <2>9 DEF TakeRerankerLock, Goto, NoneForAReason, Locks, Encoding, OneModelServes
    <3> QED
      BY <3>1, <3>2, <3>3, <3>4
  <2>10. CASE LoadReranker(t)
    <3>1. Locks'
      BY <2>10 DEF LoadReranker, Goto, Locks, SerialInference
    <3>2. Encoding'
      BY <2>10 DEF LoadReranker, Goto, Encoding, Locks, OneModelServes
    <3>3. OneModelServes'
      BY <2>10 DEF LoadReranker, Goto, OneModelServes, Locks, Encoding
    <3>4. NoneForAReason'
      BY <2>10 DEF LoadReranker, Goto, NoneForAReason, Locks, Encoding, OneModelServes
    <3> QED
      BY <3>1, <3>2, <3>3, <3>4
  <2>11. CASE Infer(t)
    <3>1. Locks'
      BY <2>11 DEF Infer, Free, Goto, Locks, SerialInference
    <3>2. Encoding'
      BY <2>11 DEF Infer, Free, Goto, Encoding, Locks, OneModelServes
    <3>3. OneModelServes'
      BY <2>11 DEF Infer, Free, Goto, OneModelServes, Locks, Encoding
    <3>4. NoneForAReason'
      BY <2>11 DEF Infer, Free, Goto, NoneForAReason, Locks, Encoding, OneModelServes
    <3> QED
      BY <3>1, <3>2, <3>3, <3>4
  <2>12. CASE Succeeds(t)
    <3>1. Locks'
      BY <2>12 DEF Succeeds, Suits, Return, Goto, Locks, SerialInference
    <3>2. Encoding'
      BY <2>12 DEF Succeeds, Suits, Return, Goto, Encoding, Locks, OneModelServes
    <3>3. OneModelServes'
      <4>1. CASE model[t] = "reranker"
        BY <2>12, <4>1 DEF Succeeds, Return, Goto, OneModelServes
      <4>2. CASE model[t] = embedder /\ embedder # None
        BY <2>12, <4>2 DEF Succeeds, Return, Goto, OneModelServes
      <4> QED
        BY <2>12, <4>1, <4>2 DEF Succeeds, OneModelServes, Encoding
    <3>4. NoneForAReason'
      BY <2>12 DEF Succeeds, Suits, Return, Goto, NoneForAReason, Locks, Encoding, OneModelServes
    <3> QED
      BY <3>1, <3>2, <3>3, <3>4
  <2>13. CASE Races(t)
    <3>1. Locks'
      BY <2>13 DEF Races, MayRetry, Goto, Locks, SerialInference
    <3>2. Encoding'
      BY <2>13 DEF Races, MayRetry, Goto, Encoding, Locks, OneModelServes
    <3>3. OneModelServes'
      BY <2>13 DEF Races, MayRetry, Goto, OneModelServes, Locks, Encoding
    <3>4. NoneForAReason'
      BY <2>13 DEF Races, MayRetry, Goto, NoneForAReason, Locks, Encoding, OneModelServes
    <3> QED
      BY <3>1, <3>2, <3>3, <3>4
  <2>14. CASE Fails(t)
    <3>1. Locks'
      BY <2>14 DEF Fails, Suits, Return, Goto, Locks, SerialInference
    <3>2. Encoding'
      BY <2>14 DEF Fails, Suits, Return, Goto, Encoding, Locks, OneModelServes
    <3>3. OneModelServes'
      BY <2>14 DEF Fails, Suits, Return, Goto, OneModelServes, Locks, Encoding
    <3>4. NoneForAReason'
      BY <2>14 DEF Fails, Suits, Return, Goto, NoneForAReason, Locks, Encoding, OneModelServes
    <3> QED
      BY <3>1, <3>2, <3>3, <3>4
  <2> QED
    BY <1>1, <2>1, <2>2, <2>3, <2>4, <2>5, <2>6, <2>7, <2>8, <2>9, <2>10, <2>11, <2>12, <2>13, <2>14 DEF ThreadStep
<1>2. CASE Restart
  <2>1. Locks'
    BY <1>2 DEF Restart, Locks, SerialInference
  <2>2. Encoding' /\ OneModelServes' /\ NoneForAReason'
    BY <1>2 DEF Restart, Encoding, OneModelServes, NoneForAReason
  <2> QED
    BY <1>t, <2>1, <2>2
<1>3. CASE UNCHANGED vars
  BY <1>3 DEF Locks, SerialInference, Encoding, OneModelServes, NoneForAReason
<1> QED
  BY <1>t, <1>1, <1>2, <1>3 DEF Next

\* Every reachable state satisfies the inductive invariant.
THEOREM Serving == Spec => []ServingInv
  BY InitServing, ServingKept, PTL DEF Spec

\* Type correctness.
THEOREM ServingTypes == Spec => []TypeOK
  BY Serving, PTL DEF ServingInv

\* One embedding model serves the process, whoever loads it (get_embedder).
THEOREM OneModel == Spec => []OneModelServes
  BY Serving, PTL DEF ServingInv

\* Nothing is answered only where a model failed or had no name yet (embed_texts, rerank).
THEOREM NothingForAReason == Spec => []NoneForAReason
  BY Serving, PTL DEF ServingInv

\* At most one thread is inside the models (_model_infer_lock).
THEOREM OneInference == Spec => []SerialInference
  BY Serving, PTL DEF ServingInv, Locks
=============================================================================
