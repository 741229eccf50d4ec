--------------------------- MODULE RoundtableProofs ---------------------------
(***************************************************************************)
(* Proofs about Roundtable, for any panel, thresholds and number of        *)
(* rounds: the transcript, the overall score, and what the analyzer reads  *)
(* out of a work history.                                                  *)
(***************************************************************************)
EXTENDS Roundtable, SequenceTheorems, FiniteSetTheorems, TLAPS

\* A score is within its range whatever the model answered, NaN included.
LEMMA ClampInRange ==
  ASSUME NEW v \in Numbers \cup {NaN}
  PROVE  Clamp(v) \in Scores
<1>1. CASE v = NaN
  BY <1>1 DEF Clamp, Scores
<1>2. CASE v # NaN
  <2>1. v \in Int
    BY <1>2, RoundtableAssumption
  <2>2. PICK m \in Int : m <= 100 /\ m = Min({100, v})
    <3>1. \E m \in {100, v} : \A y \in {100, v} : m =< y
      BY <2>1
    <3>2. Min({100, v}) \in {100, v} /\ \A y \in {100, v} : Min({100, v}) =< y
      BY <3>1 DEF Min
    <3> QED
      BY <2>1, <3>2
  <2>3. \E n \in {0, m} : \A y \in {0, m} : n >= y
    BY <2>2
  <2>4. Max({0, m}) \in {0, m} /\ \A y \in {0, m} : Max({0, m}) >= y
    BY <2>3 DEF Max
  <2> QED
    BY <1>2, <2>2, <2>4 DEF Clamp, Scores
<1> QED
  BY <1>1, <1>2

\* So is one the parser has made up.
LEMMA ParsedInRange ==
  ASSUME NEW v \in Raw
  PROVE  ParsedScore(v) \in Scores
BY ClampInRange DEF ParsedScore, Raw, Scores

\* What a revision comes to.
LEMMA RevisedInRange ==
  ASSUME NEW v \in Raw, before[Own] \in Scores
  PROVE  /\ Revised(v).score \in Scores
         /\ \/ Revised(v).score = before[Own] /\ Revised(v).stance = "maintain"
            \/ Revised(v).stance = "revise"
<1>1. CASE v = NoNumber
  BY <1>1 DEF Revised
<1>2. CASE v # NoNumber
  BY <1>2, ClampInRange DEF Revised, Raw
<1> QED
  BY <1>1, <1>2

\* The entries of the transcript are turns.
LEMMA Entries ==
  ASSUME RecordTypes
  PROVE  /\ DOMAIN turns = 1..Len(turns) /\ Len(turns) \in Nat
         /\ \A i \in DOMAIN turns : turns[i] \in Turn
BY DEF RecordTypes

\* Their authors are experts, their scores and changes are numbers.
LEMMA EntryFields ==
  ASSUME RecordTypes
  PROVE  \A i \in DOMAIN turns : /\ turns[i].agent \in Experts /\ turns[i].round \in Nat
                                 /\ turns[i].score \in Int /\ turns[i].delta \in Int
<1>1. MaxRounds \in Nat
  BY RoundtableAssumption
<1>2. \A t \in Turn : t.agent \in Experts /\ t.round \in Nat /\ t.score \in Int /\ t.delta \in Int
  BY <1>1 DEF Turn, Scores
<1> QED
  BY <1>2, Entries

-----------------------------------------------------------------------------
(* A contribution *)

\* The contribution of the expert whose turn it is: new, st and rd are what it has said at last,
\* which is of this round if its score changes.
Contributes(new, st, rd) ==
  /\ step = "turns" /\ Speak(new, st, rd)
  /\ new \in Scores /\ st \in {"none", "maintain", "revise"} /\ rd \in 0..MaxRounds
  /\ new # before[Own] => st = "revise" /\ rd = round

\* Each way to contribute is one.
LEMMA Contribution ==
  ASSUME RecordTypes, Progress, Maintain \/ Revise \/ TurnFails
  PROVE  \E new, st, rd : Contributes(new, st, rd)
<1>1. step = "turns"
  BY DEF Maintain, Revise, TurnFails
<1>2. speaker \in 1..Len(Panel) /\ Panel[speaker] \in Experts
  BY <1>1, RoundtableAssumption DEF RecordTypes, Progress
<1>3. Own \in Experts /\ before[Own] \in Scores /\ stance[Own] \in {"none", "maintain", "revise"}
      /\ said[Own] \in 0..MaxRounds /\ round \in 0..MaxRounds
  BY <1>2 DEF Own, RecordTypes
<1>4. CASE Maintain
  BY <1>1, <1>3, <1>4 DEF Maintain, Contributes
<1>5. CASE Revise
  <2>1. PICK v \in Raw : Speak(Revised(v).score, Revised(v).stance, round)
    BY <1>5 DEF Revise
  <2> QED
    BY <1>1, <1>3, <2>1, RevisedInRange DEF Contributes
<1>6. CASE TurnFails
  BY <1>1, <1>3, <1>6 DEF TurnFails, Contributes
<1> QED
  BY <1>4, <1>5, <1>6

\* The transcript after a contribution: one entry more.
Entry(new, st, rd) ==
  [round |-> round, agent |-> Own, score |-> new, delta |-> Delta(Own, new),
   stance |-> IF st = "none" THEN "maintain" ELSE st, said |-> rd]

\* What a contribution does, field by field.
LEMMA AfterContribution ==
  ASSUME RecordTypes, Progress, NEW new, NEW st, NEW rd, Contributes(new, st, rd)
  PROVE  /\ Own \in Experts /\ round \in 1..MaxRounds /\ speaker \in 1..Len(Panel) /\ Own = Panel[speaker]
         /\ Entry(new, st, rd) \in Turn
         /\ turns' \in Seq(Turn) /\ DOMAIN turns = 1..Len(turns) /\ DOMAIN turns' = 1..Len(turns) + 1
         /\ \A i \in DOMAIN turns : turns'[i] = turns[i]
         /\ turns'[Len(turns) + 1] = Entry(new, st, rd)
         /\ score' \in [Experts -> Scores] /\ score'[Own] = new
         /\ \A e \in Experts \ {Own} : score'[e] = score[e]
<1>1. speaker \in 1..Len(Panel) /\ Panel[speaker] \in Experts /\ round \in 1..MaxRounds
  BY RoundtableAssumption DEF Contributes, RecordTypes, Progress
<1>2. Own \in Experts /\ Own = Panel[speaker]
  BY <1>1 DEF Own
<1>3. before[Own] \in 0..100 /\ new \in 0..100
  BY <1>2 DEF RecordTypes, Contributes, Scores
<1>4. Delta(Own, new) \in -100..100
  BY <1>3, SMTT(20) DEF Delta
<1>5. Entry(new, st, rd) \in Turn
  BY <1>1, <1>2, <1>3, <1>4 DEF Entry, Turn, Contributes, Scores
<1>6. turns' = Append(turns, Entry(new, st, rd)) /\ score' = [score EXCEPT ![Own] = new]
  BY DEF Contributes, Speak, Entry
<1>7. turns \in Seq(Turn) /\ score \in [Experts -> Scores]
  BY DEF RecordTypes
<1>8. /\ turns' \in Seq(Turn) /\ Len(turns') = Len(turns) + 1
      /\ \A i \in 1..Len(turns) : turns'[i] = turns[i]
      /\ turns'[Len(turns) + 1] = Entry(new, st, rd)
  BY <1>5, <1>6, <1>7
<1>9. DOMAIN turns = 1..Len(turns) /\ DOMAIN turns' = 1..Len(turns) + 1
  BY <1>7, <1>8
<1>10. score' \in [Experts -> Scores] /\ score'[Own] = new /\ \A e \in Experts \ {Own} : score'[e] = score[e]
  BY <1>2, <1>3, <1>6, <1>7 DEF Scores
<1> QED
  BY <1>1, <1>2, <1>5, <1>8, <1>9, <1>10

\* After it the speaker has been heard too.
LEMMA HeardAfter ==
  ASSUME RecordTypes, Progress, NEW new, NEW st, NEW rd, Contributes(new, st, rd)
  PROVE  Own \in Experts \ Heard /\ Heard' = Heard \cup {Own}
<1>1. /\ speaker \in 1..Len(Panel) /\ Own = Panel[speaker] /\ Own \in Experts /\ round \in 1..MaxRounds
  BY AfterContribution
<1>2. /\ step = "turns" /\ round' = round
      /\ speaker < Len(Panel) => step' = "turns" /\ speaker' = speaker + 1
      /\ ~(speaker < Len(Panel)) => step' = "check"
  BY DEF Contributes, Speak
<1>3. /\ IsInjective(Panel) /\ DOMAIN Panel = 1..Len(Panel) /\ Len(Panel) \in Nat /\ MaxRounds \in Nat
  BY RoundtableAssumption
<1>4. Heard = {e \in Experts : \E p \in 1..speaker - 1 : Panel[p] = e}
  BY <1>1, <1>2, <1>3 DEF Heard
<1>5. Own \notin Heard
  BY <1>1, <1>3, <1>4 DEF IsInjective
<1>6. CASE speaker < Len(Panel)
  <2>1. Heard' = {e \in Experts : \E p \in 1..speaker : Panel[p] = e}
    BY <1>1, <1>2, <1>3, <1>6 DEF Heard
  <2> QED
    BY <1>1, <1>3, <1>4, <1>5, <2>1
<1>7. CASE ~(speaker < Len(Panel))
  <2>a. step' = "check" /\ round' > 0 /\ speaker = Len(Panel)
    <3>a. Len(Panel) \in Nat /\ speaker \in 1..Len(Panel)
      BY <1>1, <1>3
    <3>1. speaker = Len(Panel)
      BY <3>a, <1>7
    <3>2. round > 0
      BY <1>1, <1>3
    <3> QED
      BY <1>2, <1>7, <3>1, <3>2
  <2>1. Heard' = Experts /\ speaker = Len(Panel)
    BY <2>a DEF Heard
  <2>2. ASSUME NEW e \in Experts, e # Own PROVE e \in Heard
    <3>1. PICK p \in 1..Len(Panel) : Panel[p] = e
      BY <1>3 DEF Experts
    <3>2. p \in 1..speaker - 1
      BY <1>1, <1>3, <2>1, <2>2, <3>1
    <3> QED
      BY <1>4, <3>1, <3>2
  <2>3. Heard \subseteq Experts
    BY <1>4
  <2> QED
    BY <1>1, <1>5, <2>1, <2>2, <2>3
<1> QED
  BY <1>6, <1>7

\* A contribution keeps everything.
LEMMA ContributionKeeps ==
  ASSUME RecordInv, NEW new, NEW st, NEW rd, Contributes(new, st, rd)
  PROVE  RecordInv'
<1> DEFINE n == Len(turns) + 1
           t == Entry(new, st, rd)
<1>0. RecordTypes /\ Progress /\ TurnsMatch /\ ScoresMatch /\ Replayable
  BY DEF RecordInv
<1>1. /\ step = "turns" /\ round' = round /\ before' = before /\ first' = first
      /\ convergence' = convergence /\ step' \in {"turns", "check"}
      /\ step' = "turns" => speaker' = speaker + 1 /\ speaker < Len(Panel)
      /\ step' = "check" => speaker' = 0
  BY DEF Contributes, Speak
<1>2. /\ Own \in Experts /\ round \in 1..MaxRounds /\ speaker \in 1..Len(Panel) /\ t \in Turn
      /\ turns' \in Seq(Turn) /\ DOMAIN turns = 1..Len(turns) /\ DOMAIN turns' = 1..n
      /\ \A i \in DOMAIN turns : turns'[i] = turns[i]
      /\ turns'[n] = t
      /\ score' \in [Experts -> Scores] /\ score'[Own] = new
      /\ \A e \in Experts \ {Own} : score'[e] = score[e]
  BY <1>0, AfterContribution
<1>3. /\ t.round = round /\ t.agent = Own /\ t.score = new /\ t.delta = new - before[Own] /\ t.said = rd
      /\ t.stance = IF st = "none" THEN "maintain" ELSE st
  BY DEF Entry, Delta
<1>4. /\ DOMAIN turns' = DOMAIN turns \cup {n} /\ n \notin DOMAIN turns
      /\ \A i \in DOMAIN turns : turns[i] \in Turn
  BY <1>0, <1>2, Entries
<1>5. \A i \in DOMAIN turns : turns[i].agent \in Experts /\ turns[i].round \in 1..round
  BY <1>0, EntryFields DEF TurnsMatch
<1>6. Own \in Experts \ Heard /\ Heard' = Heard \cup {Own}
  BY <1>0, HeardAfter
<1>7. \A i \in DOMAIN turns : turns[i].round = round => turns[i].agent \in Heard
  BY <1>0 DEF TurnsMatch
<1>n. round \in Nat /\ before[Own] \in Int /\ new \in Int
  <2>1. before[Own] \in Scores /\ new \in Scores
    BY <1>0, <1>2 DEF RecordTypes, Contributes
  <2>2. round \in Nat
    BY <1>2, RoundtableAssumption
  <2> QED
    BY <2>1, <2>2 DEF Scores
<1> HIDE DEF n, t
<1>8. RecordTypes'
  <2>1. stance' = [stance EXCEPT ![Own] = st] /\ said' = [said EXCEPT ![Own] = rd]
    BY DEF Contributes, Speak
  <2>2. stance' \in [Experts -> {"none", "maintain", "revise"}] /\ said' \in [Experts -> 0..MaxRounds]
    BY <1>0, <1>2, <2>1 DEF RecordTypes, Contributes
  <2>3. Len(Panel) \in Nat
    BY RoundtableAssumption
  <2>4. speaker' \in 0..Len(Panel)
    BY <1>1, <1>2, <2>3
  <2> QED
    BY <1>0, <1>1, <1>2, <2>2, <2>4 DEF RecordTypes
<1>9. Progress'
  BY <1>0, <1>1, <1>2 DEF Progress
<1>10. TurnsMatch'
  <2>1. ASSUME NEW i \in DOMAIN turns'
        PROVE  turns'[i].round \in 1..round /\ (turns'[i].round = round => turns'[i].agent \in Heard')
    <3>1. CASE i = n
      BY <1>2, <1>3, <1>6, <1>n, <3>1
    <3>2. CASE i \in DOMAIN turns
      BY <1>2, <1>5, <1>6, <1>7, <3>2
    <3> QED
      BY <1>4, <3>1, <3>2
  <2>3. \A e \in Experts, k \in 1..round - 1 : \E i \in DOMAIN turns' : turns'[i].agent = e /\ turns'[i].round = k
    <3>1. \A e \in Experts, k \in 1..round - 1 : \E i \in DOMAIN turns : turns[i].agent = e /\ turns[i].round = k
      BY <1>0 DEF TurnsMatch, By
    <3> TAKE e \in Experts, k \in 1..round - 1
    <3>2. PICK i \in DOMAIN turns : turns[i].agent = e /\ turns[i].round = k
      BY <3>1
    <3>3. i \in DOMAIN turns' /\ turns'[i].agent = e /\ turns'[i].round = k
      BY <1>2, <1>4, <3>2
    <3> QED
      BY <3>3
  <2>4. ASSUME NEW e \in Heard' PROVE \E i \in DOMAIN turns' : turns'[i].agent = e /\ turns'[i].round = round
    <3>1. CASE e = Own
      BY <1>2, <1>3, <1>4, <3>1
    <3>2. CASE e \in Heard
      <4>1. PICK i \in DOMAIN turns : turns[i].agent = e /\ turns[i].round = round
        BY <1>0, <3>2 DEF TurnsMatch, By
      <4> QED
        BY <1>2, <1>4, <4>1
    <3> QED
      BY <1>6, <3>1, <3>2
  <2>5. ASSUME NEW i \in DOMAIN turns', NEW j \in DOMAIN turns',
               turns'[j].agent = turns'[i].agent, turns'[j].round = turns'[i].round
        PROVE  i = j
    <3>1. CASE i \in DOMAIN turns /\ j \in DOMAIN turns
      BY <1>0, <1>2, <2>5, <3>1 DEF TurnsMatch, By
    <3>2. CASE i = n /\ j \in DOMAIN turns
      BY <1>2, <1>3, <1>6, <1>7, <2>5, <3>2
    <3>3. CASE i \in DOMAIN turns /\ j = n
      BY <1>2, <1>3, <1>6, <1>7, <2>5, <3>3
    <3> QED
      BY <1>4, <3>1, <3>2, <3>3
  <2> QED
    BY <1>1, <2>1, <2>3, <2>4, <2>5 DEF TurnsMatch, By
<1>11. ScoresMatch'
  <2>1. \A e \in Experts \ Heard' : score'[e] = before[e]
    BY <1>0, <1>2, <1>6 DEF ScoresMatch
  <2>2. ASSUME NEW i \in DOMAIN turns', turns'[i].round = round
        PROVE  turns'[i].score = score'[turns'[i].agent] /\ turns'[i].delta = turns'[i].score - before[turns'[i].agent]
    <3>1. CASE i = n
      BY <1>2, <1>3, <3>1
    <3>2. CASE i \in DOMAIN turns
      <4>1. turns[i].agent \in Experts \ {Own} /\ turns[i].round = round
        BY <1>2, <1>5, <1>6, <1>7, <2>2, <3>2
      <4>2. turns[i].score = score[turns[i].agent] /\ turns[i].delta = turns[i].score - before[turns[i].agent]
        BY <1>0, <3>2, <4>1 DEF ScoresMatch
      <4> QED
        BY <1>2, <3>2, <4>1, <4>2
    <3> QED
      BY <1>4, <3>1, <3>2
  <2>3. ASSUME NEW i \in DOMAIN turns', turns'[i].round = round - 1
        PROVE  turns'[i].score = before[turns'[i].agent]
    <3>1. i # n
      BY <1>2, <1>3, <1>n, <2>3
    <3> QED
      BY <1>0, <1>2, <1>4, <2>3, <3>1 DEF ScoresMatch
  <2> QED
    BY <1>0, <1>1, <2>1, <2>2, <2>3 DEF ScoresMatch
<1>12. Replayable'
  <2>1. ASSUME NEW i \in DOMAIN turns', turns'[i].round = 1
        PROVE  turns'[i].score = first[turns'[i].agent] + turns'[i].delta
    <3>1. CASE i = n
      <4>1. before = first
        BY <1>0, <1>2, <1>3, <2>1, <3>1 DEF ScoresMatch
      <4> QED
        BY <1>2, <1>3, <1>n, <3>1, <4>1
    <3>2. CASE i \in DOMAIN turns
      BY <1>0, <1>2, <2>1, <3>2 DEF Replayable
    <3> QED
      BY <1>4, <3>1, <3>2
  <2>2. ASSUME NEW i \in DOMAIN turns', NEW j \in DOMAIN turns',
               turns'[j].agent = turns'[i].agent, turns'[j].round = turns'[i].round - 1
        PROVE  turns'[i].score = turns'[j].score + turns'[i].delta
    <3>1. j # n
      <4>1. turns'[i].round \in 1..round
        <5>1. CASE i = n
          BY <1>2, <1>3, <1>n, <5>1
        <5>2. CASE i \in DOMAIN turns
          BY <1>2, <1>5, <5>2
        <5> QED
          BY <1>4, <5>1, <5>2
      <4> QED
        BY <1>2, <1>3, <1>n, <2>2, <4>1
    <3>2. j \in DOMAIN turns
      BY <1>4, <3>1
    <3>3. CASE i = n
      <4>1. turns[j].score = before[Own]
        BY <1>0, <1>2, <1>3, <2>2, <3>2, <3>3 DEF ScoresMatch
      <4> QED
        BY <1>2, <1>3, <1>n, <3>2, <3>3, <4>1
    <3>4. CASE i \in DOMAIN turns
      BY <1>0, <1>2, <2>2, <3>2, <3>4 DEF Replayable, By
    <3> QED
      BY <1>4, <3>3, <3>4
  <2>3. ASSUME NEW i \in DOMAIN turns', turns'[i].delta # 0
        PROVE  turns'[i].stance = "revise" /\ turns'[i].said = turns'[i].round
    <3>1. CASE i = n
      <4>2. new # before[Own]
        BY <1>2, <1>3, <1>n, <2>3, <3>1
      <4> QED
        BY <1>2, <1>3, <3>1, <4>2 DEF Contributes
    <3>2. CASE i \in DOMAIN turns
      BY <1>0, <1>2, <2>3, <3>2 DEF Replayable
    <3> QED
      BY <1>4, <3>1, <3>2
  <2>4. \A i \in DOMAIN turns' : turns'[i].round = round => turns'[i].score = score'[turns'[i].agent]
    BY <1>1, <1>11 DEF ScoresMatch
  <2>5. round' # 0
    BY <1>1, <1>2
  <2> QED
    BY <1>1, <2>1, <2>2, <2>3, <2>4, <2>5 DEF Replayable, By
<1> QED
  BY <1>8, <1>9, <1>10, <1>11, <1>12 DEF RecordInv

-----------------------------------------------------------------------------
(* The other steps *)

\* Nothing has been said at the beginning.
LEMMA InitRecord == Init => RecordInv
<1> SUFFICES ASSUME Init PROVE RecordInv
  OBVIOUS
<1>0. MaxRounds \in Nat /\ Len(Panel) \in Nat
  BY RoundtableAssumption
<1>1. RecordTypes
  BY <1>0 DEF Init, RecordTypes, Scores
<1>2. Progress
  BY DEF Init, Progress
<1>3. TurnsMatch /\ ScoresMatch /\ Replayable
  BY DEF Init, TurnsMatch, ScoresMatch, Replayable, Heard, By
<1> QED
  BY <1>1, <1>2, <1>3 DEF RecordInv

\* Nor when the experts have answered.
LEMMA AssessKeeps ==
  ASSUME RecordInv, Assess
  PROVE  RecordInv'
<1>1. PICK answers \in [Experts -> Raw] : first' = [e \in Experts |-> ParsedScore(answers[e])]
  BY DEF Assess
<1>2. first' \in [Experts -> Scores]
  BY <1>1, ParsedInRange
<1>3. /\ before' = first' /\ score' = first' /\ step = "assess" /\ step' = "detect"
      /\ UNCHANGED <<stance, said, round, speaker, turns, convergence>>
  BY DEF Assess
<1>4. round = 0 /\ turns = <<>> /\ convergence = "none"
  BY <1>3 DEF RecordInv, Progress
<1>5. RecordTypes'
  BY <1>2, <1>3 DEF RecordInv, RecordTypes
<1>6. Progress'
  BY <1>3, <1>4 DEF Progress
<1>7. (TurnsMatch /\ ScoresMatch /\ Replayable)'
  BY <1>3, <1>4 DEF TurnsMatch, ScoresMatch, Replayable, Heard, By
<1> QED
  BY <1>5, <1>6, <1>7 DEF RecordInv

\* A discussion begins with nobody having spoken.
LEMMA DetectKeeps ==
  ASSUME RecordInv, Detect
  PROVE  RecordInv'
<1>0. MaxRounds \in Nat \ {0} /\ Len(Panel) \in Nat
  BY RoundtableAssumption
<1>1. /\ step = "detect" /\ round = 0 /\ turns = <<>> /\ convergence = "none"
      /\ score = first /\ before = first
  BY DEF Detect, RecordInv, Progress
<1>2. UNCHANGED <<first, before, score, stance, said, turns>>
  BY DEF Detect
<1>3. CASE NeedsDiscussion
  <2>1. step' = "turns" /\ round' = 1 /\ speaker' = 1 /\ convergence' = "max_rounds" /\ Len(Panel) > 1
    BY <1>3 DEF Detect, NeedsDiscussion
  <2>2. RecordTypes'
    BY <1>0, <1>2, <2>1 DEF RecordInv, RecordTypes
  <2>3. Progress'
    BY <1>0, <2>1 DEF Progress
  <2>4. (TurnsMatch /\ ScoresMatch /\ Replayable)'
    BY <1>1, <1>2, <2>1 DEF TurnsMatch, ScoresMatch, Replayable, Heard, By
  <2> QED
    BY <2>2, <2>3, <2>4 DEF RecordInv
<1>4. CASE ~NeedsDiscussion
  <2>1. step' = "arbitrate" /\ UNCHANGED <<round, speaker, convergence>>
    BY <1>4 DEF Detect
  <2>2. RecordTypes'
    BY <1>2, <2>1 DEF RecordInv, RecordTypes
  <2>3. Progress'
    BY <1>1, <1>2, <2>1 DEF Progress
  <2>4. (TurnsMatch /\ ScoresMatch /\ Replayable)'
    BY <1>1, <1>2, <2>1 DEF TurnsMatch, ScoresMatch, Replayable, Heard, By
  <2> QED
    BY <2>2, <2>3, <2>4 DEF RecordInv
<1> QED
  BY <1>3, <1>4

\* At the end of a round all have spoken; the next begins where it ended.
LEMMA CheckKeeps ==
  ASSUME RecordInv, CheckConvergence
  PROVE  RecordInv'
<1>0. RecordTypes /\ Progress /\ TurnsMatch /\ ScoresMatch /\ Replayable
  BY DEF RecordInv
<1>1. step = "check" /\ round \in 1..MaxRounds /\ convergence = "max_rounds" /\ round \in Nat
  BY <1>0, RoundtableAssumption DEF CheckConvergence, RecordTypes, Progress
<1>2. UNCHANGED <<first, score, stance, said, turns>>
  BY DEF CheckConvergence
<1>3. Heard = Experts
  BY <1>1 DEF Heard
<1>4. \A i \in DOMAIN turns : turns[i].agent \in Experts /\ turns[i].round \in 1..round
  BY <1>0, EntryFields DEF TurnsMatch
<1>5. CASE Converged \/ LastRound
  <2>1. step' = "arbitrate" /\ UNCHANGED <<round, speaker, before>>
    BY <1>5 DEF CheckConvergence
  <2>2. convergence' = IF Converged THEN "converged" ELSE "max_rounds"
    BY <1>1 DEF CheckConvergence
  <2>3. Converged' <=> Converged
    BY <1>2, <2>1 DEF Converged, Settled
  <2>4. RecordTypes'
    BY <1>0, <1>2, <2>1, <2>2 DEF RecordTypes
  <2>5. Progress'
    BY <1>1, <1>5, <2>1, <2>2, <2>3 DEF Progress, LastRound
  <2>6. Heard' = Experts
    BY <1>1, <2>1 DEF Heard
  <2>7. TurnsMatch'
    BY <1>0, <1>2, <1>3, <2>1, <2>6 DEF TurnsMatch, By
  <2>8. ScoresMatch'
    BY <1>0, <1>2, <1>3, <2>1, <2>6 DEF ScoresMatch
  <2>9. Replayable'
    BY <1>0, <1>2, <2>1 DEF Replayable, By
  <2> QED
    BY <2>4, <2>5, <2>7, <2>8, <2>9 DEF RecordInv
<1>6. CASE ~(Converged \/ LastRound)
  <2>1. /\ step' = "turns" /\ round' = round + 1 /\ speaker' = 1 /\ before' = score
        /\ convergence' = convergence /\ round # MaxRounds
    BY <1>6 DEF CheckConvergence, LastRound
  <2>2. Len(Panel) \in Nat /\ Len(Panel) > 1
    BY <1>0, <1>1, RoundtableAssumption DEF Progress
  <2>3. RecordTypes'
    BY <1>0, <1>1, <1>2, <2>1, <2>2, RoundtableAssumption DEF RecordTypes
  <2>4. Progress'
    BY <1>1, <2>1, <2>2 DEF Progress
  <2>5. Heard' = {}
    BY <2>1 DEF Heard
  <2>6. TurnsMatch'
    <3>1. \A i \in DOMAIN turns : turns[i].round \in 1..round' /\ turns[i].round # round'
      BY <1>1, <1>4, <2>1
    <3>2. \A e \in Experts, k \in 1..round : \E i \in DOMAIN turns : By(i, e, k)
      BY <1>0, <1>1, <1>3 DEF TurnsMatch
    <3>3. round' - 1 = round
      BY <1>1, <2>1
    <3>4. \A i, j \in DOMAIN turns : By(j, turns[i].agent, turns[i].round) => i = j
      BY <1>0 DEF TurnsMatch
    <3> QED
      BY <1>2, <2>5, <3>1, <3>2, <3>3, <3>4 DEF TurnsMatch, By
  <2>7. ScoresMatch'
    BY <1>0, <1>1, <1>2, <1>4, <2>1 DEF ScoresMatch
  <2>8. Replayable'
    BY <1>0, <1>1, <1>2, <1>4, <2>1 DEF Replayable, By
  <2> QED
    BY <2>3, <2>4, <2>6, <2>7, <2>8 DEF RecordInv
<1> QED
  BY <1>5, <1>6

\* Arbitration adds nothing to the record.
LEMMA RestKeeps ==
  ASSUME RecordInv, Arbitrate \/ UNCHANGED vars
  PROVE  RecordInv'
<1>0. RecordTypes /\ Progress /\ TurnsMatch /\ ScoresMatch /\ Replayable
  BY DEF RecordInv
<1>1. /\ UNCHANGED <<first, before, score, stance, said, round, speaker, turns, convergence>>
      /\ step' = step \/ (step = "arbitrate" /\ step' = "done")
  BY DEF Arbitrate, vars, opinions
<1>2. Converged' <=> Converged
  BY <1>1 DEF Converged, Settled
<1>3. Heard' = Heard
  BY <1>1 DEF Heard
<1>4. RecordTypes'
  BY <1>0, <1>1 DEF RecordTypes
<1>5. Progress'
  BY <1>0, <1>1, <1>2 DEF Progress
<1>6. TurnsMatch'
  BY <1>0, <1>1, <1>3 DEF TurnsMatch, By
<1>7. ScoresMatch'
  BY <1>0, <1>1, <1>3 DEF ScoresMatch
<1>8. Replayable'
  BY <1>0, <1>1 DEF Replayable, By
<1> QED
  BY <1>4, <1>5, <1>6, <1>7, <1>8 DEF RecordInv

-----------------------------------------------------------------------------

\* The invariant of the record.
THEOREM Recorded == Spec => []RecordInv
<1>1. RecordInv /\ [Next]_vars => RecordInv'
  <2> SUFFICES ASSUME RecordInv, [Next]_vars PROVE RecordInv'
    OBVIOUS
  <2>1. CASE Maintain \/ Revise \/ TurnFails
    <3>1. PICK new, st, rd : Contributes(new, st, rd)
      BY <2>1, Contribution DEF RecordInv
    <3> QED
      BY <3>1, ContributionKeeps
  <2> QED
    BY <2>1, AssessKeeps, DetectKeeps, CheckKeeps, RestKeeps DEF Next
<1> QED
  BY <1>1, InitRecord, PTL DEF Spec

\* In a round that is over, somebody has moved beyond the limit unless everything is settled.
LEMMA MovedOrSettled ==
  ASSUME RecordInv, step = "done", round > 0
  PROVE  Moved <=> ~Settled
<1>0. RecordTypes /\ TurnsMatch /\ ScoresMatch
  BY DEF RecordInv
<1>1. DeltaLimit \in Int /\ round \in Nat
  BY <1>0, RoundtableAssumption DEF RecordTypes
<1>2. \A i \in DOMAIN turns : turns[i].round = round =>
        turns[i].agent \in Experts /\ turns[i].delta = score[turns[i].agent] - before[turns[i].agent]
  BY <1>0, EntryFields DEF ScoresMatch
<1>3. \A e \in Experts : \E i \in DOMAIN turns : turns[i].agent = e /\ turns[i].round = round
  BY <1>0 DEF TurnsMatch, Heard, By
<1>a. \A e \in Experts : score[e] \in Int /\ before[e] \in Int
  <2>1. \A e \in Experts : score[e] \in Scores /\ before[e] \in Scores
    BY <1>0 DEF RecordTypes
  <2> QED
    BY <2>1 DEF Scores
<1>b. \A e \in Experts : score[e] - before[e] \in Int
  BY <1>a
<1>4. \A e \in Experts : Abs(score[e] - before[e]) \in Int
  BY <1>b DEF Abs
<1>5. \A e \in Experts : ~(Abs(score[e] - before[e]) <= DeltaLimit) <=> Abs(score[e] - before[e]) > DeltaLimit
  BY <1>1, <1>4
<1> QED
  BY <1>2, <1>3, <1>5 DEF Moved, Settled

\* Read back alone, the transcript leads every expert from its initial to its final score and says
\* why the discussion ended.
THEOREM TranscriptIsTrue == Spec => []RecordIsTrue
<1>1. RecordInv => RecordIsTrue
  <2> SUFFICES ASSUME RecordInv PROVE RecordIsTrue
    OBVIOUS
  <2>0. RecordTypes /\ Progress /\ TurnsMatch
    BY DEF RecordInv
  <2>1. RoundsComplete
    <3>1. \A i \in DOMAIN turns : turns[i].agent \in Experts /\ turns[i].round \in 1..round
      BY <2>0, EntryFields DEF TurnsMatch
    <3>2. ASSUME NEW e \in Experts, NEW k \in 1..Held PROVE \E i \in DOMAIN turns : By(i, e, k)
      <4>1. round \in Nat
        BY <2>0, RoundtableAssumption DEF RecordTypes
      <4>2. CASE k \in 1..round - 1
        BY <2>0, <4>2 DEF TurnsMatch
      <4>3. CASE k \notin 1..round - 1
        <5>1. k = round /\ step # "turns" /\ round > 0
          BY <3>2, <4>1, <4>3 DEF Held
        <5> QED
          BY <2>0, <5>1 DEF TurnsMatch, Heard
      <4> QED
        BY <4>2, <4>3
    <3> QED
      BY <2>0, <3>1, <3>2 DEF RoundsComplete, TurnsMatch
  <2>2. EndsForAReason
    <3>1. CASE Done /\ convergence = "max_rounds"
      <4>1. round = MaxRounds /\ ~Converged /\ round > 0
        BY <2>0, <3>1, RoundtableAssumption DEF Progress, Done
      <4>2. Diverge(score) /\ (round > 1 => ~Settled)
        BY <4>1 DEF Converged
      <4> QED
        BY <3>1, <4>1, <4>2, MovedOrSettled DEF EndsForAReason, Done
    <3>2. CASE Done /\ convergence = "converged"
      <4>1. Converged /\ round \in Nat
        BY <2>0, <3>2, RoundtableAssumption DEF Progress, Done, RecordTypes
      <4>2. ~Diverge(score) \/ (round > 1 /\ Settled)
        BY <4>1 DEF Converged
      <4>3. round > 1 => round > 0
        BY <4>1
      <4> QED
        BY <3>2, <4>2, <4>3, MovedOrSettled DEF EndsForAReason, Done
    <3> QED
      BY <3>1, <3>2 DEF EndsForAReason
  <2> QED
    BY <2>1, <2>2 DEF RecordIsTrue, RecordInv
<1> QED
  BY <1>1, Recorded, PTL

-----------------------------------------------------------------------------
(* Sums *)

\* The element a fold takes next.
Some(s) == CHOOSE x \in s : TRUE

\* g adds up f over the subsets of S the way the fold does.
Adds(g, S, f) ==
  g = [s \in SUBSET S |-> IF s = {} THEN 0 ELSE f[Some(s)] + g[s \ {Some(s)}]]

\* The sum of f over S.
Sum(f, S) == FoldFunctionOnSet(Plus, 0, f, S)

\* What a fold is: the value of such a function.
LEMMA SumIsFold ==
  ASSUME NEW f, NEW S
  PROVE  Sum(f, S) = (CHOOSE g : Adds(g, S, f))[S]
BY DEF Sum, FoldFunctionOnSet, MapThenFoldSet, Adds, Some, Plus

\* A set of subsets of a finite set has a smallest member.
LEMMA Smallest ==
  ASSUME NEW S, IsFiniteSet(S), NEW T, T \subseteq SUBSET S, T # {}
  PROVE  \E s \in T : \A t \in T : t \subseteq s => t = s
<1>1. FiniteSubsetsOf(S) = SUBSET S
  BY FS_FiniteSubsetsOfFinite
<1>2. IsWellFoundedOn(StrictSubsetOrdering(S), SUBSET S)
  BY <1>1, FS_StrictSubsetOrderingWellFounded
<1>3. \E s \in T : \A t \in T : ~(<<t, s>> \in StrictSubsetOrdering(S))
  BY <1>2, WFMin
<1> QED
  BY <1>3 DEF StrictSubsetOrdering

\* The element that is taken is one of the set.
LEMMA SomeMember ==
  ASSUME NEW s, s # {}
  PROVE  Some(s) \in s
BY DEF Some

\* Restricted to the subsets of a subset, such a function still is one.
LEMMA AddsBelow ==
  ASSUME NEW f, NEW S, NEW g, Adds(g, S, f), NEW T \in SUBSET S
  PROVE  Adds([s \in SUBSET T |-> g[s]], T, f)
<1> DEFINE h == [s \in SUBSET T |-> g[s]]
<1>1. ASSUME NEW s \in SUBSET T
      PROVE  h[s] = IF s = {} THEN 0 ELSE f[Some(s)] + h[s \ {Some(s)}]
  <2>1. s \in SUBSET S /\ s \ {Some(s)} \in SUBSET T
    OBVIOUS
  <2>2. g[s] = IF s = {} THEN 0 ELSE f[Some(s)] + g[s \ {Some(s)}]
    BY <2>1 DEF Adds
  <2> QED
    BY <2>1, <2>2
<1> QED
  BY <1>1 DEF Adds

\* Over a finite set there is one only.
LEMMA AddsOnce ==
  ASSUME NEW f, NEW S, IsFiniteSet(S), NEW g, Adds(g, S, f), NEW h, Adds(h, S, f)
  PROVE  g = h
<1> DEFINE T == {s \in SUBSET S : g[s] # h[s]}
<1>1. SUFFICES T = {}
  BY DEF Adds
<1>2. SUFFICES ASSUME T # {} PROVE FALSE
  OBVIOUS
<1>3. T \subseteq SUBSET S
  OBVIOUS
<1> HIDE DEF T
<1>4. PICK s \in T : \A t \in T : t \subseteq s => t = s
  BY <1>2, <1>3, Smallest
<1>5. s \in SUBSET S /\ g[s] # h[s]
  BY DEF T
<1>6. s # {}
  BY <1>5 DEF Adds
<1>7. Some(s) \in s
  BY <1>6, SomeMember
<1>8. s \ {Some(s)} \in SUBSET S /\ s \ {Some(s)} \notin T
  BY <1>4, <1>5, <1>7
<1>9. g[s \ {Some(s)}] = h[s \ {Some(s)}]
  BY <1>8 DEF T
<1> QED
  BY <1>5, <1>6, <1>9 DEF Adds

\* And there is one: the fold follows its own equation.
LEMMA AddsExists ==
  ASSUME NEW f, NEW S, IsFiniteSet(S)
  PROVE  \E g : Adds(g, S, f)
<1> DEFINE T == {s \in SUBSET S : ~ \E g : Adds(g, s, f)}
<1>1. SUFFICES T = {}
  OBVIOUS
<1>2. SUFFICES ASSUME T # {} PROVE FALSE
  OBVIOUS
<1>3. T \subseteq SUBSET S
  OBVIOUS
<1>4. \A s \in SUBSET S : s \in T \/ \E g : Adds(g, s, f)
  OBVIOUS
<1>a. \A s \in T : s \in SUBSET S /\ ~ \E g : Adds(g, s, f)
  OBVIOUS
<1> HIDE DEF T
<1>5. PICK s \in T : \A t \in T : t \subseteq s => t = s
  BY <1>2, <1>3, Smallest
<1>6. s \in SUBSET S /\ IsFiniteSet(s)
  BY <1>3, FS_Subset
<1> DEFINE g == [t \in SUBSET s |-> IF t = {} THEN 0 ELSE f[Some(t)] + Sum(f, t \ {Some(t)})]
<1>7. ASSUME NEW u \in SUBSET s, u # s PROVE g[u] = Sum(f, u)
  <2>1. u \in SUBSET S /\ u \notin T /\ IsFiniteSet(u)
    BY <1>5, <1>6, <1>7, FS_Subset
  <2> DEFINE h == CHOOSE h : Adds(h, u, f)
  <2>2. Adds(h, u, f)
    BY <1>4, <2>1
  <2>3. Sum(f, u) = h[u]
    BY SumIsFold
  <2> HIDE DEF h
  <2>4. Sum(f, u) = IF u = {} THEN 0 ELSE f[Some(u)] + h[u \ {Some(u)}]
    BY <2>2, <2>3 DEF Adds
  <2>5. CASE u = {}
    BY <2>4, <2>5
  <2>6. CASE u # {}
    <3> DEFINE v == u \ {Some(u)}
    <3>1. v \in SUBSET u /\ v \in SUBSET s /\ v # s
      BY <2>6, SomeMember
    <3>2. v \in SUBSET S /\ v \notin T /\ IsFiniteSet(v)
      BY <1>5, <1>6, <3>1, FS_Subset
    <3> DEFINE k == CHOOSE k : Adds(k, v, f)
    <3>3. Adds(k, v, f) /\ Sum(f, v) = k[v]
      BY <1>4, <3>2, SumIsFold
    <3> HIDE DEF k, v
    <3>4. Adds([x \in SUBSET v |-> h[x]], v, f)
      BY <2>2, <3>1, AddsBelow
    <3>5. k = [x \in SUBSET v |-> h[x]]
      BY <3>2, <3>3, <3>4, AddsOnce
    <3>6. k[v] = h[v]
      BY <3>5
    <3>7. Sum(f, u) = f[Some(u)] + Sum(f, u \ {Some(u)})
      BY <2>4, <2>6, <3>3, <3>6 DEF v
    <3> QED
      BY <2>6, <3>7
  <2> QED
    BY <2>5, <2>6
<1>8. Adds(g, s, f)
  <2>1. ASSUME NEW t \in SUBSET s, t # {}
        PROVE  g[t] = f[Some(t)] + g[t \ {Some(t)}]
    <3>1. t \ {Some(t)} \in SUBSET s /\ t \ {Some(t)} # s
      BY <2>1, SomeMember
    <3>2. g[t \ {Some(t)}] = Sum(f, t \ {Some(t)})
      BY <1>7, <3>1
    <3>3. g[t] = f[Some(t)] + Sum(f, t \ {Some(t)})
      BY <2>1
    <3> QED
      BY <3>2, <3>3
  <2>2. g[{}] = 0
    OBVIOUS
  <2>3. \A t \in SUBSET s : g[t] = IF t = {} THEN 0 ELSE f[Some(t)] + g[t \ {Some(t)}]
    BY <2>1, <2>2
  <2>4. g = [t \in SUBSET s |-> g[t]]
    OBVIOUS
  <2> HIDE DEF g
  <2> QED
    BY <2>3, <2>4 DEF Adds
<1> QED
  BY <1>8, <1>a

\* The sum over a set, taking out the element the fold takes first.
LEMMA SumTakes ==
  ASSUME NEW f, NEW S, IsFiniteSet(S)
  PROVE  Sum(f, S) = IF S = {} THEN 0 ELSE f[Some(S)] + Sum(f, S \ {Some(S)})
<1> DEFINE h == CHOOSE h : Adds(h, S, f)
           v == S \ {Some(S)}
           k == CHOOSE k : Adds(k, v, f)
<1>1. v \in SUBSET S /\ IsFiniteSet(v)
  BY FS_Subset
<1>2. Adds(h, S, f) /\ Adds(k, v, f) /\ Sum(f, S) = h[S] /\ Sum(f, v) = k[v]
  <2> HIDE DEF v
  <2> QED
    BY <1>1, AddsExists, SumIsFold
<1> HIDE DEF h, k
<1>3. h[S] = IF S = {} THEN 0 ELSE f[Some(S)] + h[v]
  BY <1>2 DEF Adds
<1> HIDE DEF v
<1>a. Adds([x \in SUBSET v |-> h[x]], v, f)
  BY <1>1, <1>2, AddsBelow
<1>4. k = [x \in SUBSET v |-> h[x]]
  BY <1>1, <1>2, <1>a, AddsOnce
<1>5. k[v] = h[v]
  BY <1>4
<1> QED
  BY <1>2, <1>3, <1>5 DEF v

\* The order does not matter.
LEMMA SumWithout ==
  ASSUME NEW f, NEW S, IsFiniteSet(S), \A x \in S : f[x] \in Int
  PROVE  Sum(f, S) \in Int /\ \A x \in S : Sum(f, S) = f[x] + Sum(f, S \ {x})
<1> DEFINE Good(s) == Sum(f, s) \in Int /\ \A x \in s : Sum(f, s) = f[x] + Sum(f, s \ {x})
           T == {s \in SUBSET S : ~ Good(s)}
<1>1. SUFFICES T = {}
  OBVIOUS
<1>2. SUFFICES ASSUME T # {} PROVE FALSE
  OBVIOUS
<1>3. T \subseteq SUBSET S
  OBVIOUS
<1>4. \A s \in SUBSET S : s \in T \/ Good(s)
  OBVIOUS
<1>a. \A s \in T : ~ Good(s)
  OBVIOUS
<1> HIDE DEF T
<1>5. PICK s \in T : \A t \in T : t \subseteq s => t = s
  BY <1>2, <1>3, Smallest
<1>6. s \in SUBSET S /\ IsFiniteSet(s)
  BY <1>3, FS_Subset
<1>7. \A t \in SUBSET s : t # s => Good(t)
  BY <1>3, <1>4, <1>5
<1>8. Good(s)
  <2>1. CASE s = {}
    <3>1. Sum(f, s) = 0
      BY <2>1, <1>6, SumTakes
    <3> QED
      BY <2>1, <3>1
  <2>2. CASE s # {}
    <3> DEFINE c == Some(s)
    <3>1. c \in s /\ f[c] \in Int
      BY <2>2, <1>6, SomeMember
    <3>2. Sum(f, s) = f[c] + Sum(f, s \ {c})
      BY <1>6, <2>2, SumTakes
    <3> HIDE DEF c
    <3>3. Good(s \ {c})
      BY <1>7, <3>1
    <3>4. Sum(f, s) \in Int
      BY <3>1, <3>2, <3>3
    <3>5. ASSUME NEW x \in s, x # c PROVE Sum(f, s) = f[x] + Sum(f, s \ {x})
      <4>1. Good(s \ {x})
        BY <1>7
      <4>2. Sum(f, s \ {x}) = f[c] + Sum(f, (s \ {x}) \ {c})
        BY <4>1, <3>1, <3>5
      <4>3. Sum(f, s \ {c}) = f[x] + Sum(f, (s \ {c}) \ {x})
        BY <3>3, <3>5
      <4>4. (s \ {x}) \ {c} = (s \ {c}) \ {x}
        OBVIOUS
      <4> DEFINE w == Sum(f, (s \ {c}) \ {x})
      <4>5. Good((s \ {c}) \ {x})
        BY <1>7
      <4>6. w \in Int /\ f[x] \in Int /\ f[c] \in Int
        BY <4>5, <1>6, <3>1
      <4>7. Sum(f, s) = f[c] + (f[x] + w) /\ Sum(f, s \ {x}) = f[c] + w
        BY <3>2, <4>2, <4>3, <4>4
      <4> HIDE DEF w
      <4> QED
        BY <4>6, <4>7
    <3> QED
      BY <3>2, <3>4, <3>5
  <2> QED
    BY <2>1, <2>2
<1> QED
  BY <1>8, <1>a

\* Nothing adds up to zero.
LEMMA SumOfNothing == ASSUME NEW f PROVE Sum(f, {}) = 0
BY SumTakes, FS_EmptySet

\* One element more.
LEMMA SumWith ==
  ASSUME NEW f, NEW S, IsFiniteSet(S), NEW x, x \notin S, \A y \in S \cup {x} : f[y] \in Int
  PROVE  Sum(f, S \cup {x}) = f[x] + Sum(f, S)
<1>1. IsFiniteSet(S \cup {x}) /\ (S \cup {x}) \ {x} = S
  BY FS_AddElement
<1> QED
  BY <1>1, SumWithout

\* Functions that agree on a set have the same sum over it.
LEMMA SumsEqual ==
  ASSUME NEW S, IsFiniteSet(S), NEW f, NEW g, \A x \in S : f[x] \in Int /\ f[x] = g[x]
  PROVE  Sum(f, S) = Sum(g, S)
<1> DEFINE T == {s \in SUBSET S : Sum(f, s) # Sum(g, s)}
<1>1. SUFFICES ASSUME T # {} PROVE FALSE
  OBVIOUS
<1>2. T \subseteq SUBSET S
  OBVIOUS
<1>3. \A s \in SUBSET S : s \in T \/ Sum(f, s) = Sum(g, s)
  OBVIOUS
<1>a. \A s \in T : Sum(f, s) # Sum(g, s)
  OBVIOUS
<1> HIDE DEF T
<1>4. PICK s \in T : \A t \in T : t \subseteq s => t = s
  BY <1>1, <1>2, Smallest
<1>5. IsFiniteSet(s) /\ s \in SUBSET S
  BY <1>2, FS_Subset
<1>6. s # {}
  BY <1>a, SumOfNothing
<1>7. PICK x \in s : TRUE
  BY <1>6
<1>8. Sum(f, s) = f[x] + Sum(f, s \ {x}) /\ Sum(g, s) = g[x] + Sum(g, s \ {x})
  <2>1. (\A y \in s : f[y] \in Int) /\ (\A y \in s : g[y] \in Int)
    BY <1>5
  <2> QED
    BY <1>5, <2>1, SumWithout
<1>9. Sum(f, s \ {x}) = Sum(g, s \ {x}) /\ f[x] = g[x]
  BY <1>3, <1>4, <1>5
<1> QED
  BY <1>a, <1>8, <1>9

\* A sum of greater numbers is greater.
LEMMA SumsOrdered ==
  ASSUME NEW S, IsFiniteSet(S), NEW f, NEW g,
         \A x \in S : f[x] \in Int /\ g[x] \in Int /\ f[x] <= g[x]
  PROVE  Sum(f, S) <= Sum(g, S)
<1> DEFINE T == {s \in SUBSET S : ~(Sum(f, s) <= Sum(g, s))}
<1>1. SUFFICES ASSUME T # {} PROVE FALSE
  OBVIOUS
<1>2. T \subseteq SUBSET S
  OBVIOUS
<1>3. \A s \in SUBSET S : s \in T \/ Sum(f, s) <= Sum(g, s)
  OBVIOUS
<1>a. \A s \in T : ~(Sum(f, s) <= Sum(g, s))
  OBVIOUS
<1> HIDE DEF T
<1>4. PICK s \in T : \A t \in T : t \subseteq s => t = s
  BY <1>1, <1>2, Smallest
<1>5. IsFiniteSet(s) /\ s \in SUBSET S
  BY <1>2, FS_Subset
<1>6. s # {}
  <2>1. Sum(f, {}) <= Sum(g, {})
    BY SumOfNothing
  <2> QED
    BY <1>a, <2>1
<1>7. PICK x \in s : TRUE
  BY <1>6
<1> DEFINE v == s \ {x}
<1>8. /\ \A y \in s : f[y] \in Int
      /\ \A y \in s : g[y] \in Int
      /\ \A y \in v : f[y] \in Int
      /\ \A y \in v : g[y] \in Int
      /\ IsFiniteSet(v)
  BY <1>5, FS_Subset
<1>9. Sum(f, s) = f[x] + Sum(f, v) /\ Sum(g, s) = g[x] + Sum(g, v)
  BY <1>5, <1>8, SumWithout
<1>10. Sum(f, v) \in Int /\ Sum(g, v) \in Int
  BY <1>8, SumWithout
<1>11. Sum(f, v) <= Sum(g, v)
  BY <1>3, <1>4, <1>5
<1>12. f[x] \in Int /\ g[x] \in Int /\ f[x] <= g[x]
  BY <1>5
<1> HIDE DEF v
<1>13. Sum(f, s) <= Sum(g, s)
  BY <1>9, <1>10, <1>11, <1>12
<1> QED
  BY <1>a, <1>13

\* A multiple of every number adds up to the multiple of the sum.
LEMMA SumScaled ==
  ASSUME NEW S, IsFiniteSet(S), NEW f, NEW g, NEW c \in Int,
         \A x \in S : f[x] \in Int /\ g[x] = c * f[x]
  PROVE  Sum(g, S) = c * Sum(f, S)
<1> DEFINE T == {s \in SUBSET S : Sum(g, s) # c * Sum(f, s)}
<1>1. SUFFICES ASSUME T # {} PROVE FALSE
  OBVIOUS
<1>2. T \subseteq SUBSET S
  OBVIOUS
<1>3. \A s \in SUBSET S : s \in T \/ Sum(g, s) = c * Sum(f, s)
  OBVIOUS
<1>a. \A s \in T : Sum(g, s) # c * Sum(f, s)
  OBVIOUS
<1> HIDE DEF T
<1>4. PICK s \in T : \A t \in T : t \subseteq s => t = s
  BY <1>1, <1>2, Smallest
<1>5. IsFiniteSet(s) /\ s \in SUBSET S
  BY <1>2, FS_Subset
<1>6. s # {}
  <2>1. Sum(g, {}) = c * Sum(f, {})
    BY SumOfNothing
  <2> QED
    BY <1>a, <2>1
<1>7. PICK x \in s : TRUE
  BY <1>6
<1> DEFINE v == s \ {x}
<1>8. /\ \A y \in S : f[y] \in Int
      /\ \A y \in S : g[y] \in Int
  OBVIOUS
<1>9. /\ Sum(f, s) = f[x] + Sum(f, v) /\ Sum(g, s) = g[x] + Sum(g, v)
      /\ Sum(f, v) \in Int /\ Sum(g, v) \in Int
  <2>1. (\A y \in s : f[y] \in Int) /\ (\A y \in s : g[y] \in Int)
    BY <1>5, <1>8
  <2>2. (\A y \in v : f[y] \in Int) /\ (\A y \in v : g[y] \in Int) /\ IsFiniteSet(v)
    BY <1>5, <2>1, FS_Subset
  <2>3. Sum(f, s) = f[x] + Sum(f, v) /\ Sum(g, s) = g[x] + Sum(g, v)
    BY <1>5, <2>1, SumWithout
  <2>4. Sum(f, v) \in Int /\ Sum(g, v) \in Int
    <3> HIDE DEF v
    <3> QED
      BY <2>2, SumWithout
  <2> QED
    BY <2>3, <2>4
<1>10. Sum(g, v) = c * Sum(f, v) /\ g[x] = c * f[x] /\ f[x] \in Int
  BY <1>3, <1>4, <1>5
<1>11. c * (f[x] + Sum(f, v)) = c * f[x] + c * Sum(f, v)
  <2> DEFINE a == f[x]
             b == Sum(f, v)
  <2>1. a \in Int /\ b \in Int
    BY <1>9, <1>10
  <2> HIDE DEF a, b
  <2>2. c * (a + b) = c * a + c * b
    BY <2>1
  <2> QED
    BY <2>2 DEF a, b
<1> QED
  BY <1>a, <1>9, <1>10, <1>11

\* Natural numbers add up to one.
LEMMA SumIsNat ==
  ASSUME NEW S, IsFiniteSet(S), NEW f, \A x \in S : f[x] \in Nat
  PROVE  Sum(f, S) \in Nat
<1> DEFINE z == [x \in S |-> 0]
<1>1. \A x \in S : z[x] \in Int /\ f[x] \in Int /\ z[x] <= f[x] /\ z[x] = 0 * f[x]
  OBVIOUS
<1> HIDE DEF z
<1>2. Sum(f, S) \in Int
  BY <1>1, SumWithout
<1>3. Sum(z, S) <= Sum(f, S)
  BY <1>1, SumsOrdered
<1>4. Sum(z, S) = 0 * Sum(f, S)
  BY <1>1, SumScaled
<1> QED
  BY <1>2, <1>3, <1>4

\* One for each element adds up to how many there are.
LEMMA SumOfOnes ==
  ASSUME NEW S, IsFiniteSet(S), NEW f, \A x \in S : f[x] = 1
  PROVE  Sum(f, S) = Cardinality(S)
<1> DEFINE T == {s \in SUBSET S : Sum(f, s) # Cardinality(s)}
<1>1. SUFFICES ASSUME T # {} PROVE FALSE
  OBVIOUS
<1>2. T \subseteq SUBSET S
  OBVIOUS
<1>3. \A s \in SUBSET S : s \in T \/ Sum(f, s) = Cardinality(s)
  OBVIOUS
<1>a. \A s \in T : Sum(f, s) # Cardinality(s)
  OBVIOUS
<1> HIDE DEF T
<1>4. PICK s \in T : \A t \in T : t \subseteq s => t = s
  BY <1>1, <1>2, Smallest
<1>5. IsFiniteSet(s) /\ s \in SUBSET S
  BY <1>2, FS_Subset
<1>6. s # {}
  BY <1>a, SumOfNothing, FS_EmptySet
<1>7. PICK x \in s : TRUE
  BY <1>6
<1>8. Sum(f, s) = f[x] + Sum(f, s \ {x}) /\ f[x] = 1
  <2>1. \A y \in s : f[y] \in Int
    BY <1>5
  <2> QED
    BY <1>5, <2>1, SumWithout
<1>9. Sum(f, s \ {x}) = Cardinality(s \ {x})
  BY <1>3, <1>4, <1>5
<1>10. Cardinality(s \ {x}) = Cardinality(s) - 1 /\ Cardinality(s) \in Nat
  BY <1>5, FS_RemoveElement, FS_CardinalityType
<1> QED
  BY <1>a, <1>8, <1>9, <1>10

-----------------------------------------------------------------------------
(* Sorting *)

\* A place in an order by keys, equal keys in their given order: how many are not after it.
Before(key, j, i) == key[j] < key[i] \/ (j <= i /\ ~(key[i] < key[j]))
Place(key, i) == Cardinality({j \in DOMAIN key : Before(key, j, i)})

\* Such an order is total.
LEMMA BeforeIsOrder ==
  ASSUME NEW n \in Nat, NEW key, \A x \in 1..n : key[x] \in Int,
         NEW i \in 1..n, NEW j \in 1..n
  PROVE  /\ Before(key, i, i)
         /\ Before(key, i, j) \/ Before(key, j, i)
         /\ Before(key, i, j) /\ Before(key, j, i) => i = j
         /\ Before(key, i, j) => key[i] <= key[j]
         /\ \A k \in 1..n : Before(key, i, j) /\ Before(key, j, k) => Before(key, i, k)
BY DEF Before

\* Places are the numbers up to n.
LEMMA PlaceRange ==
  ASSUME NEW n \in Nat, NEW key, DOMAIN key = 1..n, \A x \in 1..n : key[x] \in Int, NEW i \in 1..n
  PROVE  Place(key, i) \in 1..n
<1> DEFINE D == {j \in 1..n : Before(key, j, i)}
<1>1. Place(key, i) = Cardinality(D)
  BY DEF Place
<1>2. IsFiniteSet(1..n) /\ Cardinality(1..n) = n
  BY FS_Interval
<1>3. D \in SUBSET (1..n) /\ i \in D
  BY BeforeIsOrder
<1> HIDE DEF D
<1>a. IsFiniteSet(D) /\ Cardinality(D) <= n
  <2>1. IsFiniteSet(D) /\ Cardinality(D) <= Cardinality(1..n)
    BY <1>2, <1>3, FS_Subset
  <2> QED
    BY <1>2, <2>1
<1>4. IsFiniteSet(D) /\ Cardinality(D) <= n /\ Cardinality(D) \in Nat
  BY <1>a, FS_CardinalityType
<1>5. Cardinality(D) # 0
  BY <1>3, <1>4, FS_EmptySet
<1> QED
  BY <1>1, <1>4, <1>5

\* Whoever comes before another has a smaller place.
LEMMA PlaceGrows ==
  ASSUME NEW n \in Nat, NEW key, DOMAIN key = 1..n, \A x \in 1..n : key[x] \in Int,
         NEW i \in 1..n, NEW j \in 1..n, i # j, Before(key, i, j)
  PROVE  Place(key, i) < Place(key, j)
<1> DEFINE D == {k \in 1..n : Before(key, k, i)}
           E == {k \in 1..n : Before(key, k, j)}
<1>1. Place(key, i) = Cardinality(D) /\ Place(key, j) = Cardinality(E)
  BY DEF Place
<1>2. D \subseteq E
  <2>1. \A k \in 1..n : Before(key, k, i) => Before(key, k, j)
    BY BeforeIsOrder
  <2> QED
    BY <2>1
<1>3. j \in E /\ j \notin D /\ E \in SUBSET (1..n)
  BY BeforeIsOrder
<1>4. IsFiniteSet(1..n)
  BY FS_Interval
<1> HIDE DEF D, E
<1>5. IsFiniteSet(E)
  BY <1>3, <1>4, FS_Subset
<1>6. Cardinality(D) <= Cardinality(E) /\ Cardinality(D) # Cardinality(E) /\ IsFiniteSet(D)
  BY <1>2, <1>3, <1>5, FS_Subset
<1>7. Cardinality(D) \in Nat /\ Cardinality(E) \in Nat
  BY <1>5, <1>6, FS_CardinalityType
<1> QED
  BY <1>1, <1>6, <1>7

\* Each of them is taken by one.
LEMMA PlacesTaken ==
  ASSUME NEW n \in Nat, NEW key, DOMAIN key = 1..n, \A x \in 1..n : key[x] \in Int
  PROVE  /\ \A i, j \in 1..n : Place(key, i) = Place(key, j) => i = j
         /\ \A p \in 1..n : \E i \in 1..n : Place(key, i) = p
<1>1. ASSUME NEW i \in 1..n, NEW j \in 1..n, Place(key, i) = Place(key, j) PROVE i = j
  <2>1. SUFFICES ASSUME i # j PROVE FALSE
    OBVIOUS
  <2>2. Before(key, i, j) \/ Before(key, j, i)
    BY BeforeIsOrder
  <2>3. Place(key, i) \in 1..n /\ Place(key, j) \in 1..n
    BY PlaceRange
  <2>4. Place(key, i) < Place(key, j) \/ Place(key, j) < Place(key, i)
    BY <2>1, <2>2, PlaceGrows
  <2> QED
    BY <1>1, <2>3, <2>4
<1> DEFINE f == [i \in 1..n |-> Place(key, i)]
<1>2. f \in Injection(1..n, 1..n)
  <2>1. f \in [1..n -> 1..n]
    BY PlaceRange
  <2>2. \A i, j \in 1..n : f[i] = f[j] => i = j
    BY <1>1
  <2> QED
    BY <2>1, <2>2 DEF Injection, IsInjective
<1>3. IsFiniteSet(1..n)
  BY FS_Interval
<1>4. f \in Surjection(1..n, 1..n)
  <2> HIDE DEF f
  <2> QED
    BY <1>2, <1>3, FS_Injection
<1>5. ASSUME NEW p \in 1..n PROVE \E i \in 1..n : Place(key, i) = p
  BY <1>4 DEF Surjection
<1> QED
  BY <1>1, <1>5

-----------------------------------------------------------------------------
(* Reading a history *)

\* What the dates of a job come to.
LEMMA SpanOfJob ==
  ASSUME NEW j \in Employments, NEW now \in Nat
  PROVE  /\ Span(j, now).start = j.start /\ j.start \in Nat
         /\ Span(j, now).end \in Nat /\ j.start <= Span(j, now).end
         /\ j.end # NoYear => Span(j, now).end = Later(j.end, j.start)
         /\ j.end = NoYear => Span(j, now).end = Later(now, j.start)
         /\ j.end \in Nat
BY DEF Employments, Span, Later

\* The jobs of a history by their starts: at[p] is the one at place p.
ByStart(h, at) ==
  /\ DOMAIN Spans(h) = 1..Len(h) /\ at \in [1..Len(h) -> 1..Len(h)]
  /\ \A p \in 1..Len(h) : Spans(h)[p] = Span(h[at[p]], AnalyzerNow)
  /\ \A p, q \in 1..Len(h) : p <= q => h[at[p]].start <= h[at[q]].start
  /\ \A p, q \in 1..Len(h) : at[p] = at[q] => p = q
  /\ \A i \in 1..Len(h) : \E p \in 1..Len(h) : at[p] = i

\* Sorting leaves every job in the history, and none twice.
LEMMA SpansByStart ==
  ASSUME NEW h \in Seq(Employments)
  PROVE  \E at : ByStart(h, at)
<1> DEFINE n == Len(h)
           u == [i \in DOMAIN h |-> Span(h[i], AnalyzerNow)]
           key == [i \in 1..n |-> h[i].start]
           place(i) == Cardinality({j \in DOMAIN u : u[j].start < u[i].start \/ (j <= i /\ ~(u[i].start < u[j].start))})
           at == [p \in 1..n |-> CHOOSE i \in DOMAIN u : place(i) = p]
<1>1. Spans(h) = [p \in DOMAIN u |-> u[CHOOSE i \in DOMAIN u : place(i) = p]]
  BY DEF Spans, Sorted
<1>2. n \in Nat /\ DOMAIN h = 1..n /\ DOMAIN u = 1..n /\ DOMAIN key = 1..n /\ \A i \in 1..n : h[i] \in Employments
  OBVIOUS
<1>3. \A i \in 1..n : u[i] = Span(h[i], AnalyzerNow) /\ u[i].start = key[i] /\ key[i] = h[i].start /\ key[i] \in Int
  <2>1. AnalyzerNow \in Nat
    BY DEF AnalyzerNow
  <2> QED
    BY <1>2, <2>1, SpanOfJob
<1>4. ASSUME NEW i \in 1..n PROVE place(i) = Place(key, i)
  <2>1. \A j \in 1..n : (u[j].start < u[i].start \/ (j <= i /\ ~(u[i].start < u[j].start))) <=> Before(key, j, i)
    BY <1>3 DEF Before
  <2>2. {j \in DOMAIN u : u[j].start < u[i].start \/ (j <= i /\ ~(u[i].start < u[j].start))}
          = {j \in DOMAIN key : Before(key, j, i)}
    BY <1>2, <2>1
  <2> QED
    BY <2>2 DEF Place
<1>5. ASSUME NEW p \in 1..n PROVE at[p] \in 1..n /\ Place(key, at[p]) = p
  <2>1. \E i \in 1..n : Place(key, i) = p
    <3> HIDE DEF n, key, u, at
    <3> QED
      BY <1>2, <1>3, PlacesTaken
  <2>2. \E i \in DOMAIN u : place(i) = p
    BY <1>2, <1>4, <2>1
  <2>3. at[p] \in 1..n /\ place(at[p]) = p
    <3>1. at[p] = CHOOSE i \in DOMAIN u : place(i) = p
      OBVIOUS
    <3> HIDE DEF place, u
    <3> QED
      BY <1>2, <2>2, <3>1
  <2> QED
    BY <1>4, <2>3
<1>6. ASSUME NEW p \in 1..n PROVE Spans(h)[p] = Span(h[at[p]], AnalyzerNow)
  <2>1. Spans(h)[p] = u[at[p]]
    BY <1>1, <1>2
  <2> QED
    BY <1>3, <1>5, <2>1
<1>7. DOMAIN Spans(h) = 1..n /\ at \in [1..n -> 1..n]
  BY <1>1, <1>2, <1>5
<1> HIDE DEF n, u, key, place, at
<1>8. ASSUME NEW p \in 1..n, NEW q \in 1..n, p <= q PROVE h[at[p]].start <= h[at[q]].start
  <2>1. at[p] \in 1..n /\ at[q] \in 1..n /\ Place(key, at[p]) = p /\ Place(key, at[q]) = q
    BY <1>5
  <2>2. Before(key, at[p], at[q])
    <3>1. CASE at[p] = at[q]
      BY <1>2, <1>3, <2>1, <3>1, BeforeIsOrder
    <3>2. CASE at[p] # at[q] /\ ~Before(key, at[p], at[q])
      <4>1. Before(key, at[q], at[p])
        BY <1>2, <1>3, <2>1, <3>2, BeforeIsOrder
      <4>2. Place(key, at[q]) < Place(key, at[p])
        BY <1>2, <1>3, <2>1, <3>2, <4>1, PlaceGrows
      <4> QED
        BY <1>2, <1>8, <2>1, <4>2
    <3> QED
      BY <3>1, <3>2
  <2>3. key[at[p]] <= key[at[q]]
    BY <1>2, <1>3, <2>1, <2>2, BeforeIsOrder
  <2> QED
    BY <1>3, <2>1, <2>3
<1>9. \A p, q \in 1..n : at[p] = at[q] => p = q
  BY <1>5
<1>10. \A i, j \in 1..n : Place(key, i) = Place(key, j) => i = j
  BY <1>2, <1>3, PlacesTaken
<1>11. ASSUME NEW i \in 1..n PROVE \E p \in 1..n : at[p] = i
  <2> DEFINE p == Place(key, i)
  <2>1. p \in 1..n
    BY <1>2, <1>3, PlaceRange
  <2>2. at[p] \in 1..n /\ Place(key, at[p]) = Place(key, i)
    BY <1>5, <2>1
  <2>3. at[p] = i
    <3> HIDE DEF p
    <3> QED
      BY <1>10, <2>2
  <2> QED
    BY <2>1, <2>3
<1>12. n = Len(h)
  BY DEF n
<1> QED
  BY <1>6, <1>7, <1>8, <1>9, <1>11, <1>12 DEF ByStart

\* A gap is between a job and the next one by their starts.
LEMMA GapsOfJobs ==
  ASSUME NEW h \in Seq(Employments)
  PROVE  /\ Total(Gaps(h)) \in Nat
         /\ Total(Gaps(h)) > 0 =>
              \E p \in 1..Len(h) - 1 : Spans(h)[p + 1].start > Spans(h)[p].end
<1> DEFINE g == Gaps(h)
           s == Spans(h)
           P == 1..Len(h) - 1
<1>1. PICK at : ByStart(h, at)
  BY SpansByStart
<1>2. Len(h) \in Nat /\ \A i \in 1..Len(h) : h[i] \in Employments
  OBVIOUS
<1>3. ASSUME NEW p \in 1..Len(h) PROVE s[p].start \in Nat /\ s[p].end \in Nat
  <2>1. at[p] \in 1..Len(h) /\ s[p] = Span(h[at[p]], AnalyzerNow)
    BY <1>1 DEF ByStart
  <2>2. h[at[p]] \in Employments /\ AnalyzerNow \in Nat
    BY <1>2, <2>1 DEF AnalyzerNow
  <2>3. /\ Span(h[at[p]], AnalyzerNow).start \in Nat
        /\ Span(h[at[p]], AnalyzerNow).end \in Nat
    BY <2>2, SpanOfJob
  <2> QED
    BY <2>1, <2>3
<1>4. DOMAIN g = P /\ \A p \in P : g[p] = Later(s[p + 1].start - s[p].end, 0)
  BY DEF Gaps
<1>5. IsFiniteSet(P)
  BY <1>2, FS_Interval
<1>6. Total(g) = Sum(g, P)
  BY <1>4 DEF Total, Sum
<1> HIDE DEF g, s
<1>7. ASSUME NEW p \in P PROVE g[p] \in Nat /\ (g[p] > 0 => s[p + 1].start > s[p].end)
  <2>1. p \in 1..Len(h) /\ p + 1 \in 1..Len(h)
    BY <1>2
  <2>2. s[p + 1].start \in Nat /\ s[p].end \in Nat
    BY <1>3, <2>1
  <2> QED
    BY <1>4, <2>2 DEF Later
<1> HIDE DEF P
<1>8. Sum(g, P) \in Nat
  BY <1>5, <1>7, SumIsNat
<1>9. ASSUME Sum(g, P) > 0 PROVE \E p \in P : g[p] > 0
  <2>1. SUFFICES ASSUME \A p \in P : ~(g[p] > 0) PROVE FALSE
    OBVIOUS
  <2>2. \A p \in P : g[p] \in Int /\ g[p] = 0 * g[p]
    BY <1>7, <2>1
  <2>3. Sum(g, P) = 0 * Sum(g, P)
    BY <1>5, <2>2, SumScaled
  <2> QED
    BY <1>8, <1>9, <2>3
<1>10. Sum(g, P) > 0 => \E p \in P : s[p + 1].start > s[p].end
  BY <1>7, <1>9
<1> QED
  BY <1>6, <1>8, <1>10 DEF g, s, P

\* The smaller of two numbers.
LEMMA MinOfTwo ==
  ASSUME NEW a \in Int, NEW b \in Int
  PROVE  Min({a, b}) = IF a <= b THEN a ELSE b
<1>1. \E m \in {a, b} : \A y \in {a, b} : m =< y
  OBVIOUS
<1>2. Min({a, b}) \in {a, b} /\ \A y \in {a, b} : Min({a, b}) =< y
  BY <1>1 DEF Min
<1> QED
  BY <1>2

\* Points are taken up to 24, and only if there is a gap.
LEMMA PenaltyOfGaps ==
  ASSUME NEW h \in Seq(Employments)
  PROVE  /\ GapPenalty(h) \in 0..24
         /\ GapPenalty(h) > 0 => \E p \in 1..Len(h) - 1 : Spans(h)[p + 1].start > Spans(h)[p].end
<1>1. CASE Len(h) < 2
  BY <1>1 DEF GapPenalty
<1>2. CASE ~(Len(h) < 2)
  <2> DEFINE t == Total(Gaps(h))
  <2>1. t \in Nat /\ (t > 0 => \E p \in 1..Len(h) - 1 : Spans(h)[p + 1].start > Spans(h)[p].end)
    BY GapsOfJobs
  <2>2. GapPenalty(h) = Min({24, 8 * t})
    BY <1>2 DEF GapPenalty
  <2> HIDE DEF t
  <2>3. Min({24, 8 * t}) = IF 24 <= 8 * t THEN 24 ELSE 8 * t
    BY <2>1, MinOfTwo
  <2>4. GapPenalty(h) \in 0..24 /\ (GapPenalty(h) > 0 => t > 0)
    <3>1. CASE 24 <= 8 * t
      <4>1. GapPenalty(h) = 24 /\ t > 0
        BY <2>1, <2>2, <2>3, <3>1
      <4> QED
        BY <4>1
    <3>2. CASE ~(24 <= 8 * t)
      <4>1. GapPenalty(h) = 8 * t
        BY <2>2, <2>3, <3>2
      <4>2. 8 * t \in 0..24 /\ (8 * t > 0 => t > 0)
        BY <2>1, <3>2
      <4> QED
        BY <4>1, <4>2
    <3> QED
      BY <3>1, <3>2
  <2> QED
    BY <2>1, <2>4
<1> QED
  BY <1>1, <1>2

\* The analyzer's result is a score like the experts', and heard.
LEMMA StabilityInRange ==
  ASSUME NEW h \in Seq(Employments)
  PROVE  StabilityScore(h) \in Scores /\ StabilityConfidence(h) \in 1..10
<1>1. TenureScore(h) \in {90, 80, 65, 40}
  BY DEF TenureScore
<1>2. GapPenalty(h) \in 0..24
  BY PenaltyOfGaps
<1>3. StabilityScore(h) = 60 \/ StabilityScore(h) = Later(TenureScore(h) - GapPenalty(h), 0)
  BY DEF StabilityScore
<1>4. Later(TenureScore(h) - GapPenalty(h), 0) \in 0..100
  <2> DEFINE a == TenureScore(h)
             b == GapPenalty(h)
  <2>1. a \in {90, 80, 65, 40} /\ b \in 0..24
    BY <1>1, <1>2
  <2> HIDE DEF a, b
  <2>2. Later(a - b, 0) \in 0..100
    BY <2>1 DEF Later
  <2> QED
    BY <2>2 DEF a, b
<1>5. StabilityScore(h) \in Scores
  BY <1>3, <1>4 DEF Scores
<1> QED
  BY <1>5 DEF StabilityConfidence

\* What the analyzer takes for the length of a job is at most what the hard filter counts.
LEMMA CoveredByJob ==
  ASSUME NEW h \in Seq(Employments), NEW i \in 1..Len(h), h[i].start # NoYear
  PROVE  /\ Span(h[i], AnalyzerNow).end <= Span(h[i], Now).end
         /\ Span(h[i], Now).start..Span(h[i], Now).end - 1 \subseteq CoveredYears(h)
<1>1. h[i] \in Employments /\ i \in Dated(h) /\ DOMAIN h = 1..Len(h)
  BY DEF Dated
<1>2. Now \in Nat /\ AnalyzerNow \in Nat /\ AnalyzerNow <= Now
  BY NowAssumption DEF AnalyzerNow
<1>3. Span(h[i], AnalyzerNow).end <= Span(h[i], Now).end
  BY <1>1, <1>2 DEF Span, Later, Employments
<1>4. Span(h[i], Now).start..Span(h[i], Now).end - 1 \subseteq CoveredYears(h)
  BY <1>1 DEF CoveredYears
<1> QED
  BY <1>3, <1>4

\* Years are covered for a finite number of years.
LEMMA CoveredFinite ==
  ASSUME NEW h \in Seq(Employments)
  PROVE  IsFiniteSet(CoveredYears(h)) /\ CoveredYears(h) \subseteq Nat
<1>1. Now \in Nat
  BY NowAssumption
<1> DEFINE lasting(i) == Span(h[i], Now).start..Span(h[i], Now).end - 1
           f == [i \in 1..Len(h) |-> lasting(i)]
           all == {f[i] : i \in Dated(h)}
<1>2. ASSUME NEW i \in 1..Len(h) PROVE IsFiniteSet(f[i]) /\ f[i] \subseteq Nat
  <2>1. h[i] \in Employments
    OBVIOUS
  <2>2. Span(h[i], Now).start \in Nat /\ Span(h[i], Now).end \in Nat
    BY <1>1, <2>1, SpanOfJob
  <2>3. \A a, b \in Nat : IsFiniteSet(a..b - 1) /\ a..b - 1 \subseteq Nat
    <3> TAKE a, b \in Nat
    <3>1. a \in Int /\ b - 1 \in Int
      OBVIOUS
    <3>2. IsFiniteSet(a..b - 1)
      BY <3>1, FS_Interval
    <3> QED
      BY <3>2
  <2>4. f[i] = lasting(i)
    OBVIOUS
  <2> QED
    BY <2>2, <2>3, <2>4
<1>3. Dated(h) \subseteq 1..Len(h) /\ IsFiniteSet(1..Len(h))
  BY FS_Interval DEF Dated
<1>4. CoveredYears(h) = UNION all
  BY <1>3 DEF CoveredYears
<1>5. IsFiniteSet(all)
  <2>1. f \in Surjection(1..Len(h), {f[i] : i \in 1..Len(h)})
    BY DEF Surjection
  <2> HIDE DEF f
  <2>2. IsFiniteSet({f[i] : i \in 1..Len(h)})
    BY <1>3, <2>1, FS_Surjection
  <2>3. all \subseteq {f[i] : i \in 1..Len(h)}
    BY <1>3
  <2> QED
    BY <2>2, <2>3, FS_Subset
<1>6. \A t \in all : IsFiniteSet(t) /\ t \subseteq Nat
  BY <1>2, <1>3
<1> HIDE DEF all
<1>7. IsFiniteSet(UNION all)
  BY <1>5, <1>6, FS_UNION
<1> QED
  BY <1>4, <1>6, <1>7

\* Two years of tenure on average are two years of one job at least, which the hard filter counts.
LEMMA TenureInDates ==
  ASSUME NEW h \in Seq(Employments)
  PROVE  TenureIsDated(h)
<1> SUFFICES ASSUME StabilityScore(h) >= 80, Dated(h) = DOMAIN h
             PROVE  2 * Cardinality(DOMAIN Tenures(h)) <= Total(Tenures(h)) /\ CandidateYears(h) >= 2
  BY DEF TenureIsDated
<1> DEFINE n == Len(h)
           s == Spans(h)
           P == {p \in 1..n : s[p].end > s[p].start}
           f == Tenures(h)
<1>1. PICK at : ByStart(h, at)
  BY SpansByStart
<1>2. /\ n \in Nat /\ DOMAIN h = 1..n /\ DOMAIN s = 1..n
      /\ \A p \in 1..n : at[p] \in 1..n /\ s[p] = Span(h[at[p]], AnalyzerNow)
  BY <1>1 DEF ByStart
<1>3. /\ DOMAIN f = P /\ \A p \in P : f[p] = s[p].end - s[p].start
  BY <1>2 DEF Tenures
<1>4. IsFiniteSet(P)
  <2>1. IsFiniteSet(1..n) /\ P \subseteq 1..n
    BY <1>2, FS_Interval
  <2> QED
    BY <2>1, FS_Subset
<1>5. ASSUME NEW p \in P PROVE f[p] \in Nat
  <2>1. h[at[p]] \in Employments /\ AnalyzerNow \in Nat
    BY <1>2 DEF AnalyzerNow
  <2>2. Span(h[at[p]], AnalyzerNow).start \in Nat /\ Span(h[at[p]], AnalyzerNow).end \in Nat
    BY <2>1, SpanOfJob
  <2>3. s[p].start \in Nat /\ s[p].end \in Nat /\ s[p].end > s[p].start
    BY <1>2, <2>2
  <2> QED
    BY <1>3, <2>3
<1>6. Total(f) = Sum(f, P)
  BY <1>3 DEF Total, Sum
<1>7. TenureScore(h) >= 80
  <2> DEFINE a == TenureScore(h)
             b == GapPenalty(h)
  <2>1. a \in {90, 80, 65, 40} /\ b \in 0..24
    BY PenaltyOfGaps DEF TenureScore
  <2>2. StabilityScore(h) = 60 \/ StabilityScore(h) = Later(a - b, 0)
    BY DEF StabilityScore
  <2> HIDE DEF a, b
  <2>3. Later(a - b, 0) >= 80 => a >= 80
    BY <2>1 DEF Later
  <2>4. a >= 80
    BY <2>2, <2>3
  <2> QED
    BY <2>4 DEF a
<1> DEFINE jobs == Cardinality(P)
           years == Sum(f, P)
<1>8. jobs \in Nat /\ years \in Nat
  <2> HIDE DEF P, f
  <2> QED
    BY <1>4, <1>5, FS_CardinalityType, SumIsNat
<1>9. jobs > 0 /\ years >= 2 * jobs
  <2>1. TenureScore(h) = CASE jobs > 0 /\ years >= 3 * jobs -> 90
                           [] jobs > 0 /\ years >= 2 * jobs /\ years < 3 * jobs -> 80
                           [] jobs > 0 /\ years >= jobs /\ years < 2 * jobs -> 65
                           [] OTHER -> 40
    BY <1>3, <1>6 DEF TenureScore
  <2> HIDE DEF jobs, years
  <2> QED
    BY <1>7, <1>8, <2>1
<1>10. PICK p \in P : f[p] >= 2
  <2>1. SUFFICES ASSUME \A p \in P : ~(f[p] >= 2) PROVE FALSE
    OBVIOUS
  <2> DEFINE ones == [p \in P |-> 1]
  <2>2. \A p \in P : f[p] \in Int /\ ones[p] \in Int /\ f[p] <= ones[p] /\ ones[p] = 1
    BY <1>5, <2>1
  <2> HIDE DEF P, f, ones
  <2>3. Sum(f, P) <= Sum(ones, P)
    BY <1>4, <2>2, SumsOrdered
  <2>4. Sum(ones, P) = Cardinality(P)
    BY <1>4, <2>2, SumOfOnes
  <2> QED
    BY <1>8, <1>9, <2>3, <2>4
<1>11. CandidateYears(h) >= 2
  <2> DEFINE i == at[p]
             a == Span(h[i], Now).start
  <2>1. p \in 1..n /\ i \in 1..n /\ h[i] \in Employments /\ h[i].start # NoYear
    BY <1>2 DEF Dated
  <2>2. s[p].start = h[i].start /\ s[p].end = Span(h[i], AnalyzerNow).end /\ s[p].end \in Nat /\ h[i].start \in Nat
    <3>1. AnalyzerNow \in Nat
      BY DEF AnalyzerNow
    <3> QED
      BY <1>2, <2>1, <3>1, SpanOfJob
  <2>3. Span(h[i], AnalyzerNow).end >= h[i].start + 2
    BY <1>3, <1>10, <2>2
  <2>4. a = h[i].start /\ a \in Nat /\ Span(h[i], Now).end \in Nat
    BY <2>1, NowAssumption, SpanOfJob
  <2>5. /\ Span(h[i], AnalyzerNow).end <= Span(h[i], Now).end
        /\ a..Span(h[i], Now).end - 1 \subseteq CoveredYears(h)
    <3>1. i \in 1..Len(h)
      BY <2>1
    <3> HIDE DEF i
    <3> QED
      BY <2>1, <3>1, CoveredByJob
  <2>6. a \in CoveredYears(h) /\ a + 1 \in CoveredYears(h)
    <3> DEFINE b == Span(h[i], Now).end
               c == Span(h[i], AnalyzerNow).end
    <3>1. a \in Nat /\ b \in Nat /\ c \in Nat /\ c <= b /\ c >= a + 2
      BY <2>2, <2>3, <2>4, <2>5
    <3>2. a..b - 1 \subseteq CoveredYears(h)
      BY <2>5
    <3> HIDE DEF a, b, c
    <3>3. a \in a..b - 1 /\ a + 1 \in a..b - 1
      BY <3>1
    <3> QED
      BY <3>2, <3>3
  <2>7. Cardinality(a..a + 1) = 2 /\ a..a + 1 \subseteq CoveredYears(h)
    <3> HIDE DEF a
    <3>1. a \in Int /\ a + 1 \in Int /\ ~(a > a + 1) /\ (a + 1) - a + 1 = 2
      BY <2>4
    <3>2. Cardinality(a..a + 1) = 2
      BY <3>1, FS_Interval
    <3>3. \A y \in a..a + 1 : y = a \/ y = a + 1
      BY <2>4
    <3> QED
      BY <2>6, <3>2, <3>3
  <2> HIDE DEF a
  <2>8. Cardinality(a..a + 1) <= Cardinality(CoveredYears(h)) /\ Cardinality(CoveredYears(h)) \in Nat
    BY <2>7, CoveredFinite, FS_Subset, FS_CardinalityType
  <2> QED
    BY <2>7, <2>8 DEF CandidateYears
<1> QED
  BY <1>3, <1>6, <1>9, <1>11

\* Between two jobs next to each other by their starts somebody was without a job, or one of the
\* misreadings is at work.
LEMMA GapInDates ==
  ASSUME NEW h \in Seq(Employments)
  PROVE  GapIsReal(h)
<1> SUFFICES ASSUME GapPenalty(h) > 0, ~Nested(h), ~Overtaken(h)
             PROVE  Idle(h)
  BY DEF GapIsReal
<1> DEFINE n == Len(h)
           span(i) == Span(h[i], AnalyzerNow)
           real(i) == Span(h[i], Now)
<1>1. PICK at : ByStart(h, at)
  BY SpansByStart
<1>2. PICK p \in 1..n - 1 : Spans(h)[p + 1].start > Spans(h)[p].end
  BY PenaltyOfGaps
<1>3. n \in Nat /\ DOMAIN h = 1..n /\ p \in 1..n /\ p + 1 \in 1..n
  OBVIOUS
<1> DEFINE i == at[p]
           k == at[p + 1]
<1>4. i \in 1..n /\ k \in 1..n /\ i # k /\ h[i].start <= h[k].start
  <2>1. p # p + 1 /\ p <= p + 1
    BY <1>3
  <2>2. i \in 1..n /\ k \in 1..n /\ i # k
    BY <1>1, <1>3, <2>1 DEF ByStart
  <2>3. h[i].start <= h[k].start
    BY <1>1, <1>3, <2>1 DEF ByStart
  <2> QED
    BY <2>2, <2>3
<1>5. ASSUME NEW j \in 1..n
      PROVE  /\ span(j).start = h[j].start /\ real(j).start = h[j].start /\ h[j].start \in Nat
             /\ span(j).end \in Nat /\ real(j).end \in Nat
             /\ h[j].end # NoYear => span(j).end = real(j).end
             /\ h[j].end = NoYear => span(j).end >= AnalyzerNow
  <2>1. h[j] \in Employments /\ Now \in Nat /\ AnalyzerNow \in Nat
    BY <1>3, NowAssumption DEF AnalyzerNow
  <2>2. h[j].end = NoYear => span(j).end = Later(AnalyzerNow, h[j].start)
    BY <2>1, SpanOfJob
  <2>3. h[j].start \in Nat => Later(AnalyzerNow, h[j].start) >= AnalyzerNow
    BY <2>1 DEF Later
  <2>4. /\ span(j).start = h[j].start /\ real(j).start = h[j].start /\ h[j].start \in Nat
        /\ span(j).end \in Nat /\ real(j).end \in Nat
        /\ h[j].end # NoYear => span(j).end = real(j).end
    BY <2>1, SpanOfJob
  <2> QED
    BY <2>2, <2>3, <2>4
<1>6. h[k].start > span(i).end
  <2>1. Spans(h)[p + 1] = span(k) /\ Spans(h)[p] = span(i)
    BY <1>1, <1>3 DEF ByStart
  <2> QED
    BY <1>2, <1>4, <1>5, <2>1
<1>7. ASSUME NEW j \in 1..n, j # k, h[j].start <= h[k].start, h[j].end = NoYear
      PROVE  h[k].start <= span(j).end
  <2>1. ~(h[k].start > AnalyzerNow)
    BY <1>3, <1>4, <1>7 DEF Overtaken
  <2> QED
    BY <1>4, <1>5, <1>7, <2>1, SMTT(20) DEF AnalyzerNow
<1> HIDE DEF n, i, k, span, real
<1>8. real(i).end = span(i).end
  <2>1. h[i].end # NoYear
    <3>1. SUFFICES ASSUME h[i].end = NoYear PROVE FALSE
      OBVIOUS
    <3>2. h[k].start <= span(i).end
      BY <1>4, <1>7, <3>1
    <3>3. h[k].start \in Nat /\ span(i).end \in Nat
      BY <1>4, <1>5
    <3> QED
      BY <1>6, <3>2, <3>3
  <2> QED
    BY <1>4, <1>5, <2>1
<1>9. real(i).end \notin CoveredYears(h)
  <2>1. SUFFICES ASSUME real(i).end \in CoveredYears(h) PROVE FALSE
    OBVIOUS
  <2>2. PICK j \in 1..n : real(i).end \in real(j).start..real(j).end - 1
    BY <1>3, <2>1 DEF CoveredYears, Dated, real
  <2>3. /\ h[j].start <= span(i).end /\ span(i).end < real(j).end
        /\ span(i).end \in Nat /\ real(j).end \in Nat /\ span(j).end \in Nat
        /\ h[i].start \in Nat /\ h[j].start \in Nat /\ h[k].start \in Nat
    <3>1. /\ real(j).start = h[j].start /\ h[j].start \in Nat /\ real(j).end \in Nat /\ span(j).end \in Nat
          /\ span(i).end \in Nat /\ h[i].start \in Nat /\ h[k].start \in Nat
      BY <1>4, <1>5
    <3> QED
      BY <1>8, <2>2, <3>1
  <2>4. j # i /\ h[j].start < h[k].start
    BY <1>6, <1>8, <2>3
  <2>5. h[j].start <= h[i].start
    <3>1. PICK q \in 1..n : at[q] = j
      BY <1>1 DEF ByStart, n
    <3>2. ~(p + 1 <= q)
      <4>1. SUFFICES ASSUME p + 1 <= q PROVE FALSE
        OBVIOUS
      <4>2. h[at[p + 1]].start <= h[at[q]].start
        BY <1>1, <1>3, <3>1, <4>1 DEF ByStart, n
      <4> QED
        BY <2>3, <2>4, <3>1, <4>2 DEF k
    <3>3. q <= p
      BY <1>3, <3>2
    <3>4. h[at[q]].start <= h[at[p]].start
      BY <1>1, <1>3, <3>3 DEF ByStart, n
    <3> QED
      BY <3>1, <3>4 DEF i
  <2>6. span(i).end <= span(j).end
    <3>1. CASE h[j].end # NoYear
      BY <1>5, <2>3, <3>1
    <3>2. CASE h[j].end = NoYear
      <4>1. h[k].start <= span(j).end
        BY <1>7, <2>3, <2>4, <3>2
      <4> QED
        BY <1>6, <2>3, <4>1
    <3> QED
      BY <3>1, <3>2
  <2>7. span(j).start = h[j].start /\ span(i).start = h[i].start
    BY <1>4, <1>5
  <2>8. Within(span(i), span(j))
    BY <2>5, <2>6, <2>7 DEF Within
  <2>9. Nested(h)
    BY <1>3, <1>4, <2>4, <2>8 DEF Nested, span
  <2> QED
    BY <2>9
<1>10. real(i).end < real(k).start
  BY <1>4, <1>5, <1>6, <1>8
<1> QED
  BY <1>3, <1>4, <1>9, <1>10 DEF Idle, real

-----------------------------------------------------------------------------
(* The verdict *)

\* There are finitely many members of the panel.
LEMMA MembersFinite == IsFiniteSet(Members) /\ Stability \in Members
<1>1. Panel \in Seq(Experts)
  BY RoundtableAssumption
<1>2. DOMAIN Panel = 1..Len(Panel) /\ IsFiniteSet(1..Len(Panel))
  BY <1>1, FS_Interval
<1>3. Panel \in Surjection(1..Len(Panel), Experts)
  BY <1>1, <1>2 DEF Surjection, Experts
<1>4. IsFiniteSet(Experts)
  BY <1>2, <1>3, FS_Surjection
<1> QED
  BY <1>4, FS_AddElement DEF Members

\* Rounded to tenths, a mean that lies between two whole numbers stays between them.
LEMMA RoundedWithin ==
  ASSUME NEW num \in Nat, NEW den \in Nat \ {0}, NEW lo \in Nat, NEW hi \in Nat,
         lo * den <= num, num <= hi * den
  PROVE  10 * lo <= (20 * num + den) \div (2 * den) /\ (20 * num + den) \div (2 * den) <= 10 * hi
<1> DEFINE y == 2 * den
           x == 20 * num + den
           q == x \div y
<1>1. y \in Nat \ {0} /\ x \in Nat
  OBVIOUS
<1>2. q \in Int /\ y * q <= x /\ x < y * (q + 1)
  <2> HIDE DEF x, y
  <2> QED
    BY <1>1
<1>3. (20 * lo) * den <= 20 * num
  <2> DEFINE v == lo * den
  <2>1. v \in Nat /\ v <= num
    OBVIOUS
  <2>2. (20 * lo) * den = 20 * v
    OBVIOUS
  <2> HIDE DEF v
  <2> QED
    BY <2>1, <2>2
<1>4. 20 * num <= (20 * hi) * den
  <2> DEFINE v == hi * den
  <2>1. v \in Nat /\ num <= v
    OBVIOUS
  <2>2. (20 * hi) * den = 20 * v
    OBVIOUS
  <2> HIDE DEF v
  <2> QED
    BY <2>1, <2>2
<1>5. 10 * lo <= q
  <2>1. SUFFICES ASSUME q + 1 <= 10 * lo PROVE FALSE
    BY <1>2
  <2>2. y * (q + 1) <= y * (10 * lo)
    BY <1>1, <1>2, <2>1
  <2>3. y * (10 * lo) = (20 * lo) * den
    OBVIOUS
  <2> QED
    BY <1>2, <1>3, <2>2, <2>3
<1>6. q <= 10 * hi
  <2>1. SUFFICES ASSUME 10 * hi + 1 <= q PROVE FALSE
    BY <1>2
  <2>2. y * (10 * hi + 1) <= y * q
    BY <1>1, <1>2, <2>1
  <2>3. y * (10 * hi + 1) = (20 * hi) * den + 2 * den
    OBVIOUS
  <2> QED
    BY <1>2, <1>4, <2>2, <2>3
<1> QED
  BY <1>5, <1>6

\* Some natural numbers have a least one.
LEMMA Least ==
  ASSUME NEW T, T \subseteq Nat, T # {}
  PROVE  \E x \in T : \A y \in T : x <= y
<1>1. \E x \in T : \A y \in T : ~(<<y, x>> \in OpToRel(<, Nat))
  BY NatLessThanWellFounded, WFMin
<1>2. \A x, y \in Nat : y < x => <<y, x>> \in OpToRel(<, Nat)
  BY DEF OpToRel
<1>3. PICK x \in T : \A y \in T : ~(<<y, x>> \in OpToRel(<, Nat))
  BY <1>1
<1>4. ASSUME NEW y \in T PROVE x <= y
  <2>1. x \in Nat /\ y \in Nat /\ ~(y < x)
    BY <1>2, <1>3
  <2> QED
    BY <2>1
<1> QED
  BY <1>4

\* The weighted mean lies between scores of members with weight.
LEMMA MeanWithin ==
  ASSUME NEW w \in [Members -> Nat], NEW c \in [Members -> 1..10], NEW s \in [Members -> Scores],
         NEW k \in Members, w[k] > 0
  PROVE  /\ \E m \in Members : w[m] > 0 /\ Mean(w, c, s) >= 10 * s[m]
         /\ \E m \in Members : w[m] > 0 /\ Mean(w, c, s) <= 10 * s[m]
         /\ Mean(w, c, s) \in 0..1000
<1> DEFINE H == {m \in Members : w[m] > 0}
           a == [m \in Members |-> Share(w, c, m)]
           b == [m \in Members |-> w[m] * c[m] * s[m]]
           den == Sum(a, Members)
           num == Sum(b, Members)
<1>1. ASSUME NEW m \in Members
      PROVE  /\ s[m] \in 0..100 /\ w[m] \in Nat /\ c[m] \in 1..10
             /\ a[m] = w[m] * c[m] /\ a[m] \in Nat /\ b[m] = a[m] * s[m] /\ b[m] \in Nat
  <2>1. s[m] \in 0..100 /\ w[m] \in Nat /\ c[m] \in 1..10
    BY DEF Scores
  <2>2. a[m] = w[m] * c[m] /\ b[m] = w[m] * c[m] * s[m]
    BY DEF Share
  <2> HIDE DEF a, b
  <2>3. a[m] \in Nat
    BY <2>1, <2>2
  <2>4. b[m] = a[m] * s[m]
    BY <2>2
  <2>5. b[m] \in Nat
    BY <2>1, <2>3, <2>4
  <2> QED
    BY <2>1, <2>2, <2>3, <2>4, <2>5
<1>2. PICK l \in H : \A m \in H : s[l] <= s[m]
  <2> DEFINE T == {s[m] : m \in H}
  <2>1. T \subseteq Nat /\ T # {}
    <3>1. k \in H /\ \A m \in H : s[m] \in Nat
      BY <1>1
    <3> HIDE DEF H
    <3> QED
      BY <3>1
  <2>2. PICK x \in T : \A y \in T : x <= y
    <3> HIDE DEF T
    <3> QED
      BY <2>1, Least
  <2> QED
    BY <2>2
<1>3. PICK g \in H : \A m \in H : s[m] <= s[g]
  <2> DEFINE T == {100 - s[m] : m \in H}
  <2>1. T \subseteq Nat /\ T # {}
    <3>1. k \in H /\ \A m \in H : 100 - s[m] \in Nat
      BY <1>1
    <3> HIDE DEF H
    <3> QED
      BY <3>1
  <2>2. PICK x \in T : \A y \in T : x <= y
    <3> HIDE DEF T
    <3> QED
      BY <2>1, Least
  <2>3. PICK g \in H : x = 100 - s[g]
    BY <2>2
  <2>4. \A m \in H : 100 - s[g] <= 100 - s[m] /\ s[g] \in 0..100 /\ s[m] \in 0..100
    BY <1>1, <2>2, <2>3
  <2>5. \A m \in H : s[m] <= s[g]
    BY <2>4
  <2> QED
    BY <2>5
<1> DEFINE lo == s[l]
           hi == s[g]
<1>4. lo \in Nat /\ hi \in Nat /\ lo <= 100 /\ hi <= 100
  BY <1>1
<1>5. k \in H /\ l \in Members /\ w[l] > 0 /\ g \in Members /\ w[g] > 0
  OBVIOUS
<1>6. ASSUME NEW m \in Members
      PROVE  lo * a[m] <= b[m] /\ b[m] <= hi * a[m] /\ lo * a[m] \in Int /\ hi * a[m] \in Int
  <2>0. a[m] \in Nat /\ b[m] = a[m] * s[m] /\ s[m] \in Nat
    BY <1>1
  <2>1. CASE m \in H
    <3>1. lo <= s[m] /\ s[m] <= hi
      BY <1>2, <1>3, <2>1
    <3> DEFINE x == a[m]
               v == s[m]
    <3> HIDE DEF x, v, lo, hi, a, b
    <3>2. x \in Nat /\ v \in Nat /\ lo <= v /\ v <= hi /\ b[m] = x * v
      BY <2>0, <3>1 DEF x, v
    <3>3. lo * x <= v * x /\ v * x <= hi * x
      BY <1>4, <3>2
    <3>4. lo * x \in Int /\ hi * x \in Int /\ v * x = x * v
      BY <1>4, <3>2
    <3> QED
      BY <3>2, <3>3, <3>4 DEF x
  <2>2. CASE m \notin H
    <3>1. w[m] = 0
      BY <1>1, <2>2
    <3>2. a[m] = 0 /\ b[m] = 0
      BY <1>1, <3>1
    <3> HIDE DEF lo, hi, a, b
    <3> QED
      BY <1>4, <3>2
  <2> QED
    BY <2>1, <2>2
<1>7. Mean(w, c, s) = IF den = 0 THEN 0 ELSE (20 * num + den) \div (2 * den)
  BY DEF Mean, SumOver, Sum
<1>8. a[k] > 0
  <2>1. w[k] \in Nat /\ w[k] > 0 /\ c[k] \in 1..10 /\ a[k] = w[k] * c[k]
    BY <1>1
  <2> HIDE DEF a
  <2> QED
    BY <2>1
<1> HIDE DEF a, b
<1>9. num \in Nat /\ den \in Nat
  BY <1>1, MembersFinite, SumIsNat
<1>10. den > 0
  <2>1. \A m \in Members : a[m] \in Int
    BY <1>1
  <2>2. den = a[k] + Sum(a, Members \ {k})
    BY <2>1, MembersFinite, SumWithout
  <2>3. Sum(a, Members \ {k}) \in Nat
    <3>1. IsFiniteSet(Members \ {k}) /\ \A m \in Members \ {k} : a[m] \in Nat
      BY <1>1, MembersFinite, FS_Subset
    <3> QED
      BY <3>1, SumIsNat
  <2> QED
    BY <1>1, <1>8, <2>2, <2>3
<1>11. lo * den <= num
  <2> DEFINE f == [m \in Members |-> lo * a[m]]
  <2>1. \A m \in Members : f[m] = lo * a[m] /\ f[m] \in Int /\ b[m] \in Int /\ f[m] <= b[m] /\ a[m] \in Int
    BY <1>1, <1>6
  <2> HIDE DEF f, lo
  <2>2. Sum(f, Members) = lo * den
    BY <1>4, <2>1, MembersFinite, SumScaled
  <2>3. Sum(f, Members) <= num
    BY <2>1, MembersFinite, SumsOrdered
  <2> QED
    BY <2>2, <2>3
<1>12. num <= hi * den
  <2> DEFINE f == [m \in Members |-> hi * a[m]]
  <2>1. \A m \in Members : f[m] = hi * a[m] /\ f[m] \in Int /\ b[m] \in Int /\ b[m] <= f[m] /\ a[m] \in Int
    BY <1>1, <1>6
  <2> HIDE DEF f, hi
  <2>2. Sum(f, Members) = hi * den
    BY <1>4, <2>1, MembersFinite, SumScaled
  <2>3. num <= Sum(f, Members)
    BY <2>1, MembersFinite, SumsOrdered
  <2> QED
    BY <2>2, <2>3
<1> DEFINE mean == (20 * num + den) \div (2 * den)
<1>13. Mean(w, c, s) = mean
  BY <1>7, <1>10
<1>14. 10 * lo <= mean /\ mean <= 10 * hi
  <2> HIDE DEF num, den, lo, hi
  <2> QED
    BY <1>4, <1>9, <1>10, <1>11, <1>12, RoundedWithin
<1>15. mean \in Int
  <2>1. 20 * num + den \in Nat /\ 2 * den \in Nat \ {0}
    BY <1>9, <1>10
  <2> QED
    BY <2>1
<1> HIDE DEF mean, lo, hi
<1>16. mean \in 0..1000
  BY <1>4, <1>14, <1>15
<1>17. mean >= 10 * s[l] /\ mean <= 10 * s[g]
  BY <1>14 DEF lo, hi
<1> QED
  BY <1>5, <1>13, <1>16, <1>17

\* What TypeOK says of the state beside the record.
VerdictTypes ==
  /\ conf \in [Experts -> 1..10 \cup {NaN}] /\ devil \in BOOLEAN
  /\ weights \in [Members -> Nat] /\ history \in Histories \cup {<<>>} /\ overall \in 0..1000

\* TypeOK in two parts.
LEMMA TypeParts == RecordTypes /\ VerdictTypes => TypeOK
<1> SUFFICES ASSUME RecordTypes, VerdictTypes PROVE TypeOK
  OBVIOUS
<1>1. \A i \in DOMAIN turns : turns[i] \in Turn
  BY Entries
<1> QED
  BY <1>1 DEF TypeOK, RecordTypes, VerdictTypes

\* Whatever the job overrides, everybody has a weight and somebody a positive one.
LEMMA WeightsResolved ==
  ASSUME NEW o \in Overrides
  PROVE  Resolved(o) \in [Members -> Nat] /\ \E m \in Members : Resolved(o)[m] > 0
<1>1. /\ BaseWeights \in [Members -> Nat \ {0}] /\ o \in [DOMAIN o -> Int \cup {NoNumber}]
  BY RoundtableAssumption
<1>2. CASE Applicable(o)
  <2>1. /\ Resolved(o) = [m \in Members |-> IF m \in DOMAIN o THEN o[m] ELSE 0]
        /\ \A m \in DOMAIN o : o[m] \in Nat /\ o[m] > 0
        /\ DOMAIN o # {} /\ DOMAIN o \subseteq Members
    BY <1>1, <1>2 DEF Resolved, Applicable
  <2>2. PICK m \in DOMAIN o : TRUE
    BY <2>1
  <2>3. m \in Members /\ Resolved(o)[m] > 0
    BY <2>1, <2>2
  <2> QED
    BY <2>1, <2>3
<1>3. CASE ~Applicable(o)
  <2>1. Resolved(o) = BaseWeights
    BY <1>3 DEF Resolved
  <2>2. BaseWeights[Stability] \in Nat \ {0}
    BY <1>1, MembersFinite
  <2>3. BaseWeights[Stability] > 0
    BY <2>2
  <2> QED
    BY <1>1, <2>1, <2>3, MembersFinite
<1> QED
  BY <1>2, <1>3

\* What goes into the mean: either a confidence is NaN, or all are numbers in range.
LEMMA FinalInRange ==
  ASSUME NEW h \in Histories, conf \in [Experts -> 1..10 \cup {NaN}], NEW s \in [Experts -> Scores]
  PROVE  /\ FinalScore(s, h) \in [Members -> Scores]
         /\ Muddled(FinalConf(h)) <=> Muddled(conf)
         /\ ~Muddled(conf) => FinalConf(h) \in [Members -> 1..10]
<1>1. StabilityScore(h) \in Scores /\ StabilityConfidence(h) \in 1..10
  BY RoundtableAssumption, StabilityInRange
<1>2. FinalScore(s, h) \in [Members -> Scores]
  BY <1>1 DEF FinalScore, Members
<1>3. StabilityConfidence(h) # NaN
  <2>1. NaN \notin Int
    BY RoundtableAssumption
  <2>2. StabilityConfidence(h) \in Int
    BY <1>1
  <2> QED
    BY <2>1, <2>2
<1>4. /\ FinalConf(h) = [m \in Members |-> IF m = Stability THEN StabilityConfidence(h) ELSE conf[m]]
      /\ Members = Experts \cup {Stability} /\ Stability \notin Experts
      /\ DOMAIN conf = Experts
  BY RoundtableAssumption DEF FinalConf, Members
<1>5. Muddled(FinalConf(h)) <=> Muddled(conf)
  BY <1>3, <1>4 DEF Muddled
<1>6. ASSUME ~Muddled(conf) PROVE FinalConf(h) \in [Members -> 1..10]
  <2>1. \A e \in Experts : conf[e] \in 1..10
    BY <1>4, <1>6 DEF Muddled
  <2> QED
    BY <1>1, <1>4, <2>1
<1> QED
  BY <1>2, <1>5, <1>6

\* The inductive invariant: the record, the rest of the state, and the verdict made of them.
VerdictInductive == RecordInv /\ VerdictTypes /\ VerdictMatch

\* The verdict is reached in range, from what is on record.
LEMMA ArbitrateVerdict ==
  ASSUME VerdictInductive, Arbitrate
  PROVE  VerdictTypes' /\ VerdictMatch'
<1>1. PICK h \in Histories, o \in Overrides :
        /\ history' = h /\ weights' = Resolved(o)
        /\ overall' = Weighted(Resolved(o), FinalConf(h), FinalScore(score, h))
  BY DEF Arbitrate
<1>2. UNCHANGED <<first, conf, score, devil>>
  BY DEF Arbitrate, opinions
<1>3. conf \in [Experts -> 1..10 \cup {NaN}] /\ score \in [Experts -> Scores] /\ devil \in BOOLEAN
  BY DEF VerdictInductive, VerdictTypes, RecordInv, RecordTypes
<1>4. Resolved(o) \in [Members -> Nat] /\ \E m \in Members : Resolved(o)[m] > 0
  BY WeightsResolved
<1>5. /\ FinalScore(score, h) \in [Members -> Scores]
      /\ ~Muddled(FinalConf(h)) => FinalConf(h) \in [Members -> 1..10]
  BY <1>3, FinalInRange
<1>6. Weighted(Resolved(o), FinalConf(h), FinalScore(score, h)) \in 0..1000
  <2>1. CASE Muddled(FinalConf(h))
    BY <2>1 DEF Weighted
  <2>2. CASE ~Muddled(FinalConf(h))
    <3>1. Mean(Resolved(o), FinalConf(h), FinalScore(score, h)) \in 0..1000
      BY <1>4, <1>5, <2>2, MeanWithin
    <3> QED
      BY <2>2, <3>1 DEF Weighted
  <2> QED
    BY <2>1, <2>2
<1>7. VerdictTypes'
  BY <1>1, <1>2, <1>3, <1>4, <1>6 DEF VerdictTypes
<1>8. FinalConf(history)' = FinalConf(h) /\ FinalScore(score, history)' = FinalScore(score, h)
  BY <1>1, <1>2 DEF FinalConf, FinalScore
<1>9. overall' = Weighted(weights, FinalConf(history), FinalScore(score, history))'
  BY <1>1, <1>2, <1>8
<1>10. Weighty' # {}
  BY <1>1, <1>4 DEF Weighty
<1> QED
  BY <1>1, <1>7, <1>9, <1>10 DEF VerdictMatch

\* A confidence is a positive number of tenths, or NaN.
LEMMA ConfidenceInRange ==
  ASSUME NEW c \in Confidences
  PROVE  ParsedConfidence(c) \in 1..10 \cup {NaN}
<1>1. c \in Int \cup {NaN, NoNumber} /\ NaN # NoNumber /\ NaN \notin Int /\ NoNumber \notin Int
  BY RoundtableAssumption
<1>2. CASE c = NaN
  BY <1>2 DEF ParsedConfidence
<1>3. CASE c = NoNumber
  BY <1>1, <1>3 DEF ParsedConfidence
<1>4. CASE c \in Int
  <2>1. ParsedConfidence(c) = IF c > 0 THEN Min({10, c}) ELSE 7
    BY <1>1, <1>4 DEF ParsedConfidence
  <2>2. CASE c > 0
    <3>1. Min({10, c}) \in {10, c} /\ Min({10, c}) <= 10
      BY <1>4, MinOfTwo
    <3> QED
      BY <1>4, <2>1, <2>2, <3>1
  <2>3. CASE ~(c > 0)
    BY <2>1, <2>3
  <2> QED
    BY <2>2, <2>3
<1> QED
  BY <1>1, <1>2, <1>3, <1>4

\* Until then there is none, and afterwards it stays.
LEMMA VerdictKept ==
  ASSUME VerdictInductive, [Next]_vars
  PROVE  VerdictTypes' /\ VerdictMatch'
<1>0. VerdictTypes /\ VerdictMatch
  BY DEF VerdictInductive
<1>1. CASE Assess
  <2>1. PICK cs \in [Experts -> Confidences] : conf' = [e \in Experts |-> ParsedConfidence(cs[e])]
    BY <1>1 DEF Assess
  <2>2. ASSUME NEW c \in Confidences PROVE ParsedConfidence(c) \in 1..10 \cup {NaN}
    BY ConfidenceInRange
  <2>3. conf' \in [Experts -> 1..10 \cup {NaN}]
    BY <2>1, <2>2
  <2> QED
    BY <1>0, <1>1, <2>3 DEF Assess, verdict, VerdictTypes, VerdictMatch, Done
<1>2. CASE Detect
  <2>1. devil' \in BOOLEAN /\ step' # "done" /\ UNCHANGED <<conf, verdict>>
    BY <1>0, <1>2 DEF Detect, Overheated, VerdictTypes
  <2> QED
    BY <1>0, <2>1 DEF verdict, VerdictTypes, VerdictMatch, Done
<1>3. CASE Maintain \/ Revise \/ TurnFails \/ CheckConvergence
  <2>1. step \in {"turns", "check"}
    BY <1>3 DEF Maintain, Revise, TurnFails, CheckConvergence
  <2>2. step' # "done" /\ UNCHANGED <<conf, devil, verdict>>
    BY <1>3, <2>1 DEF Maintain, Revise, TurnFails, CheckConvergence, Speak
  <2> QED
    BY <1>0, <2>2 DEF verdict, VerdictTypes, VerdictMatch, Done
<1>4. CASE UNCHANGED vars
  <2>1. UNCHANGED <<step, score, conf, devil, weights, history, overall>>
    BY <1>4 DEF vars, opinions, verdict
  <2>2. Weighty' = Weighty /\ Done' = Done
    BY <2>1 DEF Weighty, Done
  <2>3. FinalConf(history)' = FinalConf(history) /\ FinalScore(score, history)' = FinalScore(score, history)
    BY <2>1 DEF FinalConf, FinalScore
  <2> QED
    BY <1>0, <2>1, <2>2, <2>3 DEF VerdictTypes, VerdictMatch
<1> QED
  BY <1>1, <1>2, <1>3, <1>4, ArbitrateVerdict DEF Next

\* So it always is.
LEMMA AlwaysVerdict == Spec => []VerdictInductive
<1>1. Init => VerdictInductive
  <2> SUFFICES ASSUME Init PROVE VerdictInductive
    OBVIOUS
  <2>1. BaseWeights \in [Members -> Nat]
    BY RoundtableAssumption
  <2>2. /\ step = "assess" /\ conf = [e \in Experts |-> 1] /\ devil = FALSE
        /\ weights = BaseWeights /\ history = <<>> /\ overall = 0
    BY DEF Init
  <2>3. VerdictMatch
    BY <2>2 DEF VerdictMatch, Done
  <2>4. conf \in [Experts -> 1..10 \cup {NaN}]
    BY <2>2
  <2>5. weights \in [Members -> Nat]
    BY <2>1, <2>2
  <2>6. /\ devil \in BOOLEAN
        /\ history \in Histories \cup {<<>>}
        /\ overall \in 0..1000
    <3>1. devil \in BOOLEAN
      BY <2>2
    <3>2. history \in {<<>>}
      BY <2>2, Zenon
    <3>3. history \in Histories \cup {<<>>}
      BY <3>2, Zenon
    <3>4. overall = 0
      BY <2>2
    <3>5. overall \in 0..1000
      BY <3>4
    <3> QED
      BY <3>1, <3>3, <3>5
  <2>7. VerdictTypes
    BY <2>4, <2>5, <2>6, Zenon DEF VerdictTypes
  <2> QED
    BY <2>3, <2>7, InitRecord DEF VerdictInductive
<1>2. VerdictInductive /\ RecordInv' /\ [Next]_vars => VerdictInductive'
  BY VerdictKept DEF VerdictInductive
<1>3. VerdictInductive => RecordInv
  BY DEF VerdictInductive
<1> QED
  BY <1>1, <1>2, <1>3, Recorded, PTL DEF Spec

\* Type correctness of the round table: whatever the model answers, as a score or as a confidence,
\* and the job overrides, scores stay within 0 and 100, the overall score within 0 and 1000 tenths,
\* and a confidence is a positive number of tenths or NaN.
THEOREM RoundtableTypes == Spec => []TypeOK
<1>1. VerdictInductive => TypeOK
  BY TypeParts DEF VerdictInductive, RecordInv
<1> QED
  BY AlwaysVerdict, <1>1, PTL

\* The overall score lies between the lowest and the highest score of those who have weight, or it
\* is 0 because somebody's confidence is NaN.
THEOREM VerdictWithinPanel == Spec => []OverallWithinExperts
<1>1. VerdictInductive => OverallWithinExperts
  <2> SUFFICES ASSUME VerdictInductive, Done
               PROVE  IF Muddled(conf) THEN overall = 0 ELSE WithinExperts
    BY DEF OverallWithinExperts
  <2> DEFINE s == FinalScore(score, history)
             c == FinalConf(history)
  <2>1. /\ history \in Histories /\ Weighty # {} /\ overall = Weighted(weights, c, s)
        /\ weights \in [Members -> Nat] /\ conf \in [Experts -> 1..10 \cup {NaN}]
        /\ score \in [Experts -> Scores]
    BY DEF VerdictInductive, VerdictMatch, VerdictTypes, RecordInv, RecordTypes
  <2>2. /\ s \in [Members -> Scores]
        /\ Muddled(c) <=> Muddled(conf)
        /\ ~Muddled(conf) => c \in [Members -> 1..10]
    BY <2>1, FinalInRange
  <2>3. PICK k \in Members : weights[k] > 0
    BY <2>1 DEF Weighty
  <2>s. s = FinalScore(score, history)
    OBVIOUS
  <2> HIDE DEF s, c
  <2>4. CASE Muddled(conf)
    BY <2>1, <2>2, <2>4 DEF Weighted
  <2>5. CASE ~Muddled(conf)
    <3>0. ~Muddled(c) /\ c \in [Members -> 1..10]
      BY <2>2, <2>5
    <3>1. overall = Mean(weights, c, s)
      BY <2>1, <3>0 DEF Weighted
    <3>2. /\ \E m \in Members : weights[m] > 0 /\ Mean(weights, c, s) >= 10 * s[m]
          /\ \E m \in Members : weights[m] > 0 /\ Mean(weights, c, s) <= 10 * s[m]
      BY <2>1, <2>2, <2>3, <3>0, MeanWithin
    <3>3. /\ \E m \in Members : weights[m] > 0 /\ overall >= 10 * s[m]
          /\ \E m \in Members : weights[m] > 0 /\ overall <= 10 * s[m]
      BY <3>1, <3>2
    <3> QED
      BY <2>5, <2>s, <3>3 DEF WithinExperts
  <2> QED
    BY <2>4, <2>5
<1> QED
  BY AlwaysVerdict, <1>1, PTL

\* The analyzer's score follows from the dates of the resume, except where one of the known
\* misreadings explains it.
THEOREM HistoryIsRead == Spec => []HistoryReadRight
<1>1. VerdictInductive => HistoryReadRight
  <2> SUFFICES ASSUME VerdictInductive, Done PROVE TenureIsDated(history) /\ GapIsReal(history)
    BY DEF HistoryReadRight
  <2>1. history \in Seq(Employments)
    BY RoundtableAssumption DEF VerdictInductive, VerdictMatch
  <2> QED
    BY <2>1, TenureInDates, GapInDates
<1> QED
  BY AlwaysVerdict, <1>1, PTL
=============================================================================
