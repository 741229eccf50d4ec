----------------------------- MODULE Roundtable ------------------------------
(***************************************************************************)
(* From the experts' answers about one candidate to the overall score:     *)
(* divergence, discussion and arbitration in agent/app/agents/moderator.py *)
(* with the answers' conversion in base.py, the weights of registry.py and *)
(* the analyzer of experts.py (WorkHistory).                               *)
(*                                                                         *)
(* Scores are whole numbers, confidences and the overall score tenths.     *)
(* Texts, evidence and sub-scores are left out: of a text the transcript   *)
(* shows, the round it was written in is kept.                             *)
(***************************************************************************)
EXTENDS WorkHistory

CONSTANTS
  Panel,         \* the experts that ask the model, in the order of the category's weights
  Stability,     \* the rule based analyzer
  Numbers,       \* numbers the model may answer as a score, in or out of range: bounds them
  NaN,           \* the answer "NaN", which float() takes
  NoNumber,      \* any other answer that is no number, or none
  Confidences,   \* answers as a confidence: tenths, in or out of range, or one of the two
  Histories,     \* work histories
  BaseWeights,   \* WEIGHTS_BY_CATEGORY of the job's category, in percent
  Overrides,     \* weights_override of the job: functions from names to raw weights
  StdThreshold,  \* debate_std_threshold
  DeltaLimit,    \* debate_score_delta
  DevilFrom,     \* devils_advocate_threshold
  MaxRounds      \* debate_max_rounds

Experts == {Panel[i] : i \in DOMAIN Panel}
Members == Experts \cup {Stability}
Raw == Numbers \cup {NaN, NoNumber}

ASSUME RoundtableAssumption ==
  /\ Stability \notin Experts /\ {NaN, NoNumber} \cap Int = {} /\ NaN # NoNumber
  /\ Numbers \subseteq Int /\ Confidences \subseteq Int \cup {NaN, NoNumber} /\ MaxRounds \in Nat \ {0}
  /\ BaseWeights \in [Members -> Nat \ {0}]
  /\ IsInjective(Panel) /\ Panel \in Seq(Experts) /\ DeltaLimit \in Nat
  /\ Histories \subseteq Seq(Employments)
  /\ \A o \in Overrides : o \in [DOMAIN o -> Int \cup {NoNumber}]

VARIABLES
  step,         \* where the candidate is
  first,        \* initial_scores of the experts
  conf,         \* their confidences
  before,       \* current: the scores at the start of the round, which everybody is shown
  score,        \* next_round: the scores so far
  stance,       \* the last stance of each expert
  said,         \* the round in which its last reasoning was written, 0 for none
  round,
  speaker,      \* whose turn it is in the round
  turns,        \* transcript.turns
  devil,        \* devil_advocate_used
  convergence,  \* transcript.meta.convergence, or "none" without a discussion
  weights,      \* resolve_weights
  history,      \* the candidate's work history
  overall       \* the overall score

opinions == <<before, score, stance, said, round, speaker, turns>>
verdict == <<weights, history, overall>>
vars == <<step, first, conf, opinions, devil, convergence, verdict>>

Scores == 0..100
Turn == [round : 1..MaxRounds, agent : Experts, stance : {"maintain", "revise"},
         score : Scores, delta : -100..100, said : 0..MaxRounds]

TypeOK ==
  /\ step \in {"assess", "detect", "turns", "check", "arbitrate", "done"}
  /\ {first, before, score} \subseteq [Experts -> Scores]
  /\ conf \in [Experts -> 1..10 \cup {NaN}]
  /\ stance \in [Experts -> {"none", "maintain", "revise"}]
  /\ said \in [Experts -> 0..MaxRounds]
  /\ round \in 0..MaxRounds /\ speaker \in 0..Len(Panel)
  /\ \A i \in DOMAIN turns : turns[i] \in Turn
  /\ devil \in BOOLEAN
  /\ convergence \in {"none", "consensus", "converged", "max_rounds"}
  /\ weights \in [Members -> Nat] /\ history \in Histories \cup {<<>>} /\ overall \in 0..1000

Init ==
  /\ step = "assess"
  /\ first = [e \in Experts |-> 0] /\ conf = [e \in Experts |-> 1]
  /\ before = first /\ score = first
  /\ stance = [e \in Experts |-> "none"] /\ said = [e \in Experts |-> 0]
  /\ round = 0 /\ speaker = 0 /\ turns = <<>>
  /\ devil = FALSE /\ convergence = "none"
  /\ weights = BaseWeights /\ history = <<>> /\ overall = 0

-----------------------------------------------------------------------------
(* Stage 1: the experts' answers *)

\* max(0.0, min(100.0, v)) is 100 for NaN.
Clamp(v) == IF v = NaN THEN 100 ELSE Max({0, Min({100, v})})

\* _parse: no number counts as 0 points; a confidence that is missing or not positive as 0.7.  NaN
\* stays what it is: min and max return it, it is not false, and the bounds of the schema let it pass.
ParsedScore(v) == IF v = NoNumber THEN 0 ELSE Clamp(v)
ParsedConfidence(c) ==
  CASE c = NaN -> NaN
    [] c = NoNumber -> 7
    [] OTHER -> IF c > 0 THEN Min({10, c}) ELSE 7

Assess ==
  /\ step = "assess" /\ step' = "detect"
  /\ \E answers \in [Experts -> Raw] : first' = [e \in Experts |-> ParsedScore(answers[e])]
  /\ \E cs \in [Experts -> Confidences] : conf' = [e \in Experts |-> ParsedConfidence(cs[e])]
  /\ before' = first' /\ score' = first'
  /\ UNCHANGED <<stance, said, round, speaker, turns, devil, convergence, verdict>>

-----------------------------------------------------------------------------
(* Stage 2: divergence *)

SumOver(f) == FoldFunctionOnSet(Plus, 0, f, DOMAIN f)

\* pstdev above the threshold, multiplied out: the squared number of experts times the variance.
Spread(s) ==
  Len(Panel) * SumOver([e \in Experts |-> s[e] * s[e]]) - SumOver(s) * SumOver(s)
Diverge(s) == Spread(s) > StdThreshold * StdThreshold * Len(Panel) * Len(Panel)

\* The devil's advocate speaks when everybody is at the threshold or above.
Overheated(s) == \A e \in Experts : s[e] >= DevilFrom

NeedsDiscussion == Len(Panel) > 1 /\ Diverge(first)

Detect ==
  /\ step = "detect"
  /\ IF NeedsDiscussion
       THEN step' = "turns" /\ round' = 1 /\ speaker' = 1 /\ devil' = Overheated(first)
            /\ convergence' = "max_rounds"
       ELSE step' = "arbitrate" /\ UNCHANGED <<round, speaker, devil, convergence>>
  /\ UNCHANGED <<first, conf, before, score, stance, said, turns, verdict>>

-----------------------------------------------------------------------------
(* Stage 3: the discussion *)

Own == Panel[speaker]

\* The turn is entered whoever has just spoken and whatever came of it.  A faulty variant counts
\* the change from the beginning of the discussion.
DeltaFromFirst(e, new) == new - first[e]
Delta(e, new) == new - before[e]

Speak(new, st, rd) ==
  /\ score' = [score EXCEPT ![Own] = new]
  /\ stance' = [stance EXCEPT ![Own] = st]
  /\ said' = [said EXCEPT ![Own] = rd]
  /\ turns' = Append(turns, [round |-> round, agent |-> Own, score |-> new, delta |-> Delta(Own, new),
                             stance |-> IF st = "none" THEN "maintain" ELSE st, said |-> rd])
  /\ IF speaker < Len(Panel) THEN speaker' = speaker + 1 /\ UNCHANGED step
     ELSE speaker' = 0 /\ step' = "check"
  /\ UNCHANGED <<first, conf, before, round, devil, convergence, verdict>>

\* A revision without a number is none.
Revised(v) ==
  IF v = NoNumber THEN [score |-> before[Own], stance |-> "maintain"]
  ELSE [score |-> Clamp(v), stance |-> "revise"]

\* The expert maintains its score, also by a stance the protocol does not know.
Maintain == step = "turns" /\ Speak(before[Own], "maintain", round)

Revise ==
  /\ step = "turns"
  /\ \E v \in Raw : Speak(Revised(v).score, Revised(v).stance, round)

\* The call fails: score, stance and reasoning stay what they were, a round ago or before any.
TurnFails == step = "turns" /\ Speak(before[Own], stance[Own], said[Own])

Abs(n) == IF n < 0 THEN -n ELSE n
Settled == \A e \in Experts : Abs(score[e] - before[e]) <= DeltaLimit

\* Agreed, or nobody moves any more after the first round.
Converged == ~Diverge(score) \/ (round > 1 /\ Settled)

\* A faulty variant counts the rounds from zero.
LastRoundOneMore == round > MaxRounds
LastRound == round = MaxRounds

CheckConvergence ==
  /\ step = "check"
  /\ IF Converged THEN convergence' = "converged" ELSE UNCHANGED convergence
  /\ IF Converged \/ LastRound
       THEN step' = "arbitrate" /\ UNCHANGED <<round, speaker, before>>
       ELSE step' = "turns" /\ round' = round + 1 /\ speaker' = 1 /\ before' = score
  /\ UNCHANGED <<first, conf, score, stance, said, turns, devil, verdict>>

-----------------------------------------------------------------------------
(* Stage 4: arbitration *)

\* An override is taken as a whole or not at all: it names members of the panel only and gives
\* them positive numbers, and whoever it leaves out has no weight.
Applicable(o) ==
  /\ DOMAIN o # {} /\ DOMAIN o \subseteq Members
  /\ \A m \in DOMAIN o : o[m] # NoNumber /\ o[m] > 0
Resolved(o) ==
  IF Applicable(o) THEN [m \in Members |-> IF m \in DOMAIN o THEN o[m] ELSE 0] ELSE BaseWeights

\* The final results: the experts' last scores and the analyzer's.
FinalScore(s, h) == [m \in Members |-> IF m = Stability THEN StabilityScore(h) ELSE s[m]]
FinalConf(h) == [m \in Members |-> IF m = Stability THEN StabilityConfidence(h) ELSE conf[m]]

\* Weight times confidence.  A faulty variant forgets the confidence in the denominator.
ShareWeightOnly(w, c, m) == w[m]
Share(w, c, m) == w[m] * c[m]

\* The weighted mean in tenths, rounded.
Mean(w, c, s) ==
  LET num == SumOver([m \in Members |-> w[m] * c[m] * s[m]])
      den == SumOver([m \in Members |-> Share(w, c, m)])
  IN  IF den = 0 THEN 0 ELSE (20 * num + den) \div (2 * den)

\* One confidence that is NaN makes both sums NaN, also without weight (0.0 times NaN is NaN), and
\* NaN is not positive.
Muddled(c) == \E m \in DOMAIN c : c[m] = NaN
Weighted(w, c, s) == IF Muddled(c) THEN 0 ELSE Mean(w, c, s)

\* The candidate's work history and the job's override are read here; the recommendation, which
\* follows, changes nothing of this.
Arbitrate ==
  /\ step = "arbitrate" /\ step' = "done"
  /\ \E h \in Histories, w \in {Resolved(o) : o \in Overrides} :
       /\ history' = h /\ weights' = w
       /\ overall' = Weighted(w, FinalConf(h), FinalScore(score, h))
  /\ UNCHANGED <<first, conf, opinions, devil, convergence>>

Next ==
  \/ Assess \/ Detect
  \/ Maintain \/ Revise \/ TurnFails \/ CheckConvergence
  \/ Arbitrate

Spec == Init /\ [][Next]_vars
-----------------------------------------------------------------------------
(* Properties *)

Done == step = "done"

By(i, e, k) == turns[i].agent = e /\ turns[i].round = k

\* The rounds in which everybody has spoken.
Held == IF step \in {"check", "arbitrate", "done"} THEN round ELSE round - 1

\* Everybody speaks once in each round.
RoundsComplete ==
  /\ \A i \in DOMAIN turns : turns[i].agent \in Experts /\ turns[i].round \in 1..round
  /\ \A e \in Experts, k \in 1..Held : \E i \in DOMAIN turns : By(i, e, k)
  /\ \A i, j \in DOMAIN turns : By(j, turns[i].agent, turns[i].round) => i = j

\* From the initial to the present score, change by change; only revisions written in that very
\* round change anything.
Replayable ==
  /\ \A i \in DOMAIN turns : LET t == turns[i] IN
       /\ t.round = 1 => t.score = first[t.agent] + t.delta
       /\ \A j \in DOMAIN turns : By(j, t.agent, t.round - 1) => t.score = turns[j].score + t.delta
       /\ t.round = round => t.score = score[t.agent]
       /\ t.delta # 0 => t.stance = "revise" /\ t.said = t.round
  /\ round = 0 => score = first

\* Somebody moved beyond the limit in the last round.
Moved == \E i \in DOMAIN turns : turns[i].round = round /\ Abs(turns[i].delta) > DeltaLimit

\* Without convergence all rounds are held, the panel is as far apart as it takes to open a
\* discussion, and somebody still moved in the last round; with it, one of the two is not so.
EndsForAReason ==
  /\ Done /\ convergence = "max_rounds" => round = MaxRounds /\ Diverge(score) /\ (round > 1 => Moved)
  /\ Done /\ convergence = "converged" => ~Diverge(score) \/ (round > 1 /\ ~Moved)

\* The transcript can be audited: read back alone, the contributions lead every expert from its
\* initial to its final score, and explain why the discussion ended.
RecordIsTrue == RoundsComplete /\ Replayable /\ EndsForAReason

\* The overall score lies between the lowest and the highest score of those who have weight, up
\* to the rounding, whatever the confidences and the override: unless somebody, even one without
\* weight, answered NaN as his confidence.  Then it is 0, whatever was said.
WithinExperts ==
  LET s == FinalScore(score, history)
      heard == {m \in Members : weights[m] > 0}
  IN  /\ \E m \in heard : overall >= 10 * s[m]
      /\ \E m \in heard : overall <= 10 * s[m]
OverallWithinExperts == Done => IF Muddled(conf) THEN overall = 0 ELSE WithinExperts

\* A mean tenure of two years and more is in the dates, or one of the jobs has no start, which
\* the analyzer takes for two thousand years of tenure where the hard filter counts nothing.
TenureIsDated(h) ==
  StabilityScore(h) >= 80 =>
    Dated(h) # DOMAIN h
    \/ (2 * Cardinality(DOMAIN Tenures(h)) <= Total(Tenures(h)) /\ CandidateYears(h) >= 2)

\* Points are taken for gaps only if one job was over before another began and none was under way
\* when it ended; or one lies inside another; or has no start; or begins after the analyzer's
\* present, where those that last have ended for the analyzer.
Idle(h) ==
  \E i, j \in DOMAIN h : LET y == Span(h[i], Now).end
                         IN  y < Span(h[j], Now).start /\ y \notin CoveredYears(h)
Within(s, t) == t.start <= s.start /\ s.end <= t.end
Nested(h) ==
  \E i, j \in DOMAIN h : i # j /\ Within(Span(h[i], AnalyzerNow), Span(h[j], AnalyzerNow))
Overtaken(h) ==
  \E i, j \in DOMAIN h : i # j /\ h[i].end = NoYear /\ h[i].start <= h[j].start
                         /\ h[j].start > AnalyzerNow
GapIsReal(h) == GapPenalty(h) > 0 => Idle(h) \/ Nested(h) \/ Overtaken(h) \/ Dated(h) # DOMAIN h

\* The analyzer's score follows from the dates of the resume, except where one of the known
\* misreadings explains it.
HistoryReadRight == Done => TenureIsDated(history) /\ GapIsReal(history)

-----------------------------------------------------------------------------
(* The inductive invariant behind RecordIsTrue *)

RecordTypes ==
  /\ step \in {"assess", "detect", "turns", "check", "arbitrate", "done"}
  /\ first \in [Experts -> Scores] /\ before \in [Experts -> Scores] /\ score \in [Experts -> Scores]
  /\ stance \in [Experts -> {"none", "maintain", "revise"}] /\ said \in [Experts -> 0..MaxRounds]
  /\ round \in 0..MaxRounds /\ speaker \in 0..Len(Panel)
  /\ turns \in Seq(Turn)
  /\ convergence \in {"none", "consensus", "converged", "max_rounds"}

\* Where the discussion is, and why it is over.
Progress ==
  /\ step \in {"assess", "detect"} => round = 0 /\ convergence = "none"
  /\ round = 0 => turns = <<>> /\ score = first /\ before = first /\ convergence = "none"
  /\ step \in {"turns", "check"} => round > 0 /\ convergence = "max_rounds" /\ Len(Panel) > 1
  /\ step = "turns" => speaker > 0
  /\ step \in {"arbitrate", "done"} =>
       /\ convergence = "max_rounds" => round = MaxRounds /\ ~Converged
       /\ convergence = "converged" => Converged

\* The experts who have had their turn in the present round.
Heard == {e \in Experts : round > 0 /\ (step = "turns" => \E p \in 1..speaker - 1 : Panel[p] = e)}

\* Of the present round there are the turns of those who have spoken, of earlier ones everybody's.
TurnsMatch ==
  /\ \A i \in DOMAIN turns : turns[i].round \in 1..round /\ (turns[i].round = round => turns[i].agent \in Heard)
  /\ \A e \in Experts, k \in 1..round - 1 : \E i \in DOMAIN turns : By(i, e, k)
  /\ \A e \in Heard : \E i \in DOMAIN turns : By(i, e, round)
  /\ \A i, j \in DOMAIN turns : By(j, turns[i].agent, turns[i].round) => i = j

\* What the round began with is what the one before ended with, and the last turn of an expert
\* is its score.
ScoresMatch ==
  /\ round = 1 => before = first
  /\ \A e \in Experts \ Heard : score[e] = before[e]
  /\ \A i \in DOMAIN turns : LET t == turns[i] IN
       /\ t.round = round => t.score = score[t.agent] /\ t.delta = t.score - before[t.agent]
       /\ t.round = round - 1 => t.score = before[t.agent]

RecordInv == RecordTypes /\ Progress /\ TurnsMatch /\ ScoresMatch /\ Replayable
-----------------------------------------------------------------------------
(* The inductive invariant behind the rest *)

\* The members who have weight.
Weighty == {m \in Members : weights[m] > 0}

\* The verdict is made of what is on record, and somebody has a say in it.
VerdictMatch ==
  Done => /\ history \in Histories /\ Weighty # {}
          /\ overall = Weighted(weights, FinalConf(history), FinalScore(score, history))

VerdictInv == TypeOK /\ VerdictMatch
-----------------------------------------------------------------------------
(* What a comment says and the code does not keep *)

\* With everybody at the threshold or above the devil's advocate is heard.
DevilIsHeard == Done /\ Overheated(first) => devil
=============================================================================
