----------------------------- MODULE WorkHistory -----------------------------
(***************************************************************************)
(* What the agent reads out of a work history: the score of the rule based *)
(* StabilityAnalyzer (agent/app/agents/experts.py) and the years of        *)
(* experience of the hard filter                                           *)
(* (agent/app/services/screening/hard_filter.py).                          *)
(*                                                                         *)
(* A history is a sequence of jobs with the years found in their dates,    *)
(* NoYear where none is found.                                             *)
(***************************************************************************)
EXTENDS Integers, Sequences, SequencesExt, FiniteSetsExt, Functions

CONSTANT Now  \* the year it is

\* The analyzer's present, whatever the year.
AnalyzerNow == 2026
NoYear == 0

\* The analyzer's year is the one it was written in.
ASSUME NowAssumption == Now \in Nat /\ Now >= AnalyzerNow

Employments == [start : Nat, end : Nat]

Later(a, b) == IF a < b THEN b ELSE a

\* list.sort: what before does not order stays in its order.
Sorted(s, before(_, _)) ==
  LET place(i) == Cardinality({j \in DOMAIN s : before(s[j], s[i]) \/ (j <= i /\ ~before(s[i], s[j]))})
  IN  [p \in DOMAIN s |-> s[CHOOSE i \in DOMAIN s : place(i) = p]]

\* A job without an end lasts; one that ends before it starts lasts no time.
Span(j, now) ==
  [start |-> j.start, end |-> Later(IF j.end = NoYear THEN now ELSE j.end, j.start)]

\* By their starts.  A faulty variant leaves them in the order of the resume.
SpansAsWritten(h) == [i \in DOMAIN h |-> Span(h[i], AnalyzerNow)]
Spans(h) ==
  Sorted([i \in DOMAIN h |-> Span(h[i], AnalyzerNow)], LAMBDA s, t : s.start < t.start)

Plus(a, b) == a + b
Total(s) == FoldFunctionOnSet(Plus, 0, s, DOMAIN s)

-----------------------------------------------------------------------------
(* StabilityAnalyzer.evaluate *)

\* Of the jobs that last any time; one without a start lasts since the year 0.
Tenures(h) ==
  LET s == Spans(h) IN [i \in {i \in DOMAIN s : s[i].end > s[i].start} |-> s[i].end - s[i].start]

\* By the average: at least three, two, one years, or less.
TenureScore(h) ==
  LET years == Total(Tenures(h))
      jobs  == Cardinality(DOMAIN Tenures(h))
  IN  CASE jobs > 0 /\ years >= 3 * jobs -> 90
        [] jobs > 0 /\ years >= 2 * jobs /\ years < 3 * jobs -> 80
        [] jobs > 0 /\ years >= jobs /\ years < 2 * jobs -> 65
        [] OTHER -> 40

\* From the end of a job to the start of the next one in order: a job inside an earlier one
\* makes a gap after it.
Gaps(h) ==
  LET s == Spans(h) IN [i \in 1..Len(h) - 1 |-> Later(s[i + 1].start - s[i].end, 0)]

\* Eight points a year, 24 at most.
GapPenalty(h) == IF Len(h) < 2 THEN 0 ELSE Min({24, 8 * Total(Gaps(h))})

StabilityScore(h) == IF h = <<>> THEN 60 ELSE Later(TenureScore(h) - GapPenalty(h), 0)

\* In tenths.
StabilityConfidence(h) == IF h = <<>> THEN 3 ELSE 9

-----------------------------------------------------------------------------
(* candidate_years *)

\* Years covered by jobs with a start.  The code merges overlapping spans in their order; the
\* covered years, each from its beginning to the next, are the same.
Dated(h) == {i \in DOMAIN h : h[i].start # NoYear}
CoveredYears(h) == UNION {Span(h[i], Now).start..Span(h[i], Now).end - 1 : i \in Dated(h)}
CandidateYears(h) == Cardinality(CoveredYears(h))
=============================================================================
