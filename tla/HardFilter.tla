------------------------------ MODULE HardFilter ------------------------------
(***************************************************************************)
(* Who may be screened at all: the hard filter of                          *)
(* agent/app/services/screening/hard_filter.py over a candidate's          *)
(* structured fields, and how the skills among them come about             *)
(* (match_skills of agent/app/services/parsing/skill_graph.py).            *)
(*                                                                         *)
(* What depends on the spelling of skills is given as functions and a      *)
(* relation of names: names are those on a resume, tags those of a job.    *)
(***************************************************************************)
EXTENDS WorkHistory

CONSTANTS
  Rule,   \* _rule_map_one, a function on names: the tag of an alias in the name or around it, or NoTag
  Near,   \* the tag whose vector is similar enough to the name's, or NoTag
  Words,  \* pairs <<t, n>>: t stands between word boundaries in n, or n in a Chinese t's text
  NoTag

-----------------------------------------------------------------------------
(* match_skills *)

\* Those at the given places of a sequence, in their order.
Kept(s, places) ==
  [p \in 1..Cardinality(places) |-> s[CHOOSE i \in places : Cardinality({j \in places : j <= i}) = p]]

\* _dedupe: the first of each.
Dedupe(s) == Kept(s, {i \in DOMAIN s : \A j \in 1..i - 1 : s[j] # s[i]})

Unmatched(raw) == Kept(raw, {i \in DOMAIN raw : Rule[raw[i]] = NoTag})

\* _semantic_match: the tag the embedding finds for each name without a rule, or the name, without
\* repetition.
Semantic(names) ==
  Dedupe([i \in DOMAIN names |-> IF Near[names[i]] = NoTag THEN names[i] ELSE Near[names[i]]])

\* dict(zip(...)): the last position of a name counts, and positions beyond the shorter sequence
\* do not: what has been found is counted off against the names it was found for.
SemanticMap(names, n) ==
  LET at == {i \in DOMAIN names : names[i] = n /\ i \in DOMAIN Semantic(names)}
  IN  IF at = {} THEN n ELSE Semantic(names)[Max(at)]

\* The standard skills of a resume; embedded says whether the embedding model could be had.
MatchSkills(raw, embedded) ==
  {IF Rule[n] # NoTag THEN Rule[n]
   ELSE IF embedded THEN SemanticMap(Unmatched(raw), n) ELSE n : n \in ToSet(raw)}

\* What a name stands for.
TagOf(n, embedded) ==
  IF Rule[n] # NoTag THEN Rule[n] ELSE IF embedded /\ Near[n] # NoTag THEN Near[n] ELSE n

-----------------------------------------------------------------------------
(* hard_filter *)

\* skill_hit: exactly, or as a word in a skill or in the text.
SkillHit(t, skills, text) == \E n \in skills \cup text : n = t \/ <<t, n>> \in Words

Skills(c) == MatchSkills(c.raw, c.embedded)

\* A candidate: its degree, its history, the skills on its resume and the words of its raw text.
\* A job: what it requires, zero or nobody where it requires nothing; skills are those required
\* that are in its skill graph, one of which is enough.
DegreeOk(job, c) == job.degree = 0 \/ c.degree >= job.degree
YearsOk(job, c) == job.years = 0 \/ CandidateYears(c.history) >= job.years
SkillsOk(job, c) == job.skills = {} \/ \E t \in job.skills : SkillHit(t, Skills(c), c.text)

Passes(job, c) == DegreeOk(job, c) /\ YearsOk(job, c) /\ SkillsOk(job, c)
=============================================================================
