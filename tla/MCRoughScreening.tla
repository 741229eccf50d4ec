-------------------------- MODULE MCRoughScreening ---------------------------
\* Instances of RoughScreening for TLC.
EXTENDS RoughScreening

CONSTANTS p1, p2, p3, stranger, java, go, x, y

\* One batch; two; two of which the second has the first one's candidate again.
Batches == {<<<<p1, p2>>>>, <<<<p1, p2>>, <<p3>>>>, <<<<p1>>, <<p2, p1>>>>}

\* Tags are their own rule; the vectors of x and y are near tags.
RuleOfNames == [n \in {x, y, java, go} |-> IF n \in {x, y} THEN NoTag ELSE n]
TagNear == [n \in {x, y, java, go} |-> CASE n = x -> java [] n = y -> go [] OTHER -> NoTag]
WordIn == {<<go, y>>}

\* Somebody who fits, somebody with a name twice and three years in jobs that overlap, whose text
\* came along, and somebody with too low a degree, who was parsed without an embedding model.  The
\* backend sends no texts (CandidateIngest); the agent's interface has them.
Job(s, e) == [start |-> s, end |-> e]
Person(degree, history, raw, embedded, text) ==
  [degree |-> degree, history |-> history, raw |-> raw, embedded |-> embedded, text |-> text]
People ==
  {Person(2, <<Job(2020, NoYear)>>, <<x>>, TRUE, {}),
   Person(2, <<Job(2021, 2023), Job(2020, 2022)>>, <<x, x, y>>, TRUE, {x, y}),
   Person(1, <<Job(2010, 2020)>>, <<java>>, FALSE, {})}
Positions ==
  {[degree |-> 2, years |-> 3, skills |-> {java, go}], [degree |-> 0, years |-> 0, skills |-> {java}]}

Set(mode, override, factor) == [mode |-> mode, override |-> override, factor |-> factor]
Configured == {Set("cosine", None, 1), Set("cross_encoder", None, 1), Set("cosine", "cross_encoder", 2),
               Set("cross_encoder", "cosine", 1), Set("other", None, 2)}

Marks == [cosine |-> 55, cross_encoder |-> 40]
=============================================================================
