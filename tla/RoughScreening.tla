--------------------------- MODULE RoughScreening ----------------------------
(***************************************************************************)
(* The rough screening of one run: run_screening of                        *)
(* agent/app/services/screening/orchestrator.py up to rough_result, over   *)
(* hybrid_screener.py, bm25_index.py, reranker.py and the vectors of       *)
(* chroma_client.py.                                                       *)
(*                                                                         *)
(* Candidates come in batches, each filtered and recalled in a thread of   *)
(* its own.  The vectors of the tenant may change between two batches, and *)
(* belong to candidates of other batches and to nobody (CandidateIngest)   *)
(* as well: what a query finds is chosen.  Scores of texts are chosen from *)
(* a few values.  Rewriting the query is in FineScreening.                 *)
(***************************************************************************)
EXTENDS HardFilter

CONSTANTS
  Strangers,      \* ids with vectors in the tenant that are not in the request
  Requests,       \* the batches of a request, sequences of sequences of ids
  Jobs,           \* requirements of jobs
  Profiles,       \* what candidates are like
  TopK,           \* rag_top_k: bounds what a path recalls
  RrfK,           \* rrf_k
  MaxCandidates,  \* max_candidates
  Settings,       \* what is configured: [mode, override, factor]
  Values,         \* scores the models may give: bounds them
  Threshold,      \* Threshold["cosine"], Threshold["cross_encoder"]
  None            \* no mode

Modes == {"cosine", "cross_encoder", "other"}
Ids == UNION {UNION {ToSet(r[i]) : i \in DOMAIN r} : r \in Requests}

\* A batch is a page of rows of the backend, which lists nobody twice.
ASSUME RoughAssumption ==
  /\ TopK \in Nat /\ RrfK \in Nat /\ MaxCandidates \in Nat \ {0}
  /\ None \notin Modes
  /\ Settings \subseteq [mode : Modes, override : Modes \cup {None}, factor : Nat]
  /\ Values \subseteq Int /\ Threshold \in [{"cosine", "cross_encoder"} -> Int]
  /\ \A r \in Requests : r \in Seq(Seq(Ids)) /\ \A i \in DOMAIN r : IsInjective(r[i])
  /\ \A p \in Profiles : p.raw \in Seq(DOMAIN Rule) /\ p.embedded \in BOOLEAN

VARIABLES
  request,   \* the batches
  job,       \* the job's requirements
  profile,   \* profile[c]: the candidate c
  setting,   \* rerank_mode of the process, that of the job or None, rerank_pairs_factor of the run
  vector,    \* whether the query could be embedded
  next,      \* the batch to be screened, one beyond the last for the final ranking
  hit,       \* history: ids recalled by their vectors
  silent,    \* history: batches for which both paths found nothing
  best,      \* history: best[c], the highest score of any batch for c
  merged,    \* merged, in order of insertion: [id, score]
  scale,     \* what the final scores are measured in
  ranked,    \* the final ranking: [id, score]
  scored     \* history: the final score of each candidate that was reranked

config == <<request, job, profile, setting, vector>>
result == <<scale, ranked, scored>>
vars == <<config, next, hit, silent, best, merged, result>>

Payload == UNION {ToSet(request[i]) : i \in DOMAIN request}
IdsIn(s) == {s[i].id : i \in DOMAIN s}

TypeOK ==
  /\ request \in Requests /\ job \in Jobs /\ profile \in [Ids -> Profiles]
  /\ setting \in Settings /\ vector \in BOOLEAN
  /\ next \in 1..Len(request) + 2
  /\ hit \subseteq Ids \cup Strangers /\ silent \subseteq DOMAIN request
  /\ best \in [Ids \cup Strangers -> Nat]
  /\ IdsIn(merged) \subseteq Ids \cup Strangers /\ Cardinality(IdsIn(merged)) = Len(merged)
  /\ scale \in {"none", "rrf", "cosine", "cross_encoder"}
  /\ IdsIn(ranked) \subseteq Payload /\ Cardinality(IdsIn(ranked)) = Len(ranked)
  /\ Len(ranked) <= MaxCandidates

Init ==
  /\ request \in Requests /\ job \in Jobs /\ profile \in [Ids -> Profiles]
  /\ setting \in Settings /\ vector \in BOOLEAN
  /\ next = 1 /\ hit = {} /\ silent = {} /\ best = [c \in Ids \cup Strangers |-> 0] /\ merged = <<>>
  /\ scale = "none" /\ ranked = <<>> /\ scored = <<>>

-----------------------------------------------------------------------------
(* One batch: screen_batch *)

Pool(i) == Kept(request[i], {j \in DOMAIN request[i] : Passes(job, profile[request[i][j]])})

\* Chroma's answer: chunks by similarity, so that a candidate may come up repeatedly, from the
\* whole tenant; nothing without a vector, on errors, or when there is nothing.
DenseHits == IF vector THEN SeqOf(Ids \cup Strangers, TopK) ELSE {<<>>}

\* BM25Plus over the raw texts of the pool: with a word of the query in any of them everybody
\* scores, and the first TopK in an order that is chosen are taken.
SparseHits(pool) ==
  LET n == Min({TopK, Len(pool)})
  IN  IF \A c \in ToSet(pool) : profile[c].text = {} THEN {<<>>}
      ELSE {<<>>} \cup {s \in [1..n -> ToSet(pool)] : IsInjective(s)}

\* 1 / (k + rank) for each hit, in millionths.
Reciprocal(r) == 1000000 \div (RrfK + r)
Rrf(c, hits) ==
  FoldFunctionOnSet(Plus, 0, [i \in DOMAIN hits |-> Reciprocal(i)], {i \in DOMAIN hits : hits[i] = c})

ByScore(s) == Sorted(s, LAMBDA a, b : a.score > b.score)

\* In the order of first appearance where the scores are equal.
Fuse(dense, sparse) ==
  LET ids == Dedupe(dense \o sparse)
  IN  ByScore([i \in DOMAIN ids |-> [id |-> ids[i], score |-> Rrf(ids[i], dense) + Rrf(ids[i], sparse)]])

\* Everybody who passed, when both paths found nothing.  A faulty variant takes the whole batch.
UnfilteredBatch(i) == [j \in DOMAIN request[i] |-> [id |-> request[i][j], score |-> 0]]
WholePool(i) == LET pool == Pool(i) IN [j \in DOMAIN pool |-> [id |-> pool[j], score |-> 0]]

\* A candidate keeps the higher score, and its place.  A faulty variant keeps the later score.
MergeLater(old, new) ==
  [i \in DOMAIN old |-> IF old[i].id \in IdsIn(new)
                        THEN new[CHOOSE j \in DOMAIN new : new[j].id = old[i].id] ELSE old[i]]
  \o Kept(new, {j \in DOMAIN new : new[j].id \notin IdsIn(old)})
Merge(old, new) ==
  [i \in DOMAIN old |->
     LET higher == {j \in DOMAIN new : new[j].id = old[i].id /\ new[j].score > old[i].score}
     IN  IF higher = {} THEN old[i] ELSE new[CHOOSE j \in higher : TRUE]]
  \o Kept(new, {j \in DOMAIN new : new[j].id \notin IdsIn(old)})

Found(i, dense, sparse) ==
  LET fused == Fuse(dense, sparse) IN IF fused = <<>> THEN WholePool(i) ELSE fused

ScreenBatch ==
  /\ next <= Len(request) /\ next' = next + 1
  /\ Pool(next) # <<>>
  /\ \E dense \in DenseHits, sparse \in SparseHits(Pool(next)) :
     \E found \in {Found(next, dense, sparse)} :
       /\ merged' = Merge(merged, found)
       /\ hit' = hit \cup ToSet(dense)
       /\ silent' = IF dense \o sparse = <<>> THEN silent \cup {next} ELSE silent
       /\ best' = [c \in DOMAIN best |->
                     Max({best[c]} \cup {found[j].score : j \in {k \in DOMAIN found : found[k].id = c}})]
  /\ UNCHANGED <<config, result>>

\* A batch nobody of which passes asks nothing.
SkipBatch ==
  /\ next <= Len(request) /\ next' = next + 1
  /\ Pool(next) = <<>>
  /\ UNCHANGED <<config, hit, silent, best, merged, result>>

-----------------------------------------------------------------------------
(* The final ranking: finalize_ranking *)

Mode == IF setting.override # None THEN setting.override ELSE setting.mode

\* The best of all batches go to the model.  Ids of strangers are passed over, but have taken a
\* place; ids in the request are known whatever the filter said of them.
TopN == Max({1, MaxCandidates * (IF Mode = "cosine" THEN Max({setting.factor, 4}) ELSE setting.factor)})
Pairs == LET ahead == SubSeq(ByScore(merged), 1, Min({TopN, Len(merged)}))
         IN  Kept([i \in DOMAIN ahead |-> ahead[i].id], {i \in DOMAIN ahead : ahead[i].id \in Payload})

\* rerank_documents: the cross-encoder in its mode, cosine in any other mode and when there is no
\* cross-encoder, no scores but those of the fusion when there are no vectors.
Scales == {"cosine", "rrf"} \cup {s \in {"cross_encoder"} : Mode = s}

\* In ten-thousandths, as they are compared.
Rounded(score) == (score + 50) \div 100
Scores(s, ids) == IF s = "rrf" THEN {[c \in ids |-> Rounded(best[c])]} ELSE [ids -> Values]

\* _effective_threshold: by the mode, whatever was measured.
PassMark == Threshold[IF Mode = "cosine" THEN "cosine" ELSE "cross_encoder"]

\* A faulty variant returns everybody above the threshold.
Unlimited(s) == s
Limited(s) == SubSeq(s, 1, Min({MaxCandidates, Len(s)}))

Passing(ids, s, score) ==
  LET rows == [i \in DOMAIN ids |-> [id |-> ids[i], score |-> score[ids[i]]]]
  IN  Kept(rows, {i \in DOMAIN rows : s = "rrf" \/ rows[i].score >= PassMark})

Finalize ==
  /\ next = Len(request) + 1 /\ next' = next + 1
  /\ \E ids \in {Pairs}, s \in Scales : \E score \in Scores(s, ToSet(ids)) :
       /\ scale' = IF ids = <<>> THEN "none" ELSE s
       /\ scored' = score
       /\ ranked' = Limited(ByScore(Passing(ids, s, score)))
  /\ UNCHANGED <<config, hit, silent, best, merged>>

\* rough_result was sent.
Sent == next = Len(request) + 2 /\ UNCHANGED vars

Next == ScreenBatch \/ SkipBatch \/ Finalize \/ Sent

Spec == Init /\ [][Next]_vars

-----------------------------------------------------------------------------
(* Properties *)

Over == next = Len(request) + 2

\* The names a candidate's resume has or stands for.
KnownBy(c) == LET raw == ToSet(profile[c].raw)
              IN  raw \cup {TagOf(n, profile[c].embedded) : n \in raw} \cup profile[c].text
Fits(c, names) ==
  /\ DegreeOk(job, profile[c]) /\ YearsOk(job, profile[c])
  /\ job.skills = {} \/ \E t \in job.skills, n \in names : n = t \/ <<t, n>> \in Words

\* Whoever is in the final ranking is in the request, fits the job by the resume or was recalled by
\* vectors of the tenant, which no filter stands before, and has the score the threshold asks for;
\* and the threshold is that of the scores, except where the cross-encoder was to measure them and
\* could not, or the mode is unknown.
RankedForAReason ==
  Over => \A i \in DOMAIN ranked :
    LET c == ranked[i].id
    IN  /\ Fits(c, KnownBy(c)) \/ c \in hit
        /\ scale # "rrf" => ranked[i].score >= PassMark
        /\ scale # "rrf" /\ Mode = "cosine" => scale = "cosine" /\ ranked[i].score >= Threshold["cosine"]
        /\ scale = "cross_encoder" => ranked[i].score >= Threshold["cross_encoder"]

\* A name without a rule that stands twice on a resume displaces the tags of the names after it.
NamesRepeat(c) == ~IsInjective(Unmatched(profile[c].raw))

Tags(c) == {TagOf(n, profile[c].embedded) : n \in ToSet(profile[c].raw)} \cup profile[c].text

Recalled(c) == c \in IdsIn(merged)
Ahead(c) == {d \in IdsIn(merged) \ {c} : best[d] >= best[c]}

\* Whoever is in the request and not in the final ranking does not fit the job, has a resume that
\* repeats a name, was recalled by no path while each batch with the candidate recalled others, had
\* as many recalled at least as high in their best batch, ids of strangers among them, as go to the
\* model, missed the threshold, or had a full ranking above. Nobody is lost between the batches.
LeftOutForAReason ==
  Over => \A c \in Payload \ IdsIn(ranked) :
    \/ ~Fits(c, Tags(c))
    \/ NamesRepeat(c)
    \/ ~Recalled(c) /\ silent \cap {i \in DOMAIN request : c \in ToSet(request[i])} = {}
    \/ Recalled(c) /\ Cardinality(Ahead(c)) >= TopN
    \/ c \in DOMAIN scored /\ scale # "rrf" /\ scored[c] < PassMark
    \/ /\ c \in DOMAIN scored /\ Len(ranked) = MaxCandidates
       /\ \A i \in DOMAIN ranked : ranked[i].score >= scored[c]

-----------------------------------------------------------------------------
(* The inductive invariant behind them *)

\* Nobody was merged twice, and everybody with the best score of any batch.
MergedIsBest ==
  /\ merged \in Seq([id : Ids \cup Strangers, score : Int])
  /\ \A i, j \in DOMAIN merged : merged[i].id = merged[j].id => i = j
  /\ \A i \in DOMAIN merged : merged[i].score = best[merged[i].id]
  /\ \A c \in (Ids \cup Strangers) \ IdsIn(merged) : best[c] = 0

\* Whoever was merged passed the filter or has vectors that were hit, and a silent batch has lost
\* nobody who passed.
MergedForAReason ==
  /\ \A c \in IdsIn(merged) : c \in hit \/ (c \in Payload /\ Passes(job, profile[c]))
  /\ \A i \in silent : \A c \in ToSet(request[i]) : Passes(job, profile[c]) => Recalled(c)

\* Who has a final score, and what became of it.
FinalMatch ==
  /\ ~Over => scale = "none" /\ ranked = <<>> /\ scored = <<>>
  /\ ranked \in Seq([id : Payload, score : Int])
  /\ \A i, j \in DOMAIN ranked : ranked[i].id = ranked[j].id => i = j
  /\ scored \in [DOMAIN scored -> Int] /\ DOMAIN scored \subseteq Payload \cap IdsIn(merged)
  /\ DOMAIN scored # {} => scale \in Scales
  /\ \A i \in DOMAIN ranked :
       /\ ranked[i].id \in DOMAIN scored /\ ranked[i].score = scored[ranked[i].id]
       /\ scale # "rrf" => ranked[i].score >= PassMark
  /\ \A c \in DOMAIN scored \ IdsIn(ranked) :
       \/ scale # "rrf" /\ scored[c] < PassMark
       \/ Len(ranked) = MaxCandidates /\ \A i \in DOMAIN ranked : ranked[i].score >= scored[c]
  /\ Over => \A c \in Payload : Recalled(c) /\ c \notin DOMAIN scored => Cardinality(Ahead(c)) >= TopN

RoughInv == TypeOK /\ MergedIsBest /\ MergedForAReason /\ FinalMatch
=============================================================================
