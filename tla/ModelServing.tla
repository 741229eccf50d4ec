---------------------------- MODULE ModelServing -----------------------------
(***************************************************************************)
(* The embedding and re-ranking models of the agent, loaded on demand and  *)
(* shared by all its threads: agent/app/infra/embedding_client.py, with    *)
(* its callers vectorize_candidate (vectorization.py), match_skills        *)
(* (skill_graph.py) and the query and ranking of the rough screening, and  *)
(* the collection of chroma_client.py, which outlives the process.         *)
(*                                                                         *)
(* A vector is named by the model that computed it.                        *)
(***************************************************************************)

EXTENDS Naturals

CONSTANTS
  Threads,  \* bounds the calls in progress
  None      \* nobody, no model, no vectors

Models == {"bge-m3", "minilm"}

ASSUME NobodyAssumption == None \notin Threads \cup Models \cup {"scores", "pending", "reranker"}

VARIABLES
  crossEncoder,  \* rerank_mode is cross_encoder
  embedder,      \* _embedder
  backend,       \* _embedder_backend
  loader,        \* who holds _embedder_lock
  reranker,      \* _reranker and _reranker_failed
  rerankLoader,  \* who holds _reranker_lock
  tags,          \* _TAG_VECS
  collection,    \* the vectors in Chroma
  job,           \* job[t]: what thread t computes
  at,            \* at[t]: where it is
  model,         \* model[t]: the model it got
  branch,        \* branch[t]: the backend it read when it began to encode
  tries,         \* tries[t]: races it has seen
  inferring,     \* threads between _model_infer_lock's acquisition and release
  answer,        \* history: answer[t], what the last call returned to thread t
  crossed,       \* history: threads whose inference met another
  excused,       \* history: threads whose call met a failure of a model, or a model without a name
  restarted      \* history: there was another process before

loading == <<embedder, backend, loader, reranker, rerankLoader>>
stores == <<tags, collection>>
threads == <<job, at, model, branch, tries>>
history == <<answer, crossed, excused, restarted>>
vars == <<crossEncoder, loading, stores, threads, inferring, history>>

Jobs == {"none", "warm", "warmReranker", "backend", "tags", "skills", "vectorize", "query", "cosine", "rerank"}
Places == {"idle", "get", "wait", "load", "name", "want", "infer",
           "getReranker", "waitReranker", "loadReranker", "over"}

TypeOK ==
  /\ crossEncoder \in BOOLEAN /\ restarted \in BOOLEAN
  /\ embedder \in Models \cup {None} /\ backend \in Models \cup {None}
  /\ loader \in Threads \cup {None} /\ rerankLoader \in Threads \cup {None}
  /\ reranker \in {"none", "loaded", "failed"}
  /\ tags \in Models \cup {None} /\ collection \in Models \cup {None}
  /\ job \in [Threads -> Jobs] /\ at \in [Threads -> Places]
  /\ model \in [Threads -> Models \cup {None, "reranker"}]
  /\ branch \in [Threads -> Models \cup {None}]
  /\ tries \in [Threads -> 0..1]
  /\ inferring \subseteq Threads /\ crossed \subseteq Threads /\ excused \subseteq Threads
  /\ answer \in [Threads -> Models \cup {None, "scores", "pending"}]

InitProcess ==
  /\ embedder = None /\ backend = None /\ loader = None
  /\ reranker = "none" /\ rerankLoader = None /\ tags = None
  /\ job = [t \in Threads |-> "none"] /\ at = [t \in Threads |-> "idle"]
  /\ model = [t \in Threads |-> None] /\ branch = [t \in Threads |-> None]
  /\ tries = [t \in Threads |-> 0] /\ inferring = {}
  /\ answer = [t \in Threads |-> "pending"] /\ crossed = {} /\ excused = {}

Init == crossEncoder \in BOOLEAN /\ collection = None /\ restarted = FALSE /\ InitProcess

-----------------------------------------------------------------------------
(* Calls *)

Goto(t, place) == at' = [at EXCEPT ![t] = place]

Begin(t, j, place) ==
  /\ job' = [job EXCEPT ![t] = j] /\ Goto(t, place)
  /\ tries' = [tries EXCEPT ![t] = 0]
  /\ model' = [model EXCEPT ![t] = None] /\ branch' = [branch EXCEPT ![t] = None]
  /\ answer' = [answer EXCEPT ![t] = "pending"]
  /\ crossed' = crossed \ {t} /\ excused' = excused \ {t}
  /\ UNCHANGED <<crossEncoder, loading, stores, inferring, restarted>>

\* A free thread begins with something: warming up, normalising skills, computing the vectors of
\* a resume or of a query, ranking documents in the mode of the process or of the job.
Call(t) ==
  /\ at[t] = "idle"
  /\ \/ \E j \in {"warm", "backend", "vectorize", "query", "cosine"} : Begin(t, j, "get")
     \/ Begin(t, "rerank", "getReranker")
     \/ crossEncoder /\ Begin(t, "warmReranker", "getReranker")

\* match_skills goes on with tags that are not there yet and then the skills, whatever became of
\* the tags, the re-ranking with cosine when the cross-encoder has no scores; others are done.
Proceed(t) ==
  /\ at[t] = "over"
  /\ CASE job[t] = "backend" /\ answer[t] # None -> Begin(t, IF tags = None THEN "tags" ELSE "skills", "get")
       [] job[t] = "tags" -> Begin(t, "skills", "get")
       [] job[t] = "rerank" /\ answer[t] = None -> Begin(t, "cosine", "get")
       [] OTHER -> Begin(t, "none", "idle")

\* The first vectors Chroma stores decide on the dimension of the collection, which refuses others.
Return(t, r) ==
  /\ Goto(t, "over")
  /\ answer' = [answer EXCEPT ![t] = r]
  /\ collection' \in IF job[t] = "vectorize" /\ collection = None THEN {None, r} ELSE {collection}
  /\ tags' = IF job[t] = "tags" THEN r ELSE tags

-----------------------------------------------------------------------------
(* get_embedder *)

\* warmup and embed_backend want no more than the model.
Got(t, m) ==
  /\ model' = [model EXCEPT ![t] = m]
  /\ IF job[t] \in {"warm", "backend"} THEN Return(t, m) ELSE Goto(t, "want") /\ UNCHANGED <<stores, answer>>

\* The first look is without the lock.
GetEmbedder(t) ==
  /\ at[t] = "get"
  /\ IF embedder = None THEN Goto(t, "wait") /\ UNCHANGED <<stores, model, answer>> ELSE Got(t, embedder)
  /\ UNCHANGED <<crossEncoder, loading, job, branch, tries, inferring, crossed, excused, restarted>>

\* The second look.  A faulty variant does without.
NeededAnyway == TRUE
Needed == embedder = None

TakeEmbedderLock(t) ==
  /\ at[t] = "wait" /\ loader = None
  /\ IF Needed THEN loader' = t /\ Goto(t, "load") /\ UNCHANGED <<stores, model, answer>>
               ELSE Got(t, embedder) /\ UNCHANGED loader
  /\ UNCHANGED <<crossEncoder, embedder, backend, reranker, rerankLoader, job, branch, tries, inferring,
                 crossed, excused, restarted>>

\* _load_embedder: the model is there for all threads before its name is.
Publish(t) ==
  /\ at[t] = "load" /\ Goto(t, "name")
  /\ \E m \in Models : embedder' = m
  /\ UNCHANGED <<crossEncoder, backend, loader, reranker, rerankLoader, stores, job, model, branch, tries,
                 inferring, history>>

NameBackend(t) ==
  /\ at[t] = "name"
  /\ backend' = embedder /\ loader' = None
  /\ Got(t, embedder)
  /\ UNCHANGED <<crossEncoder, embedder, reranker, rerankLoader, job, branch, tries, inferring,
                 crossed, excused, restarted>>

\* Neither model can be loaded; the next call tries again.
LoadFails(t) ==
  /\ at[t] = "load"
  /\ loader' = None
  /\ Return(t, None)
  /\ excused' = excused \cup {t}
  /\ UNCHANGED <<crossEncoder, embedder, backend, reranker, rerankLoader, job, model, branch, tries,
                 inferring, crossed, restarted>>

-----------------------------------------------------------------------------
(* get_reranker: once it failed it is not tried again *)

Scoring(t) == model' = [model EXCEPT ![t] = "reranker"] /\ Goto(t, "want") /\ UNCHANGED <<stores, answer>>
GotReranker(t) ==
  IF reranker = "loaded" /\ job[t] = "rerank" THEN Scoring(t)
  ELSE Return(t, IF reranker = "loaded" THEN "scores" ELSE None) /\ UNCHANGED model

GetReranker(t) ==
  /\ at[t] = "getReranker"
  /\ IF reranker = "none" THEN Goto(t, "waitReranker") /\ UNCHANGED <<stores, model, answer>>
                          ELSE GotReranker(t)
  /\ excused' = IF reranker = "failed" THEN excused \cup {t} ELSE excused
  /\ UNCHANGED <<crossEncoder, loading, job, branch, tries, inferring, crossed, restarted>>

TakeRerankerLock(t) ==
  /\ at[t] = "waitReranker" /\ rerankLoader = None
  /\ rerankLoader' = t /\ Goto(t, "loadReranker")
  /\ UNCHANGED <<crossEncoder, embedder, backend, loader, reranker, stores, job, model, branch, tries,
                 inferring, history>>

LoadReranker(t) ==
  /\ at[t] = "loadReranker" /\ rerankLoader' = None
  /\ IF reranker = "none" THEN reranker' \in {"loaded", "failed"} ELSE UNCHANGED reranker
  /\ Goto(t, "getReranker")
  /\ UNCHANGED <<crossEncoder, embedder, backend, loader, stores, job, model, branch, tries, inferring, history>>

-----------------------------------------------------------------------------
(* embed_texts, rerank *)

\* One lock for both models.  A faulty variant has one for each.
FreeForModel(t) == \A u \in inferring : (model[u] = "reranker") # (model[t] = "reranker")
Free(t) == inferring = {}

\* The name of the backend is read under the lock; when it is not set yet, the model is called as
\* if it were the other one.
Infer(t) ==
  /\ at[t] = "want" /\ Free(t)
  /\ Goto(t, "infer")
  /\ branch' = [branch EXCEPT ![t] = backend]
  /\ inferring' = inferring \cup {t}
  /\ crossed' = IF inferring = {} THEN crossed ELSE crossed \cup inferring \cup {t}
  /\ excused' = IF model[t] = "bge-m3" /\ backend = None THEN excused \cup {t} ELSE excused
  /\ UNCHANGED <<crossEncoder, loading, stores, job, model, tries, answer, restarted>>

Suits(t) == model[t] = "reranker" \/ (model[t] = "bge-m3") = (branch[t] = "bge-m3")

Succeeds(t) ==
  /\ at[t] = "infer" /\ t \notin crossed /\ Suits(t)
  /\ inferring' = inferring \ {t}
  /\ Return(t, IF model[t] = "reranker" THEN "scores" ELSE model[t])
  /\ UNCHANGED <<crossEncoder, loading, job, model, branch, tries, crossed, excused, restarted>>

\* The tokenizer was used by two threads, or says so for reasons of its own: embed_texts tries once
\* more.  A faulty variant tries as long as it takes.
MayRetryAlways(t) == model[t] # "reranker"
MayRetry(t) == model[t] # "reranker" /\ tries[t] = 0

Races(t) ==
  /\ at[t] = "infer" /\ MayRetry(t)
  /\ inferring' = inferring \ {t}
  /\ tries' = [tries EXCEPT ![t] = @ + 1] /\ Goto(t, "want")
  /\ crossed' = crossed \ {t}
  /\ UNCHANGED <<crossEncoder, loading, stores, job, model, branch, answer, excused, restarted>>

\* The model fails, or two threads were in it, or it was called wrongly: no answer but None.
Fails(t) ==
  /\ at[t] = "infer"
  /\ inferring' = inferring \ {t}
  /\ Return(t, None)
  /\ excused' = IF t \in crossed \/ ~Suits(t) THEN excused ELSE excused \cup {t}
  /\ UNCHANGED <<crossEncoder, loading, job, model, branch, tries, crossed, restarted>>

\* The process is replaced by a new one, the collection stays.
Restart ==
  /\ embedder' = None /\ backend' = None /\ loader' = None
  /\ reranker' = "none" /\ rerankLoader' = None /\ tags' = None
  /\ job' = [t \in Threads |-> "none"] /\ at' = [t \in Threads |-> "idle"]
  /\ model' = [t \in Threads |-> None] /\ branch' = [t \in Threads |-> None]
  /\ tries' = [t \in Threads |-> 0] /\ inferring' = {}
  /\ answer' = [t \in Threads |-> "pending"] /\ crossed' = {} /\ excused' = {}
  /\ restarted' = TRUE
  /\ UNCHANGED <<crossEncoder, collection>>

ThreadStep(t) ==
  \/ Call(t) \/ Proceed(t)
  \/ GetEmbedder(t) \/ TakeEmbedderLock(t) \/ Publish(t) \/ NameBackend(t) \/ LoadFails(t)
  \/ GetReranker(t) \/ TakeRerankerLock(t) \/ LoadReranker(t)
  \/ Infer(t) \/ Succeeds(t) \/ Races(t) \/ Fails(t)

Next == Restart \/ \E t \in Threads : ThreadStep(t)

Spec == Init /\ [][Next]_vars

-----------------------------------------------------------------------------
(* Properties *)

\* However many threads meet the missing model at once, one embedding model serves the process: the
\* name of the backend, the model each thread got, the vectors it was answered and those kept of
\* the tags agree, and the collection has vectors of another model only from an earlier process.
OneModelServes ==
  /\ backend \in {None, embedder} /\ tags \in {None, embedder}
  /\ \A t \in Threads : /\ model[t] \in {None, "reranker", embedder}
                        /\ answer[t] \in {None, "pending", "scores", embedder}
  /\ restarted \/ collection \in {None, embedder}

\* A call is answered with nothing, on which candidates lose their vectors, their standard skills
\* or the ranking, only when a model could not be loaded or failed, or the call met BGE-M3 before
\* its name was set; never because two threads were in the models at once.
NoneForAReason == \A t \in Threads : answer[t] = None => t \in excused

\* At most one thread is inside the models, both models together.
SerialInference == \A t, u \in inferring : t = u

-----------------------------------------------------------------------------
(* The inductive invariant *)

\* Who loads holds the lock, and nobody has published a model before; who infers is alone.
Locks ==
  /\ \A t \in Threads : at[t] \in {"load", "name"} <=> loader = t
  /\ \A t \in Threads : /\ at[t] = "load" => embedder = None
                        /\ at[t] = "name" => embedder # None
  /\ inferring = {t \in Threads : at[t] = "infer"} /\ crossed = {}
  /\ SerialInference

\* A thread encodes with the model it got, in that model's way unless it had no name.
Encoding ==
  \A t \in Threads :
    /\ at[t] \in {"want", "infer"} => model[t] # None
    /\ at[t] = "infer" /\ model[t] # "reranker" =>
         branch[t] = model[t] \/ (branch[t] = None /\ (model[t] = "bge-m3" => t \in excused))

\* Only a ranking uses the reranker.
Ranking ==
  \A t \in Threads :
    /\ at[t] \in {"getReranker", "waitReranker", "loadReranker"} => job[t] \in {"warmReranker", "rerank"}
    /\ model[t] = "reranker" => job[t] = "rerank"

ServingInv == TypeOK /\ Ranking /\ Locks /\ Encoding /\ OneModelServes /\ NoneForAReason
=============================================================================
