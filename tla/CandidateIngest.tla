--------------------------- MODULE CandidateIngest ---------------------------
(***************************************************************************)
(* Uploading and deleting candidates:                                      *)
(* backend/internal/service/candidate_service.go over CandidateRepo of     *)
(* backend/internal/repository/business.go, and the agent's api/parsing.py *)
(* with resume_parser.py, vectorization.py and chroma_client.py.           *)
(*                                                                         *)
(* Every upload draws a fresh candidate id, under which its vectors go to  *)
(* Chroma.  Identifiers, resumes and vectors are therefore named by the    *)
(* upload they come from.  One tenant.  The raw text is taken out of the    *)
(* agent's answer and never stored: RoughScreening screens without it.     *)
(***************************************************************************)
EXTENDS FiniteSets

CONSTANTS
  Uploads,  \* upload requests, and with them the identifiers and resumes: bounds the uploads
  Emails,   \* what identifies a candidate within the tenant
  None      \* no row, no e-mail address

\* The columns that matter: whose id, whose structured fields.
Row == [id : Uploads, resume : Uploads]

ASSUME NoneAssumption == None \notin Uploads \cup Emails \cup Row

VARIABLES
  background,  \* the setting VECTORIZE_IN_BACKGROUND
  step,        \* step[u]: where upload u is
  email,       \* email[u]: the address extracted from the resume of u, or None
  found,       \* found[u]: the id of the row its upsert found, or None
  job,         \* job[u]: the vectorisation of u
  row,         \* row[e]: the candidates row of e, or None
  written,     \* history: uploads whose resume was in a row
  vectors,     \* uploads whose chunks are in Chroma
  cleaning,    \* ids whose row is deleted and whose vectors are about to be
  deleted,     \* history: ids whose row was deleted
  cleaned      \* history: ids whose vectors were deleted after their vectorisation had ended

uploadVars == <<step, email, found>>
vars == <<background, step, email, found, job, row, written, vectors, cleaning, deleted,
          cleaned>>

Parsed == {"lookup", "write", "stored"}

TypeOK ==
  /\ background \in BOOLEAN
  /\ step \in [Uploads -> {"new", "parsing", "failed"} \cup Parsed]
  /\ email \in [Uploads -> Emails \cup {None}]
  /\ \A u \in Uploads : step[u] \in Parsed => email[u] \in Emails
  /\ found \in [Uploads -> Uploads \cup {None}]
  /\ job \in [Uploads -> {"none", "running", "over"}]
  /\ row \in [Emails -> Row \cup {None}]
  /\ {written, vectors, cleaning, deleted, cleaned} \subseteq SUBSET Uploads

Init ==
  /\ background \in BOOLEAN
  /\ step = [u \in Uploads |-> "new"]
  /\ email = [u \in Uploads |-> None]
  /\ found = [u \in Uploads |-> None]
  /\ job = [u \in Uploads |-> "none"]
  /\ row = [e \in Emails |-> None]
  /\ written = {} /\ vectors = {} /\ cleaning = {} /\ deleted = {} /\ cleaned = {}

-----------------------------------------------------------------------------
(* The agent parses *)

Goto(u, from, to) == step[u] = from /\ step' = [step EXCEPT ![u] = to]

Started(u) == [job EXCEPT ![u] = "running"]

\* Without the background setting the vectors are computed beside the extraction.
StartUpload(u) ==
  /\ Goto(u, "new", "parsing")
  /\ job' = IF background THEN job ELSE Started(u)
  /\ UNCHANGED <<background, email, found, row, written, vectors, cleaning, deleted, cleaned>>

\* The answer to the upload is awaited until the vectors are done, unless they are computed in
\* the background, which starts before the answer.
Extracted(u) ==
  IF background THEN job' = Started(u) ELSE job[u] = "over" /\ UNCHANGED job

\* A candidate without an address is refused.  A faulty variant: the check is missing.
UsableAny(e) == TRUE
Usable(e) == e # None

Answered(u) ==
  /\ Extracted(u)
  /\ \E e \in Emails \cup {None} :
       /\ email' = [email EXCEPT ![u] = e]
       /\ Goto(u, "parsing", IF Usable(e) THEN "lookup" ELSE "failed")
  /\ UNCHANGED <<background, found, row, written, vectors, cleaning, deleted, cleaned>>

\* Extraction fails, or its answer is lost: the agent may go on to vectorise.
ParsingFails(u) ==
  /\ Goto(u, "parsing", "failed")
  /\ job' \in {job, IF background THEN Started(u) ELSE job}
  /\ UNCHANGED <<background, email, found, row, written, vectors, cleaning, deleted, cleaned>>

\* upsert_resumes deletes the chunks of its id, of which there are none, and adds the new ones.
Vectorize(u) ==
  /\ job[u] = "running"
  /\ job' = [job EXCEPT ![u] = "over"]
  /\ vectors' = vectors \cup {u}
  /\ UNCHANGED <<background, uploadVars, row, written, cleaning, deleted, cleaned>>

\* Embedding or Chroma fails, which is logged; or the agent goes away.
VectorizeFails(u) ==
  /\ job[u] = "running"
  /\ job' = [job EXCEPT ![u] = "over"]
  /\ UNCHANGED <<background, uploadVars, row, written, vectors, cleaning, deleted, cleaned>>

-----------------------------------------------------------------------------
(* The backend stores: CandidateRepo.Upsert *)

FindExisting(u) ==
  /\ Goto(u, "lookup", "write")
  /\ found' = [found EXCEPT ![u] = IF row[email[u]] = None THEN None ELSE row[email[u]].id]
  /\ UNCHANGED <<background, email, job, row, written, vectors, cleaning, deleted, cleaned>>

\* What the rows of a table are about, for the history.
ResumesIn(table) == {table[e].resume : e \in {f \in Emails : table[f] # None}}

NewRow(u) == [id |-> u, resume |-> u]

\* The unique key refuses a second row.  A faulty variant does not look at the error.
AfterConflictIgnored == "stored"
AfterConflict == "failed"

Create(u) ==
  /\ step[u] = "write" /\ found[u] = None
  /\ IF row[email[u]] = None
       THEN Goto(u, "write", "stored") /\ row' = [row EXCEPT ![email[u]] = NewRow(u)]
       ELSE Goto(u, "write", AfterConflict) /\ UNCHANGED row
  /\ written' = written \cup ResumesIn(row')
  /\ UNCHANGED <<background, email, found, job, vectors, cleaning, deleted, cleaned>>

\* The id stays.  A faulty variant overwrites it as well.
OverwrittenWhole(r, u) == NewRow(u)
Overwritten(r, u) == [r EXCEPT !.resume = u]

\* UPDATE by the id that was found; that it may change no row goes unnoticed.
Update(u) ==
  /\ step[u] = "write" /\ found[u] # None
  /\ Goto(u, "write", "stored")
  /\ row' = [e \in Emails |-> IF row[e] # None /\ row[e].id = found[u]
                               THEN Overwritten(row[e], u) ELSE row[e]]
  /\ written' = written \cup ResumesIn(row')
  /\ UNCHANGED <<background, email, found, job, vectors, cleaning, deleted, cleaned>>

\* The database fails, or the backend goes away.
StoringFails(u) ==
  /\ Goto(u, "lookup", "failed") \/ Goto(u, "write", "failed")
  /\ UNCHANGED <<background, email, found, job, row, written, vectors, cleaning, deleted, cleaned>>

-----------------------------------------------------------------------------
(* CandidateService.Delete *)

DeleteRow(e) ==
  /\ row[e] # None
  /\ row' = [row EXCEPT ![e] = None]
  /\ cleaning' = cleaning \cup {row[e].id}
  /\ deleted' = deleted \cup {row[e].id}
  /\ UNCHANGED <<background, uploadVars, job, written, vectors, cleaned>>

\* Chroma's delete by id.  A faulty variant matches nothing.
WithoutVectorsOfNone(i) == vectors
WithoutVectorsOf(i) == vectors \ {i}

DeleteVectors(i) ==
  /\ i \in cleaning
  /\ cleaning' = cleaning \ {i}
  /\ vectors' = WithoutVectorsOf(i)
  /\ cleaned' = IF job[i] = "running" THEN cleaned ELSE cleaned \cup {i}
  /\ UNCHANGED <<background, uploadVars, job, row, written, deleted>>

\* The result of the call is ignored; or the backend goes away before it.
DeleteVectorsFails(i) ==
  /\ i \in cleaning
  /\ cleaning' = cleaning \ {i}
  /\ UNCHANGED <<background, uploadVars, job, row, written, vectors, deleted, cleaned>>

-----------------------------------------------------------------------------

UploadStep(u) ==
  \/ StartUpload(u) \/ Answered(u) \/ ParsingFails(u)
  \/ Vectorize(u) \/ VectorizeFails(u)
  \/ FindExisting(u) \/ Create(u) \/ Update(u) \/ StoringFails(u)

Next ==
  \/ \E u \in Uploads : UploadStep(u)
  \/ \E e \in Emails : DeleteRow(e)
  \/ \E i \in Uploads : DeleteVectors(i) \/ DeleteVectorsFails(i)

Spec == Init /\ [][Next]_vars
-----------------------------------------------------------------------------
(* Properties *)

Present == {e \in Emails : row[e] # None}

\* Match results, checkpoints and interactions refer to a candidate by id: the candidate keeps it
\* as long as it has a row, no other one has it or gets it, and it does not come back after the
\* deletion.
IdentityKept ==
  [][/\ \A e, f \in Emails :
          row[e] # None /\ row'[f] # None => (row'[f].id = row[e].id <=> e = f)
     /\ \A e \in Emails : row'[e] # None => row'[e].id \notin deleted']_vars

\* An upload that reports success was in the row of its candidate, unless the row it found was
\* deleted meanwhile: no race for a row loses an upload silently.
SuccessIsStored ==
  \A u \in Uploads : step[u] = "stored" => u \in written \/ found[u] \in deleted

\* Vectors in Chroma belong to a candidate or an upload under way, or to one of the three ways
\* to leave them behind: a failed upload, a repeated one, which filed them under an id that no
\* row gets, and a deletion that did not clean up or was overtaken by the vectorisation.
VectorsExplained ==
  \A u \in vectors :
    \/ \E e \in Present : row[e].id = u
    \/ step[u] \in {"parsing", "lookup", "write", "failed"}
    \/ step[u] = "stored" /\ found[u] # None
    \/ u \in deleted \ cleaned

-----------------------------------------------------------------------------
(* The inductive invariant *)

\* Vectors, rows and deletions belong to uploads that came that far.
Order ==
  \A u \in Uploads :
    /\ step[u] = "new" => job[u] # "running" /\ u \notin vectors
    /\ u \in cleaning \cup cleaned => u \in deleted
    /\ u \in deleted => step[u] = "stored"
    /\ u \in cleaned => u \notin vectors /\ job[u] # "running"

\* A row has the id of the upload that created it.
RowOrigin ==
  \A e \in Present :
    /\ step[row[e].id] = "stored" /\ found[row[e].id] = None /\ email[row[e].id] = e
    /\ row[e].id \notin deleted

\* The row an upload found was created by another one.
FoundOrigin ==
  \A u \in Uploads :
    step[u] \in {"write", "stored"} /\ found[u] # None =>
      step[found[u]] = "stored" /\ found[found[u]] = None

\* Who created a row still has it, or it was deleted.
CreatorKnown ==
  \A u \in Uploads :
    step[u] = "stored" /\ found[u] = None =>
      u \in deleted \/ \E e \in Present : row[e].id = u

IngestInv ==
  /\ TypeOK /\ Order /\ RowOrigin /\ FoundOrigin /\ CreatorKnown /\ SuccessIsStored
=============================================================================
