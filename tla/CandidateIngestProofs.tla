------------------------ MODULE CandidateIngestProofs ------------------------
(***************************************************************************)
(* Proofs about CandidateIngest for any number of uploads and candidates.  *)
(***************************************************************************)
EXTENDS CandidateIngest, TLAPS

\* Nothing is stored at first.
LEMMA InitIngest == Init => IngestInv
<1> SUFFICES ASSUME Init PROVE IngestInv
  OBVIOUS
<1>1. TypeOK
  BY DEF Init, TypeOK, Parsed
<1>2. Order /\ RowOrigin /\ FoundOrigin /\ CreatorKnown /\ SuccessIsStored
  BY DEF Init, Order, RowOrigin, Present, FoundOrigin, CreatorKnown, SuccessIsStored
<1> QED
  BY <1>1, <1>2 DEF IngestInv

\* Rows are about resumes.
LEMMA RowsAboutUploads ==
  ASSUME NEW table \in [Emails -> Row \cup {None}]
  PROVE  ResumesIn(table) \subseteq Uploads
<1>1. \A e \in Emails : table[e] # None => table[e].resume \in Uploads
  BY DEF Row
<1> QED
  BY <1>1 DEF ResumesIn

\* Every step keeps the types.
LEMMA TypeKept ==
  ASSUME TypeOK, [Next]_vars
  PROVE  TypeOK'
<1> USE NoneAssumption DEF TypeOK, Parsed, uploadVars
<1>1. ASSUME NEW u \in Uploads, UploadStep(u) PROVE TypeOK'
  <2>1. CASE StartUpload(u)
    BY <2>1 DEF StartUpload, Goto, Started
  <2>2. CASE Answered(u)
    <3>1. job' \in [Uploads -> {"none", "running", "over"}]
      BY <2>2 DEF Answered, Extracted, Started
    <3>2. PICK e \in Emails \cup {None} :
            /\ email' = [email EXCEPT ![u] = e]
            /\ Goto(u, "parsing", IF Usable(e) THEN "lookup" ELSE "failed")
      BY <2>2 DEF Answered
    <3>3. /\ step' \in [Uploads -> {"new", "parsing", "failed"} \cup Parsed]
          /\ email' \in [Uploads -> Emails \cup {None}]
          /\ \A v \in Uploads : step'[v] \in Parsed => email'[v] \in Emails
      BY <3>2 DEF Goto, Usable
    <3> QED
      BY <2>2, <3>1, <3>3 DEF Answered
  <2>3. CASE ParsingFails(u)
    BY <2>3 DEF ParsingFails, Goto, Started
  <2>4. CASE Vectorize(u)
    BY <2>4 DEF Vectorize
  <2>5. CASE VectorizeFails(u)
    BY <2>5 DEF VectorizeFails
  <2>6. CASE FindExisting(u)
    <3>1. found' \in [Uploads -> Uploads \cup {None}]
      BY <2>6 DEF FindExisting, Goto, Row
    <3> QED
      BY <2>6, <3>1 DEF FindExisting, Goto
  <2>7. CASE Create(u)
    <3>1. NewRow(u) \in Row
      BY DEF NewRow, Row
    <3>2. row' \in [Emails -> Row \cup {None}]
      BY <2>7, <3>1 DEF Create
    <3>3. written' \in SUBSET Uploads
      BY <2>7, <3>2, RowsAboutUploads DEF Create
    <3> QED
      BY <2>7, <3>2, <3>3 DEF Create, Goto, AfterConflict
  <2>8. CASE Update(u)
    <3>1. \A r \in Row : Overwritten(r, u) \in Row
      BY DEF Overwritten, Row
    <3>2. row' \in [Emails -> Row \cup {None}]
      BY <2>8, <3>1 DEF Update
    <3>3. written' \in SUBSET Uploads
      BY <2>8, <3>2, RowsAboutUploads DEF Update
    <3> QED
      BY <2>8, <3>2, <3>3 DEF Update, Goto
  <2>9. CASE StoringFails(u)
    BY <2>9 DEF StoringFails, Goto
  <2> QED
    BY <1>1, <2>1, <2>2, <2>3, <2>4, <2>5, <2>6, <2>7, <2>8, <2>9 DEF UploadStep
<1>2. ASSUME NEW e \in Emails, DeleteRow(e) PROVE TypeOK'
  BY <1>2 DEF DeleteRow, Row
<1>3. ASSUME NEW i \in Uploads, DeleteVectors(i) PROVE TypeOK'
  BY <1>3 DEF DeleteVectors, WithoutVectorsOf
<1>4. ASSUME NEW i \in Uploads, DeleteVectorsFails(i) PROVE TypeOK'
  BY <1>4 DEF DeleteVectorsFails
<1>5. CASE UNCHANGED vars
  BY <1>5 DEF vars
<1> QED
  BY <1>1, <1>2, <1>3, <1>4, <1>5 DEF Next

\* Every step keeps the relations between uploads, rows, vectors and deletions.
LEMMA IngestKept == IngestInv /\ [Next]_vars => IngestInv'
<1> SUFFICES ASSUME IngestInv, [Next]_vars PROVE IngestInv'
  OBVIOUS
<1>t. TypeOK'
  BY TypeKept DEF IngestInv
<1> DEFINE Rest == Order /\ RowOrigin /\ FoundOrigin /\ CreatorKnown /\ SuccessIsStored
<1> SUFFICES Rest'
  BY <1>t DEF IngestInv
<1> USE NoneAssumption DEF IngestInv, TypeOK, Parsed, uploadVars, Row, Present
<1>1. ASSUME NEW u \in Uploads, UploadStep(u) PROVE Rest'
  <2>1. CASE StartUpload(u) \/ ParsingFails(u) \/ Answered(u) \/ StoringFails(u)
    <3>1. /\ step[u] \in {"new", "parsing", "lookup", "write"}
          /\ step' = [step EXCEPT ![u] = step'[u]]
          /\ step'[u] \in {"parsing", "lookup", "failed"}
      BY <2>1 DEF StartUpload, ParsingFails, Answered, StoringFails, Goto
    <3>2. /\ \A v \in Uploads \ {u} : email'[v] = email[v] /\ job'[v] = job[v]
          /\ UNCHANGED <<found, row, written, vectors, cleaning, deleted, cleaned>>
      BY <2>1 DEF StartUpload, ParsingFails, Answered, StoringFails, Extracted, Started
    <3>3. Order'
      BY <3>1, <3>2 DEF Order
    <3>4. RowOrigin'
      BY <3>1, <3>2 DEF RowOrigin
    <3>5. FoundOrigin'
      BY <3>1, <3>2 DEF FoundOrigin
    <3>6. CreatorKnown'
      BY <3>1, <3>2 DEF CreatorKnown
    <3>7. SuccessIsStored'
      BY <3>1, <3>2 DEF SuccessIsStored
    <3> QED
      BY <3>3, <3>4, <3>5, <3>6, <3>7
  <2>2. CASE Vectorize(u) \/ VectorizeFails(u)
    <3>1. /\ job[u] = "running" /\ job' = [job EXCEPT ![u] = "over"]
          /\ vectors' \in {vectors, vectors \cup {u}}
          /\ UNCHANGED <<step, email, found, row, written, cleaning, deleted, cleaned>>
      BY <2>2 DEF Vectorize, VectorizeFails
    <3>2. Order'
      BY <3>1 DEF Order
    <3>3. RowOrigin' /\ FoundOrigin' /\ CreatorKnown' /\ SuccessIsStored'
      BY <3>1 DEF RowOrigin, FoundOrigin, CreatorKnown, SuccessIsStored
    <3> QED
      BY <3>2, <3>3
  <2>3. CASE FindExisting(u)
    <3>1. /\ step[u] = "lookup" /\ step' = [step EXCEPT ![u] = "write"]
          /\ found' = [found EXCEPT ![u] =
                         IF row[email[u]] = None THEN None ELSE row[email[u]].id]
          /\ UNCHANGED <<email, job, row, written, vectors, cleaning, deleted, cleaned>>
      BY <2>3 DEF FindExisting, Goto
    <3>2. Order'
      BY <3>1 DEF Order
    <3>3. RowOrigin'
      BY <3>1 DEF RowOrigin
    <3>4. FoundOrigin'
      BY <3>1 DEF FoundOrigin, RowOrigin
    <3>5. CreatorKnown'
      BY <3>1 DEF CreatorKnown
    <3>6. SuccessIsStored'
      BY <3>1 DEF SuccessIsStored
    <3> QED
      BY <3>2, <3>3, <3>4, <3>5, <3>6
  <2>4. CASE Create(u)
    <3>1. /\ step[u] = "write" /\ found[u] = None
          /\ written' = written \cup ResumesIn(row')
          /\ UNCHANGED <<email, found, job, vectors, cleaning, deleted, cleaned>>
      BY <2>4 DEF Create
    <3>2. CASE row[email[u]] = None
      <4>1. /\ step' = [step EXCEPT ![u] = "stored"]
            /\ row' = [row EXCEPT ![email[u]] = NewRow(u)]
        BY <2>4, <3>2 DEF Create, Goto
      <4>2. NewRow(u).id = u /\ NewRow(u).resume = u /\ NewRow(u) # None
        BY DEF NewRow
      <4>3. email[u] \in Emails
        BY <3>1
      <4>4. Order'
        BY <3>1, <4>1 DEF Order
      <4>5. RowOrigin'
        BY <3>1, <4>1, <4>2, <4>3 DEF RowOrigin, Order
      <4>6. FoundOrigin'
        BY <3>1, <4>1 DEF FoundOrigin
      <4>7. CreatorKnown'
        BY <3>1, <3>2, <4>1, <4>2, <4>3 DEF CreatorKnown
      <4>8. u \in ResumesIn(row')
        BY <3>1, <4>1, <4>2, <4>3 DEF ResumesIn
      <4>9. SuccessIsStored'
        BY <3>1, <4>1, <4>8 DEF SuccessIsStored
      <4> QED
        BY <4>4, <4>5, <4>6, <4>7, <4>9
    <3>3. CASE row[email[u]] # None
      <4>1. step' = [step EXCEPT ![u] = "failed"] /\ UNCHANGED row
        BY <2>4, <3>3 DEF Create, Goto, AfterConflict
      <4>2. Order' /\ RowOrigin'
        BY <3>1, <4>1 DEF Order, RowOrigin
      <4>3. FoundOrigin' /\ CreatorKnown'
        BY <3>1, <4>1 DEF FoundOrigin, CreatorKnown
      <4>4. SuccessIsStored'
        BY <3>1, <4>1 DEF SuccessIsStored
      <4> QED
        BY <4>2, <4>3, <4>4
    <3> QED
      BY <3>2, <3>3
  <2>5. CASE Update(u)
    <3>1. /\ step[u] = "write" /\ found[u] # None /\ found[u] \in Uploads
          /\ step' = [step EXCEPT ![u] = "stored"]
          /\ written' = written \cup ResumesIn(row')
          /\ UNCHANGED <<email, found, job, vectors, cleaning, deleted, cleaned>>
      BY <2>5 DEF Update, Goto
    <3> HIDE DEF Row
    <3>o. \A r \in Row : Overwritten(r, u) \in Row
      BY DEF Overwritten, Row
    <3>2. \A e \in Emails : (row'[e] = None) <=> (row[e] = None)
      BY <2>5, <3>o DEF Update
    <3>3. \A e \in Present :
            /\ row'[e].id = row[e].id
            /\ row'[e].resume = IF row[e].id = found[u] THEN u ELSE row[e].resume
      BY <2>5 DEF Update, Overwritten, Row
    <3>4. step[found[u]] = "stored" /\ found[found[u]] = None
      BY <3>1 DEF FoundOrigin
    <3>5. Order'
      BY <3>1 DEF Order
    <3>6. RowOrigin'
      BY <3>1, <3>2, <3>3, <3>4 DEF RowOrigin
    <3>7. FoundOrigin'
      BY <3>1 DEF FoundOrigin
    <3>8. CreatorKnown'
      BY <3>1, <3>2, <3>3 DEF CreatorKnown
    <3>9. found[u] \in deleted \/ u \in ResumesIn(row')
      <4> SUFFICES ASSUME found[u] \notin deleted PROVE u \in ResumesIn(row')
        OBVIOUS
      <4>1. PICK e \in Present : row[e].id = found[u]
        BY <3>1, <3>4 DEF CreatorKnown
      <4>2. row'[e] # None /\ row'[e].resume = u
        BY <3>2, <3>3, <4>1
      <4> QED
        BY <4>2 DEF ResumesIn
    <3>10. SuccessIsStored'
      BY <3>1, <3>9 DEF SuccessIsStored
    <3> QED
      BY <3>5, <3>6, <3>7, <3>8, <3>10
  <2> QED
    BY <1>1, <2>1, <2>2, <2>3, <2>4, <2>5 DEF UploadStep
<1>2. ASSUME NEW e \in Emails, DeleteRow(e) PROVE Rest'
  <2>1. /\ e \in Present /\ row' = [row EXCEPT ![e] = None]
        /\ cleaning' = cleaning \cup {row[e].id} /\ deleted' = deleted \cup {row[e].id}
        /\ UNCHANGED <<step, email, found, job, written, vectors, cleaned>>
    BY <1>2 DEF DeleteRow
  <2>2. Order'
    BY <2>1 DEF Order, RowOrigin
  <2>3. RowOrigin'
    BY <2>1 DEF RowOrigin
  <2>4. FoundOrigin'
    BY <2>1 DEF FoundOrigin
  <2>5. CreatorKnown'
    BY <2>1 DEF CreatorKnown
  <2>6. SuccessIsStored'
    BY <2>1 DEF SuccessIsStored
  <2> QED
    BY <2>2, <2>3, <2>4, <2>5, <2>6
<1>3. ASSUME NEW i \in Uploads, DeleteVectors(i) \/ DeleteVectorsFails(i) PROVE Rest'
  <2>1. UNCHANGED <<step, email, found, job, row, written, deleted>>
    BY <1>3 DEF DeleteVectors, DeleteVectorsFails
  <2>2. Order'
    BY <1>3 DEF DeleteVectors, DeleteVectorsFails, WithoutVectorsOf, Order
  <2>3. RowOrigin' /\ FoundOrigin' /\ CreatorKnown' /\ SuccessIsStored'
    BY <2>1 DEF RowOrigin, FoundOrigin, CreatorKnown, SuccessIsStored
  <2> QED
    BY <2>2, <2>3
<1>4. CASE UNCHANGED vars
  BY <1>4 DEF vars, Order, RowOrigin, FoundOrigin, CreatorKnown, SuccessIsStored
<1> QED
  BY <1>1, <1>2, <1>3, <1>4 DEF Next

\* Every reachable state satisfies the inductive invariant.
THEOREM IngestInductive == Spec => []IngestInv
BY InitIngest, IngestKept, PTL DEF Spec

-----------------------------------------------------------------------------

\* Type correctness.
THEOREM IngestTypes == Spec => []TypeOK
  BY IngestInductive, PTL DEF IngestInv

\* An upload that was answered with success was in its candidate's row, unless the row was
\* deleted meanwhile; losing the race for a new row is answered with an error.
THEOREM SuccessStored == Spec => []SuccessIsStored
<1>1. IngestInv => SuccessIsStored
  BY DEF IngestInv
<1> QED
  BY <1>1, IngestInductive, PTL

\* Vectors nobody's row refers to come from a failed or repeated upload or from a deletion
\* that did not clean up or was overtaken.
THEOREM VectorsHaveReason == Spec => []VectorsExplained
<1>1. ASSUME IngestInv PROVE VectorsExplained
  <2> SUFFICES ASSUME NEW u \in vectors, step[u] = "stored", found[u] = None
               PROVE  (\E e \in Present : row[e].id = u) \/ u \in deleted \ cleaned
    BY <1>1 DEF IngestInv, TypeOK, Order, Parsed, VectorsExplained
  <2>1. u \in Uploads /\ u \notin cleaned
    BY <1>1 DEF IngestInv, TypeOK, Order
  <2> QED
    BY <1>1, <2>1 DEF IngestInv, CreatorKnown
<1> QED
  BY <1>1, IngestInductive, PTL

\* Uploading a resume again keeps the candidate's id, and nobody else has it, now or later.
THEOREM IdKept == Spec => IdentityKept
<1> DEFINE Kept == \A e \in Emails : row[e] # None /\ row'[e] # None => row'[e].id = row[e].id
           Apart == \A e, f \in Emails :
                      row[e] # None /\ row'[f] # None /\ row'[f].id = row[e].id => e = f
           Gone == \A e \in Emails : row'[e] # None => row'[e].id \notin deleted'
<1>1. ASSUME TypeOK, [Next]_vars PROVE Kept
  <2> SUFFICES ASSUME NEW e \in Emails, row[e] # None, row'[e] # None
               PROVE  row'[e].id = row[e].id
    OBVIOUS
  <2> USE <1>1 DEF TypeOK, uploadVars
  <2>1. ASSUME NEW u \in Uploads, UploadStep(u) PROVE row'[e].id = row[e].id
    <3>1. CASE Update(u)
      BY <3>1 DEF Update, Overwritten, Row
    <3>2. CASE Create(u)
      BY <3>2 DEF Create, Parsed
    <3>3. CASE ~Update(u) /\ ~Create(u)
      BY <2>1, <3>3 DEF UploadStep, StartUpload, Answered, ParsingFails, Vectorize,
         VectorizeFails, FindExisting, StoringFails
    <3> QED
      BY <3>1, <3>2, <3>3
  <2>2. ASSUME NEW f \in Emails, DeleteRow(f) PROVE row'[e].id = row[e].id
    BY <2>2 DEF DeleteRow
  <2>3. ASSUME NEW i \in Uploads, DeleteVectors(i) \/ DeleteVectorsFails(i)
        PROVE  row'[e].id = row[e].id
    BY <2>3 DEF DeleteVectors, DeleteVectorsFails
  <2>4. CASE UNCHANGED vars
    BY <2>4 DEF vars
  <2> QED
    BY <1>1, <2>1, <2>2, <2>3, <2>4 DEF Next
\* The address of an upload that stored something is settled.
<1>2. ASSUME TypeOK, [Next]_vars, NEW u \in Uploads, step[u] = "stored" PROVE email'[u] = email[u]
  <2> USE <1>2 DEF TypeOK, uploadVars, Goto
  <2>1. ASSUME NEW v \in Uploads, UploadStep(v) PROVE email'[u] = email[u]
    <3>1. CASE StartUpload(v)
      BY <3>1 DEF StartUpload
    <3>2. CASE Answered(v)
      BY <3>2 DEF Answered
    <3>3. CASE ~StartUpload(v) /\ ~Answered(v)
      BY <2>1, <3>3 DEF UploadStep, ParsingFails, Vectorize, VectorizeFails, FindExisting, Create,
         Update, StoringFails
    <3> QED
      BY <3>1, <3>2, <3>3
  <2>2. ASSUME NEW f \in Emails, DeleteRow(f) PROVE email'[u] = email[u]
    BY <2>2 DEF DeleteRow
  <2>3. ASSUME NEW i \in Uploads, DeleteVectors(i) \/ DeleteVectorsFails(i)
        PROVE  email'[u] = email[u]
    BY <2>3 DEF DeleteVectors, DeleteVectorsFails
  <2>4. CASE UNCHANGED vars
    BY <2>4 DEF vars
  <2> QED
    BY <1>2, <2>1, <2>2, <2>3, <2>4 DEF Next
<1>3. ASSUME IngestInv, IngestInv', [Next]_vars PROVE Apart /\ Gone
  <2>1. ASSUME NEW e \in Emails, row[e] # None
        PROVE  row[e].id \in Uploads /\ step[row[e].id] = "stored" /\ email[row[e].id] = e
    BY <1>3, <2>1 DEF IngestInv, TypeOK, Row, RowOrigin, Present
  <2>2. ASSUME NEW f \in Emails, row'[f] # None
        PROVE  email'[row'[f].id] = f /\ row'[f].id \notin deleted'
    BY <1>3, <2>2 DEF IngestInv, RowOrigin, Present
  <2>3. ASSUME NEW e \in Emails, row[e] # None PROVE email'[row[e].id] = e
    BY <1>2, <1>3, <2>1, <2>3 DEF IngestInv
  <2> QED
    BY <2>2, <2>3
<1>4. ASSUME IngestInv, IngestInv', [Next]_vars
      PROVE  /\ \A e, f \in Emails :
                  row[e] # None /\ row'[f] # None => (row'[f].id = row[e].id <=> e = f)
             /\ \A e \in Emails : row'[e] # None => row'[e].id \notin deleted'
  <2>1. TypeOK
    BY <1>4 DEF IngestInv
  <2> QED
    BY <1>1, <1>3, <1>4, <2>1
<1> QED
  BY <1>4, IngestInductive, PTL DEF Spec, IdentityKept
=============================================================================
