------------------------ MODULE ExtractionQueueProofs ------------------------
(***************************************************************************)
(* Safety of the extraction queue for every number of documents, workers,  *)
(* requests and attempts. The properties are not inductive one by one:     *)
(* that a worker may write its result depends on the job being its own,    *)
(* that depends on the unique index, and one extraction per document       *)
(* depends on both. QueueInv puts them together.                           *)
(***************************************************************************)
EXTENDS ExtractionQueue, TLAPS

\* What document, latest job and extractions of d tell about each other.
DocumentOK(d) ==
    /\ document[d] = "ABSENT" <=> job[d].status = "NONE"
    /\ document[d] = "QUEUED" => job[d].status = "PENDING"
    /\ document[d] = "PROCESSING" <=> job[d].status = "PROCESSING"
    /\ document[d] \in Results => extractions[d] > 0 /\ document[d] = OutcomeOf[d]
    /\ job[d].status = "PENDING" => job[d].attempts < MaxAttempts
    /\ job[d].attempts <= MaxAttempts
    /\ extractions[d] <= 1
    /\ extractions[d] > 0 => OutcomeOf[d] \in Results

\* A busy worker's job is under way, and once its child runs there is no extraction.
WorkerOK(w) ==
    /\ worker[w].stage = "idle" => worker[w].document = NoDocument
    /\ worker[w].stage # "idle" =>
          /\ worker[w].document \in Documents
          /\ job[worker[w].document].status = "PROCESSING"
    /\ worker[w].stage \notin {"idle", "claimed"} => extractions[worker[w].document] = 0

\* A request holds a document that has been uploaded.
RequestOK(q) ==
    request[q].stage # "idle" =>
        request[q].document \in Documents /\ document[request[q].document] # "ABSENT"

QueueInv ==
    /\ TypeOK
    /\ \A d \in Documents : DocumentOK(d)
    /\ \A w \in Workers : WorkerOK(w)
    /\ \A v, w \in Workers :
          (worker[v].stage # "idle" /\ worker[v].document = worker[w].document) => v = w
    /\ \A q \in Requests : RequestOK(q)

\* What LookUp and ClaimNextJob write has the type of what it replaces.
LEMMA RequestTypes ==
    /\ IdleRequest \in RequestState
    /\ \A r \in RequestState : [r EXCEPT !.stage = "inserting"] \in RequestState
  BY DEF RequestState, IdleRequest, DocumentStatuses

LEMMA ClaimedJobType ==
    \A j \in Job : [j EXCEPT !.status = "PROCESSING", !.attempts = j.attempts + 1] \in Job
  <1> TAKE j \in Job
  <1>1. PICK n \in Nat : n = j.attempts + 1
    BY DEF Job
  <1>2. [j EXCEPT !.status = "PROCESSING", !.attempts = n] \in Job
    BY Zenon DEF Job, JobStatuses
  <1>3. QED
    BY <1>1, <1>2

LEMMA InitQueueInv == Init => QueueInv
  <1> SUFFICES ASSUME Init PROVE QueueInv
    OBVIOUS
  <1> USE ExtractionAssumption DEF Init
  <1>1. TypeOK
    BY DEF TypeOK, DocumentStatuses, Job, JobStatuses, WorkerState, WorkerStages,
           RequestState, IdleWorker, IdleRequest
  <1>2. \A d \in Documents : DocumentOK(d)
    BY DEF DocumentOK, Results
  <1>3. QED
    BY <1>1, <1>2 DEF QueueInv, WorkerOK, RequestOK, IdleWorker, IdleRequest

-----------------------------------------------------------------------------
\* Requests, the clock, the disk: no worker's job is touched, since InsertJob
\* finds the unique index free.
LEMMA RequestsKeepQueueInv ==
    ASSUME QueueInv,
           \/ \E d \in Documents : Upload(d) \/ ComesDue(d) \/ FileChanges(d)
           \/ \E q \in Requests : RequestStep(q)
    PROVE  QueueInv'
  <1> USE ExtractionAssumption DEF QueueInv
  <1>1. ASSUME NEW d \in Documents, Upload(d) PROVE QueueInv'
    <2> USE <1>1 DEF Upload
    <2>1. TypeOK'
      BY DEF TypeOK, DocumentStatuses, Job, JobStatuses
    <2>2. \A e \in Documents : DocumentOK(e)'
      BY DEF DocumentOK, TypeOK, Results, Job
    <2>3. \A w \in Workers : WorkerOK(w)'
      BY DEF WorkerOK, DocumentOK, TypeOK
    <2>4. QED
      BY <2>1, <2>2, <2>3 DEF RequestOK, TypeOK
  <1>2. ASSUME NEW d \in Documents, ComesDue(d) PROVE QueueInv'
    <2> USE <1>2 DEF ComesDue
    <2>1. TypeOK'
      BY DEF TypeOK, Job
    <2>2. \A e \in Documents : DocumentOK(e)'
      BY DEF DocumentOK, TypeOK, Job
    <2>3. \A w \in Workers : WorkerOK(w)'
      BY DEF WorkerOK, TypeOK, Job
    <2>4. QED
      BY <2>1, <2>2, <2>3 DEF RequestOK
  <1>3. ASSUME NEW d \in Documents, FileChanges(d) PROVE QueueInv'
    <2> USE <1>3 DEF FileChanges
    <2>1. TypeOK'
      BY DEF TypeOK
    <2>2. QED
      BY <2>1 DEF DocumentOK, WorkerOK, RequestOK
  <1>4. ASSUME NEW q \in Requests, NEW d \in Documents, NEW force \in BOOLEAN,
               LoadDocument(q, d, force)
        PROVE  QueueInv'
    <2> USE <1>4 DEF LoadDocument
    <2>1. TypeOK'
      BY DEF TypeOK, RequestState
    <2>2. \A e \in Documents : DocumentOK(e)'
      BY DEF DocumentOK
    <2>3. \A w \in Workers : WorkerOK(w)'
      BY DEF WorkerOK
    <2>4. \A p \in Requests : RequestOK(p)'
      BY DEF RequestOK, TypeOK, RequestState
    <2>5. QED
      BY <2>1, <2>2, <2>3, <2>4
  <1>5. ASSUME NEW q \in Requests, LookUp(q) \/ InsertRefused(q) PROVE QueueInv'
    <2>1. request' \in [Requests -> RequestState]
      <3>1. CASE LookUp(q)
        <4>1. PICK r \in RequestState : r = request[q]
          BY DEF TypeOK
        <4>2. PICK s : /\ s \in {IdleRequest, [r EXCEPT !.stage = "inserting"]}
                       /\ request' = [request EXCEPT ![q] = s]
          BY <3>1, <4>1 DEF LookUp
        <4>3. s \in RequestState
          BY <4>2, RequestTypes
        <4>4. QED
          BY <4>2, <4>3 DEF TypeOK
      <3>2. CASE InsertRefused(q)
        BY <3>2 DEF InsertRefused, TypeOK, RequestState, IdleRequest, DocumentStatuses
      <3>3. QED
        BY <1>5, <3>1, <3>2
    <2>2. UNCHANGED <<document, job, extractions, file, worker, spent>>
      BY <1>5 DEF LookUp, InsertRefused
    <2>3. \A p \in Requests : RequestOK(p)'
      <3>1. \A p \in Requests \ {q} : request'[p] = request[p]
        BY <1>5 DEF LookUp, InsertRefused, TypeOK
      <3>2. request'[q].stage = "idle" \/ (request'[q].document = request[q].document
                                           /\ request[q].stage # "idle")
        BY <1>5 DEF LookUp, InsertRefused, TypeOK, IdleRequest, RequestState
      <3>3. QED
        BY <2>2, <3>1, <3>2 DEF RequestOK
    <2>4. QED
      BY <2>1, <2>2, <2>3 DEF TypeOK, DocumentOK, WorkerOK
  <1>6. ASSUME NEW q \in Requests, InsertJob(q) PROVE QueueInv'
    <2> USE <1>6 DEF InsertJob
    <2>1. PICK d \in Documents : d = request[q].document /\ document[d] # "ABSENT"
      BY DEF RequestOK
    <2>2. TypeOK'
      BY <2>1 DEF TypeOK, Job, JobStatuses, RequestState, IdleRequest, DocumentStatuses
    <2>3. DocumentOK(d)'
      <3>1. job'[d] = [status |-> "PENDING", attempts |-> 0, due |-> TRUE]
        BY <2>1 DEF TypeOK
      <3>2. document'[d] = document[d] \/ document'[d] = "QUEUED"
        BY <2>1 DEF TypeOK
      <3>3. document[d] # "PROCESSING" /\ extractions'[d] = extractions[d]
        BY <2>1 DEF DocumentOK, Active
      <3>4. QED
        BY <2>1, <3>1, <3>2, <3>3 DEF DocumentOK, Results
    <2>4. \A e \in Documents \ {d} : DocumentOK(e)'
      BY <2>1 DEF DocumentOK, TypeOK
    <2>5. \A w \in Workers : WorkerOK(w)'
      BY <2>1 DEF WorkerOK, TypeOK, Active
    <2>6. \A e \in Documents : document[e] # "ABSENT" => document'[e] # "ABSENT"
      BY <2>1 DEF TypeOK
    <2>7. \A p \in Requests : RequestOK(p)'
      BY <2>6 DEF RequestOK, TypeOK, IdleRequest
    <2>8. QED
      BY <2>2, <2>3, <2>4, <2>5, <2>7
  <1>7. QED
    BY <1>1, <1>2, <1>3, <1>4, <1>5, <1>6 DEF RequestStep

\* Claims: the job is PENDING, so no worker holds the document yet.
LEMMA ClaimKeepsQueueInv ==
    ASSUME QueueInv, NEW w \in Workers, NEW d \in Documents, ClaimNextJob(w, d)
    PROVE  QueueInv'
  <1> USE ExtractionAssumption DEF QueueInv, ClaimNextJob
  <1>1. TypeOK'
    <2>1. PICK j \in Job : j = job[d]
      BY DEF TypeOK
    <2>2. PICK claimed :
             claimed = [j EXCEPT !.status = "PROCESSING", !.attempts = j.attempts + 1]
      OBVIOUS
    <2>3. claimed \in Job /\ job' = [job EXCEPT ![d] = claimed]
      BY <2>1, <2>2, ClaimedJobType
    <2>4. job' \in [Documents -> Job]
      <3>1. job \in [Documents -> Job]
        BY DEF TypeOK
      <3> HIDE DEF QueueInv, ClaimNextJob
      <3>2. QED
        BY <2>3, <3>1
    <2>5. document' \in [Documents -> DocumentStatuses]
      BY DEF TypeOK, DocumentStatuses
    <2>6. worker' \in [Workers -> WorkerState]
      BY DEF TypeOK, WorkerState, WorkerStages
    <2>7. QED
      BY <2>4, <2>5, <2>6 DEF TypeOK
  <1>2. DocumentOK(d)'
    BY DEF DocumentOK, TypeOK, Job, Results
  <1>3. \A e \in Documents \ {d} : DocumentOK(e)'
    BY DEF DocumentOK, TypeOK
  <1>4. \A v \in Workers : worker[v].stage # "idle" => worker[v].document # d
    BY DEF WorkerOK, TypeOK
  <1>5. \A v \in Workers : WorkerOK(v)'
    BY <1>4 DEF WorkerOK, TypeOK, Job, WorkerState
  <1>6. \A u, v \in Workers :
          (worker'[u].stage # "idle" /\ worker'[u].document = worker'[v].document) => u = v
    BY <1>4 DEF TypeOK, WorkerState, WorkerOK
  <1>7. \A q \in Requests : RequestOK(q)'
    BY DEF RequestOK, TypeOK
  <1>8. QED
    BY <1>1, <1>2, <1>3, <1>5, <1>6, <1>7

\* A worker that ends its job: the job's document is its own, so it may write
\* both, and all it has to see to is that the result is fit to stand.
LEMMA EndOfJob ==
    ASSUME QueueInv, NEW w \in Workers, NEW d \in Documents,
           worker[w].stage # "idle", d = worker[w].document,
           worker' = [worker EXCEPT ![w] = IdleWorker],
           job' \in [Documents -> Job], document' \in [Documents -> DocumentStatuses],
           extractions' \in [Documents -> Nat],
           \A e \in Documents \ {d} :
              job'[e] = job[e] /\ document'[e] = document[e] /\ extractions'[e] = extractions[e],
           DocumentOK(d)', document'[d] # "ABSENT",
           UNCHANGED <<file, request, spent>>
    PROVE  QueueInv'
  <1> USE DEF QueueInv
  <1>1. TypeOK'
    BY DEF TypeOK, WorkerState, WorkerStages, IdleWorker
  <1>2. \A e \in Documents : DocumentOK(e)'
    BY DEF DocumentOK
  <1>3. \A v \in Workers \ {w} : worker'[v] = worker[v] /\ worker[v].document # d
    BY DEF TypeOK, WorkerOK
  <1>4. worker'[w] = IdleWorker
    BY DEF TypeOK
  <1>5. \A v \in Workers : WorkerOK(v)'
    BY <1>3, <1>4 DEF WorkerOK, IdleWorker
  <1>6. \A u, v \in Workers :
          (worker'[u].stage # "idle" /\ worker'[u].document = worker'[v].document) => u = v
    BY <1>3, <1>4, <1>5, ExtractionAssumption DEF WorkerOK, IdleWorker
  <1>7. \A q \in Requests : RequestOK(q)'
    BY DEF RequestOK
  <1>8. QED
    BY <1>1, <1>2, <1>5, <1>6, <1>7

LEMMA FailJobKeepsQueueInv ==
    ASSUME QueueInv, NEW w \in Workers, worker[w].stage # "idle", FailJob(w)
    PROVE  QueueInv'
  <1>1. PICK d \in Documents : d = worker[w].document
    BY DEF QueueInv, WorkerOK
  <1>2. job[d].status = "PROCESSING" /\ job[d] \in Job /\ DocumentOK(d)
    BY <1>1 DEF QueueInv, WorkerOK, TypeOK
  <1>3. /\ FailedJob(job[d]) \in Job
        /\ FailedJob(job[d]).attempts = job[d].attempts
        /\ \/ FailedJob(job[d]).status = "PENDING" /\ job[d].attempts < MaxAttempts
           \/ FailedJob(job[d]).status = "FAILED"
    BY <1>2, ExtractionAssumption DEF FailedJob, Job, JobStatuses
  <1>4. job' = [job EXCEPT ![d] = FailedJob(job[d])]
    BY <1>1 DEF FailJob
  <1>5. document' = [document EXCEPT ![d] =
                       IF FailedJob(job[d]).status = "PENDING" THEN "QUEUED" ELSE "FAILED"]
    BY <1>1 DEF FailJob
  <1>6. extractions' = extractions /\ UNCHANGED <<file, request, spent>>
        /\ worker' = [worker EXCEPT ![w] = IdleWorker]
    BY DEF FailJob
  <1>7. job'[d] = FailedJob(job[d]) /\ job' \in [Documents -> Job]
    BY <1>3, <1>4 DEF QueueInv, TypeOK
  <1>8. /\ document'[d] = IF FailedJob(job[d]).status = "PENDING" THEN "QUEUED" ELSE "FAILED"
        /\ document' \in [Documents -> DocumentStatuses]
    BY <1>5 DEF QueueInv, TypeOK, DocumentStatuses
  <1>9. DocumentOK(d)' /\ document'[d] # "ABSENT"
    BY <1>2, <1>3, <1>6, <1>7, <1>8 DEF DocumentOK, Results
  <1>10. \A e \in Documents \ {d} : job'[e] = job[e] /\ document'[e] = document[e]
    BY <1>4, <1>5 DEF QueueInv, TypeOK
  <1>11. extractions' \in [Documents -> Nat]
    BY <1>6 DEF QueueInv, TypeOK
  <1>12. QED
    BY <1>1, <1>6, <1>7, <1>8, <1>9, <1>10, <1>11, EndOfJob

\* A job completes with the extraction that was there, or with its first one.
LEMMA CompletionKeepsQueueInv ==
    ASSUME QueueInv, NEW w \in Workers, CompleteIdempotent(w) \/ PersistResult(w)
    PROVE  QueueInv'
  <1>1. worker[w].stage \in {"claimed", "answered"}
    BY DEF CompleteIdempotent, PersistResult
  <1>2. PICK d \in Documents : d = worker[w].document
    BY <1>1 DEF QueueInv, WorkerOK
  <1>3. job[d].status = "PROCESSING" /\ job[d] \in Job /\ DocumentOK(d)
    BY <1>1, <1>2 DEF QueueInv, WorkerOK, TypeOK
  <1>4. /\ job' = [job EXCEPT ![d].status = "COMPLETED"]
        /\ document' = [document EXCEPT ![d] = OutcomeOf[d]]
        /\ worker' = [worker EXCEPT ![w] = IdleWorker]
        /\ UNCHANGED <<file, request, spent>>
    BY <1>2 DEF CompleteIdempotent, PersistResult
  <1>5. /\ extractions' \in [Documents -> Nat]
        /\ extractions'[d] = 1
        /\ \A e \in Documents \ {d} : extractions'[e] = extractions[e]
        /\ OutcomeOf[d] \in Results
    <2>1. CASE CompleteIdempotent(w)
      \* The rows that are there were written with the same outcome.
      <3>1. extractions[d] = 1 /\ extractions' = extractions
        BY <2>1, <1>2, <1>3 DEF CompleteIdempotent, DocumentOK, QueueInv, TypeOK
      <3>2. OutcomeOf[d] \in Results
        BY <3>1, <1>3 DEF DocumentOK
      <3>3. QED
        BY <3>1, <3>2 DEF QueueInv, TypeOK
    <2>2. CASE PersistResult(w)
      <3>1. extractions[d] = 0 /\ extractions' = [extractions EXCEPT ![d] = @ + 1]
        BY <2>2, <1>2 DEF PersistResult, QueueInv, WorkerOK
      <3>2. OutcomeOf[d] \in Results
        BY <2>2, <1>2, ExtractionAssumption DEF PersistResult
      <3>3. QED
        BY <3>1, <3>2 DEF QueueInv, TypeOK
    <2>3. QED
      BY <2>1, <2>2
  <1>6. /\ job'[d] = [job[d] EXCEPT !.status = "COMPLETED"]
        /\ job' \in [Documents -> Job]
        /\ \A e \in Documents \ {d} : job'[e] = job[e]
    BY <1>3, <1>4 DEF QueueInv, TypeOK, Job, JobStatuses
  <1>7. /\ document'[d] = OutcomeOf[d]
        /\ document' \in [Documents -> DocumentStatuses]
        /\ \A e \in Documents \ {d} : document'[e] = document[e]
    BY <1>4, <1>5 DEF QueueInv, TypeOK, DocumentStatuses
  <1>8. DocumentOK(d)' /\ document'[d] # "ABSENT"
    BY <1>3, <1>5, <1>6, <1>7 DEF DocumentOK, Job, Results
  <1>9. QED
    BY <1>1, <1>2, <1>4, <1>5, <1>6, <1>7, <1>8, EndOfJob

\* The child comes and goes, and the worker may die: no row is written. The
\* child is started only when there is no extraction.
LEMMA ChildKeepsQueueInv ==
    ASSUME QueueInv, NEW w \in Workers,
           StartChild(w) \/ ChildPuts(w) \/ ChildDies(w) \/ Crash(w)
    PROVE  QueueInv'
  <1>1. /\ UNCHANGED <<document, job, extractions, file, request>>
        /\ \A v \in Workers \ {w} : worker'[v] = worker[v]
        /\ worker[w].stage # "idle"
        /\ spent' \in [requests : Nat, crashes : Nat, disk : Nat]
    BY DEF QueueInv, TypeOK, StartChild, ChildPuts, ChildDies, Crash
  <1>2. \/ worker'[w] = IdleWorker
        \/ /\ worker'[w].document = worker[w].document
           /\ worker'[w].stage \in WorkerStages \ {"idle"}
           /\ extractions[worker[w].document] = 0
    <2>1. worker[w] \in WorkerState
      BY DEF QueueInv, TypeOK
    <2>2. CASE Crash(w)
      BY <2>2 DEF Crash, QueueInv, TypeOK
    <2>3. CASE StartChild(w)
      BY <2>1, <2>3, ExtractionAssumption
      DEF StartChild, QueueInv, WorkerOK, TypeOK, WorkerState, WorkerStages
    <2>4. CASE ChildPuts(w) \/ ChildDies(w)
      BY <2>1, <2>4 DEF ChildPuts, ChildDies, QueueInv, WorkerOK, TypeOK, WorkerState, WorkerStages
    <2>5. QED
      BY <2>2, <2>3, <2>4
  <1>3. worker' \in [Workers -> WorkerState]
    BY DEF QueueInv, TypeOK, WorkerState, WorkerStages, IdleWorker,
           StartChild, ChildPuts, ChildDies, Crash
  <1>4. TypeOK'
    BY <1>1, <1>3 DEF QueueInv, TypeOK
  <1>5. \A v \in Workers : WorkerOK(v)'
    BY <1>1, <1>2 DEF QueueInv, WorkerOK, IdleWorker
  <1>6. \A u, v \in Workers :
          (worker'[u].stage # "idle" /\ worker'[u].document = worker'[v].document) => u = v
    BY <1>1, <1>2, <1>5, ExtractionAssumption DEF QueueInv, WorkerOK, IdleWorker
  <1>7. QED
    BY <1>1, <1>4, <1>5, <1>6 DEF QueueInv, DocumentOK, RequestOK

\* The inductive invariant holds of every behaviour of the queue.
THEOREM SpecQueueInv == Spec => []QueueInv
  <1>1. QueueInv /\ [Next]_vars => QueueInv'
    <2> SUFFICES ASSUME QueueInv, [Next]_vars PROVE QueueInv'
      OBVIOUS
    <2>1. CASE UNCHANGED vars
      BY <2>1 DEF vars, QueueInv, TypeOK, DocumentOK, WorkerOK, RequestOK
    <2>2. ASSUME NEW w \in Workers, WorkerStep(w) PROVE QueueInv'
      <3>1. CASE SourceFails(w) \/ TimeOut(w) \/ ReadFailure(w)
        BY <3>1, FailJobKeepsQueueInv DEF SourceFails, TimeOut, ReadFailure
      <3>2. CASE CompleteIdempotent(w) \/ PersistResult(w)
        BY <3>2, CompletionKeepsQueueInv
      <3>3. CASE StartChild(w) \/ ChildPuts(w) \/ ChildDies(w)
        BY <3>3, ChildKeepsQueueInv
      <3>4. CASE \E d \in Documents : ClaimNextJob(w, d)
        BY <3>4, ClaimKeepsQueueInv
      <3>5. QED
        BY <2>2, <3>1, <3>2, <3>3, <3>4 DEF WorkerStep
    <2>3. QED
      BY <2>1, <2>2, RequestsKeepQueueInv, ChildKeepsQueueInv DEF Next
  <1>2. QED
    BY <1>1, InitQueueInv, PTL DEF Spec

\* One worker at most has a job in hand, and the job is under way.
THEOREM QueueOneWorkerPerJob == Spec => []OneWorkerPerJob
  <1>1. QueueInv => OneWorkerPerJob
    BY DEF QueueInv, WorkerOK, OneWorkerPerJob
  <1>2. QED
    BY <1>1, SpecQueueInv, PTL

\* A document never gets a second extraction, for any number of workers, forced
\* retries, timeouts and crashes.
THEOREM QueueSingleExtraction == Spec => []SingleExtraction
  <1>1. QueueInv => SingleExtraction
    BY DEF QueueInv, DocumentOK, SingleExtraction
  <1>2. QED
    BY <1>1, SpecQueueInv, PTL

\* QUEUED, PROCESSING and every result a document shows are backed by its job
\* and its extraction.
THEOREM QueueStatusBacked == Spec => []StatusBacked
  <1>1. QueueInv => StatusBacked
    BY DEF QueueInv, DocumentOK, StatusBacked
  <1>2. QED
    BY <1>1, SpecQueueInv, PTL

\* No job is tried more than max_attempts times.
THEOREM QueueAttemptsWithinMax == Spec => []AttemptsWithinMax
  <1>1. QueueInv => AttemptsWithinMax
    BY DEF QueueInv, DocumentOK, AttemptsWithinMax
  <1>2. QED
    BY <1>1, SpecQueueInv, PTL
=============================================================================
