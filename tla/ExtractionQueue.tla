--------------------------- MODULE ExtractionQueue ---------------------------
(***************************************************************************)
(* The queue of document extractions: upload and enqueue requests of the   *)
(* API, the worker processes of runner.py that claim jobs, and the child   *)
(* process each of them starts to extract one document, which answers      *)
(* through a multiprocessing.Queue, that is, through a pipe.               *)
(*                                                                         *)
(* A document has at most one job that is not finished, so `job` holds its *)
(* latest one. A request reads the document first, looks for a job later   *)
(* and commits later still; the worker holds its objects across commits.   *)
(***************************************************************************)
EXTENDS Naturals, FiniteSets

CONSTANTS
    Documents,
    NoDocument,     \* what an idle worker or request holds
    Workers,
    Requests,       \* enqueue requests that may run at the same time
    MaxAttempts,    \* settings.worker_max_attempts
    OutcomeOf,      \* [Documents -> Results \cup {"FAILED"}]: what the extractors say
    Heavy,          \* documents whose extraction may be slow or kill the child
    Large,          \* documents whose segments do not fit in the pipe of the queue
    RequestBudget,  \* bound on enqueue requests
    CrashBudget,    \* bound on worker crashes
    DiskBudget      \* bound on changes of stored files behind the program's back

Results == {"COMPLETED", "COMPLETED_WITH_WARNINGS", "NEEDS_OCR", "UNSUPPORTED", "ENCRYPTED"}

ASSUME ExtractionAssumption ==
    /\ NoDocument \notin Documents
    /\ MaxAttempts \in Nat \ {0}
    /\ OutcomeOf \in [Documents -> Results \cup {"FAILED"}]
    /\ Heavy \subseteq Documents
    /\ Large \subseteq {d \in Documents : OutcomeOf[d] \in {"COMPLETED", "COMPLETED_WITH_WARNINGS"}}
    /\ RequestBudget \in Nat
    /\ CrashBudget \in Nat
    /\ DiskBudget \in Nat

VARIABLES
    document,   \* [Documents -> DocumentStatuses]: processing_status
    job,        \* [Documents -> Job]: the latest row of document_processing_jobs
    extractions,\* [Documents -> Nat]: rows of document_extractions
    file,       \* [Documents -> {"intact", "altered", "missing"}]: the stored file
    worker,     \* [Workers -> WorkerState]
    request,    \* [Requests -> RequestState]
    spent       \* how much of each budget is used up

vars == <<document, job, extractions, file, worker, request, spent>>

DocumentStatuses == {"ABSENT", "QUEUED", "PROCESSING", "FAILED"} \cup Results
JobStatuses == {"NONE", "PENDING", "PROCESSING", "COMPLETED", "FAILED"}
Active == {"PENDING", "PROCESSING"}

\* due stands for available_at <= now.
Job == [status : JobStatuses, attempts : Nat, due : BOOLEAN]

\* How far process_claimed_job has come; "working", "blocked", "answered" and
\* "silent" are the states of the child.
WorkerStages == {"idle", "claimed", "working", "blocked", "answered", "silent"}
WorkerState == [stage : WorkerStages, document : Documents \cup {NoDocument}]
IdleWorker == [stage |-> "idle", document |-> NoDocument]

\* seen is the processing_status the request's session has loaded.
RequestState == [stage : {"idle", "loaded", "inserting"},
                 document : Documents \cup {NoDocument},
                 seen : DocumentStatuses, force : BOOLEAN]
IdleRequest == [stage |-> "idle", document |-> NoDocument, seen |-> "ABSENT", force |-> FALSE]

Init ==
    /\ document = [d \in Documents |-> "ABSENT"]
    /\ job = [d \in Documents |-> [status |-> "NONE", attempts |-> 0, due |-> FALSE]]
    /\ extractions = [d \in Documents |-> 0]
    /\ file = [d \in Documents |-> "intact"]
    /\ worker = [w \in Workers |-> IdleWorker]
    /\ request = [q \in Requests |-> IdleRequest]
    /\ spent = [requests |-> 0, crashes |-> 0, disk |-> 0]

-----------------------------------------------------------------------------
\* Mutant of Upload: the job is left to a later request.
UploadWithoutJob(d) ==
    /\ document[d] = "ABSENT"
    /\ document' = [document EXCEPT ![d] = "QUEUED"]
    /\ UNCHANGED <<job, extractions, file, worker, request, spent>>

\* _store_one_file: document and first job in one transaction. The index on
\* (process_id, sha256) refuses a second upload of the same file.
Upload(d) ==
    /\ document[d] = "ABSENT"
    /\ document' = [document EXCEPT ![d] = "QUEUED"]
    /\ job' = [job EXCEPT ![d] = [status |-> "PENDING", attempts |-> 0, due |-> TRUE]]
    /\ UNCHANGED <<extractions, file, worker, request, spent>>

\* get_document_or_404, or process.documents of enqueue_process_extractions,
\* which loads every document before it enqueues the first one.
LoadDocument(q, d, force) ==
    /\ request[q].stage = "idle"
    /\ document[d] # "ABSENT"
    /\ spent.requests < RequestBudget
    /\ request' = [request EXCEPT ![q] = [stage |-> "loaded", document |-> d,
                                          seen |-> document[d], force |-> force]]
    /\ spent' = [spent EXCEPT !.requests = @ + 1]
    /\ UNCHANGED <<document, job, extractions, file, worker>>

\* The queries for an active job and for an extraction, taken together: a job
\* that ends between them is only seen to have ended.
LookUp(q) ==
    LET d == request[q].document
        answered == job[d].status \in Active
                    \/ (~request[q].force /\ extractions[d] > 0) IN
    /\ request[q].stage = "loaded"
    /\ request' = [request EXCEPT ![q] = IF answered THEN IdleRequest
                                         ELSE [@ EXCEPT !.stage = "inserting"]]
    /\ UNCHANGED <<document, job, extractions, file, worker, spent>>

\* Mutant of InsertJob: there is no unique index on the active jobs.
InsertJobUnchecked(q) ==
    LET d == request[q].document IN
    /\ request[q].stage = "inserting"
    /\ job' = [job EXCEPT ![d] = [status |-> "PENDING", attempts |-> 0, due |-> TRUE]]
    /\ document' = [document EXCEPT ![d] = IF request[q].seen = "QUEUED" THEN @ ELSE "QUEUED"]
    /\ request' = [request EXCEPT ![q] = IdleRequest]
    /\ UNCHANGED <<extractions, file, worker, spent>>

\* The INSERT, which uq_processing_jobs_active_document_type lets through, and
\* the UPDATE of the document. The session writes a status only when it differs
\* from the one it loaded, so a stale QUEUED is not written.
InsertJob(q) ==
    LET d == request[q].document IN
    /\ request[q].stage = "inserting"
    /\ job[d].status \notin Active
    /\ job' = [job EXCEPT ![d] = [status |-> "PENDING", attempts |-> 0, due |-> TRUE]]
    /\ document' = [document EXCEPT ![d] = IF request[q].seen = "QUEUED" THEN @ ELSE "QUEUED"]
    /\ request' = [request EXCEPT ![q] = IdleRequest]
    /\ UNCHANGED <<extractions, file, worker, spent>>

\* IntegrityError: rolled back, and the answer is the other request's job.
InsertRefused(q) ==
    /\ request[q].stage = "inserting"
    /\ job[request[q].document].status \in Active
    /\ request' = [request EXCEPT ![q] = IdleRequest]
    /\ UNCHANGED <<document, job, extractions, file, worker, spent>>

\* available_at passes.
ComesDue(d) ==
    /\ job[d].status = "PENDING" /\ ~job[d].due
    /\ job' = [job EXCEPT ![d].due = TRUE]
    /\ UNCHANGED <<document, extractions, file, worker, request, spent>>

\* A stored file is lost, damaged or put back.
FileChanges(d) ==
    /\ spent.disk < DiskBudget
    /\ \E state \in {"intact", "altered", "missing"} \ {file[d]} :
          file' = [file EXCEPT ![d] = state]
    /\ spent' = [spent EXCEPT !.disk = @ + 1]
    /\ UNCHANGED <<document, job, extractions, worker, request>>

-----------------------------------------------------------------------------
\* claim_next_job, FOR UPDATE SKIP LOCKED.
ClaimNextJob(w, d) ==
    /\ worker[w].stage = "idle"
    /\ job[d].status = "PENDING" /\ job[d].due
    /\ job' = [job EXCEPT ![d].status = "PROCESSING", ![d].attempts = @ + 1]
    /\ document' = [document EXCEPT ![d] = "PROCESSING"]
    /\ worker' = [worker EXCEPT ![w] = [stage |-> "claimed", document |-> d]]
    /\ UNCHANGED <<extractions, file, request, spent>>

\* Mutant of FailedJob: the attempt under way is not counted.
FailedJobOneMore(j) ==
    IF j.attempts <= MaxAttempts THEN [j EXCEPT !.status = "PENDING", !.due = FALSE]
    ELSE [j EXCEPT !.status = "FAILED"]

\* Mutant of FailedJob: the job takes over the document's status.
FailedJobQueued(j) ==
    IF j.attempts < MaxAttempts THEN [j EXCEPT !.status = "QUEUED", !.due = FALSE]
    ELSE [j EXCEPT !.status = "FAILED"]

\* _fail_job with status FAILED: retried after 30 seconds an attempt, or given up.
FailedJob(j) ==
    IF j.attempts < MaxAttempts THEN [j EXCEPT !.status = "PENDING", !.due = FALSE]
    ELSE [j EXCEPT !.status = "FAILED"]

FailJob(w) ==
    LET d == worker[w].document IN
    /\ job' = [job EXCEPT ![d] = FailedJob(@)]
    /\ document' = [document EXCEPT ![d] =
                      IF FailedJob(job[d]).status = "PENDING" THEN "QUEUED" ELSE "FAILED"]
    /\ worker' = [worker EXCEPT ![w] = IdleWorker]
    /\ UNCHANGED <<extractions, file, request, spent>>

\* The copy or its hash is wrong: SOURCE_FILE_NOT_FOUND, SOURCE_HASH_MISMATCH.
SourceFails(w) ==
    /\ worker[w].stage = "claimed"
    /\ file[worker[w].document] # "intact"
    /\ FailJob(w)

\* Mutant of CompleteIdempotent: the document keeps the status of the claim.
CompleteJobOnly(w) ==
    /\ worker[w].stage = "claimed"
    /\ file[worker[w].document] = "intact"
    /\ extractions[worker[w].document] > 0
    /\ job' = [job EXCEPT ![worker[w].document].status = "COMPLETED"]
    /\ worker' = [worker EXCEPT ![w] = IdleWorker]
    /\ UNCHANGED <<document, extractions, file, request, spent>>

\* _complete_idempotent: an extraction of the same bytes is there already.
CompleteIdempotent(w) ==
    LET d == worker[w].document IN
    /\ worker[w].stage = "claimed"
    /\ file[d] = "intact"
    /\ extractions[d] > 0
    /\ job' = [job EXCEPT ![d].status = "COMPLETED"]
    /\ document' = [document EXCEPT ![d] = OutcomeOf[d]]
    /\ worker' = [worker EXCEPT ![w] = IdleWorker]
    /\ UNCHANGED <<extractions, file, request, spent>>

\* Mutant of StartChild: _find_existing_success is not called.
StartChildAlways(w) ==
    /\ worker[w].stage = "claimed"
    /\ file[worker[w].document] = "intact"
    /\ worker' = [worker EXCEPT ![w].stage = "working"]
    /\ UNCHANGED <<document, job, extractions, file, request, spent>>

\* _run_with_timeout starts the child on the copy.
StartChild(w) ==
    /\ worker[w].stage = "claimed"
    /\ file[worker[w].document] = "intact"
    /\ extractions[worker[w].document] = 0
    /\ worker' = [worker EXCEPT ![w].stage = "working"]
    /\ UNCHANGED <<document, job, extractions, file, request, spent>>

\* _child_extract puts its result. Before it exits, the child waits for the
\* queue's feeder thread, and that waits for a reader once the pipe is full.
ChildPuts(w) ==
    /\ worker[w].stage = "working"
    /\ worker' = [worker EXCEPT ![w].stage =
                    IF worker[w].document \in Large THEN "blocked" ELSE "answered"]
    /\ UNCHANGED <<document, job, extractions, file, request, spent>>

\* The child is killed, or a native library takes it down.
ChildDies(w) ==
    /\ worker[w].stage = "working"
    /\ worker[w].document \in Heavy
    /\ worker' = [worker EXCEPT ![w].stage = "silent"]
    /\ UNCHANGED <<document, job, extractions, file, request, spent>>

\* Mutant of TimeOut: join has no timeout.
TimeOutNever(w) == FALSE

\* join(max_seconds) returns and the child is alive: EXTRACTION_TIMEOUT.
TimeOut(w) ==
    /\ \/ worker[w].stage = "blocked"
       \/ worker[w].stage = "working" /\ worker[w].document \in Heavy
    /\ FailJob(w)

\* The child is gone without an answer, or answers with an error.
ReadFailure(w) ==
    /\ \/ worker[w].stage = "silent"
       \/ worker[w].stage = "answered" /\ OutcomeOf[worker[w].document] = "FAILED"
    /\ FailJob(w)

\* _persist_result: of a result the extractor returned, or of NEEDS_OCR,
\* UNSUPPORTED and ENCRYPTED, which _fail_job hands on to it.
PersistResult(w) ==
    LET d == worker[w].document IN
    /\ worker[w].stage = "answered"
    /\ OutcomeOf[d] # "FAILED"
    /\ extractions' = [extractions EXCEPT ![d] = @ + 1]
    /\ job' = [job EXCEPT ![d].status = "COMPLETED"]
    /\ document' = [document EXCEPT ![d] = OutcomeOf[d]]
    /\ worker' = [worker EXCEPT ![w] = IdleWorker]
    /\ UNCHANGED <<file, request, spent>>

\* The worker process dies. Nothing ever claims a PROCESSING job again.
Crash(w) ==
    /\ worker[w].stage # "idle"
    /\ spent.crashes < CrashBudget
    /\ worker' = [worker EXCEPT ![w] = IdleWorker]
    /\ spent' = [spent EXCEPT !.crashes = @ + 1]
    /\ UNCHANGED <<document, job, extractions, file, request>>

RequestStep(q) ==
    \/ \E d \in Documents, force \in BOOLEAN : LoadDocument(q, d, force)
    \/ LookUp(q)
    \/ InsertJob(q)
    \/ InsertRefused(q)

WorkerStep(w) ==
    \/ \E d \in Documents : ClaimNextJob(w, d)
    \/ SourceFails(w)
    \/ CompleteIdempotent(w)
    \/ StartChild(w)
    \/ ChildPuts(w)
    \/ ChildDies(w)
    \/ TimeOut(w)
    \/ ReadFailure(w)
    \/ PersistResult(w)

Next ==
    \/ \E d \in Documents : Upload(d) \/ ComesDue(d) \/ FileChanges(d)
    \/ \E q \in Requests : RequestStep(q)
    \/ \E w \in Workers : WorkerStep(w) \/ Crash(w)

Spec == Init /\ [][Next]_vars

\* The worker loop calls run_once again and again, join has a timeout, and
\* time passes. Nothing is assumed of users, disks or crashes.
Fairness ==
    /\ \A w \in Workers : WF_vars(WorkerStep(w))
    /\ \A d \in Documents : WF_vars(ComesDue(d))

FairSpec == Spec /\ Fairness

-----------------------------------------------------------------------------
TypeOK ==
    /\ document \in [Documents -> DocumentStatuses]
    /\ job \in [Documents -> Job]
    /\ extractions \in [Documents -> Nat]
    /\ file \in [Documents -> {"intact", "altered", "missing"}]
    /\ worker \in [Workers -> WorkerState]
    /\ request \in [Requests -> RequestState]
    /\ spent \in [requests : Nat, crashes : Nat, disk : Nat]

\* However requests and workers overlap, a job under way has one worker at most
\* and every busy worker's job is still under way: the unique index keeps a
\* request that looked too early from replacing a job somebody works on.
OneWorkerPerJob ==
    /\ \A w \in Workers : worker[w].stage # "idle" => job[worker[w].document].status = "PROCESSING"
    /\ \A v, w \in Workers :
          (worker[v].stage # "idle" /\ worker[v].document = worker[w].document) => v = w

\* document_extractions gets one row per document and hash although its unique
\* index leaves finished extractions out: test_worker_is_idempotent_for_same_
\* hash_and_version, for retries, forced or not, in any order.
SingleExtraction == \A d \in Documents : extractions[d] <= 1

\* What a document shows is true: QUEUED has a pending job, PROCESSING one under
\* way, a result status has the extraction behind it.
StatusBacked ==
    \A d \in Documents :
        /\ document[d] = "QUEUED" => job[d].status = "PENDING"
        /\ document[d] = "PROCESSING" <=> job[d].status = "PROCESSING"
        /\ document[d] \in Results => extractions[d] > 0 /\ document[d] = OutcomeOf[d]

\* A job is not tried more often than max_attempts, timeouts and lost children
\* included.
AttemptsWithinMax == \A d \in Documents : job[d].attempts <= MaxAttempts

\* A crash leaves its job PROCESSING for good, and blocks the document: the index
\* refuses every later job.
Abandoned(d) == job[d].status = "PROCESSING" /\ \A w \in Workers : worker[w].document # d

\* Every queued job ends, unless its own worker crashed: slow, dead or blocked
\* children and crashes on other documents never hold it up for ever.
JobsEnd ==
    \A d \in Documents :
        job[d].status \in Active ~> job[d].status \in {"COMPLETED", "FAILED"} \/ Abandoned(d)

\* Documents the extractors can read in time get their result, unless a worker
\* crashed on them or a stored file changed.
Extracted(documents) ==
    \A d \in {e \in documents \ Heavy : OutcomeOf[e] # "FAILED"} :
        document[d] # "ABSENT" ~> (extractions[d] > 0 \/ Abandoned(d) \/ spent.disk > 0)
\* The claim for documents whose segments fit in the pipe.
SmallDocumentsExtracted == Extracted(Documents \ Large)

\* docs/document-extraction.md, step 4: the extractor produces segments, for
\* every document within the limits, however many characters it has.
DocumentsExtracted == Extracted(Documents)

\* docs/document-extraction.md: FAILED is a technical error that the retries did
\* not recover, so a document that shows it has no attempt left.
FailedMeansExhausted ==
    \A d \in Documents :
        document[d] = "FAILED" => job[d].status = "FAILED" /\ job[d].attempts = MaxAttempts
=============================================================================
