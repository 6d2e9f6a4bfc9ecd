------------------------- MODULE RequirementNormalization -------------------------
(***************************************************************************)
(* The normalization of a process: clients that queue and retry runs over  *)
(* the texts extracted from its documents, and workers that send a run's   *)
(* batches to a model, keep the candidates whose evidence is in the run's  *)
(* snapshot and reject the others, and relate the requirements at the end. *)
(*                                                                         *)
(* A batch is one transaction. What the model answers is any of Answers;   *)
(* an error of the provider ends an attempt between two batches.           *)
(***************************************************************************)
EXTENDS Integers, Sequences, FiniteSets, SequencesExt

CONSTANTS
    Null,
    Documents,      \* a sequence: the documents in the order of creation
    Extractions,    \* [extractions -> their segments, in order]
    Answers,        \* what the model may answer to a batch: sequences of candidates
    Clients, Workers,
    SegmentLimit,   \* OPENAI_NORMALIZATION_MAX_TOTAL_CHARACTERS, in segments
    BatchLimit,     \* OPENAI_NORMALIZATION_MAX_SEGMENTS_PER_BATCH
    CallLimit,      \* OPENAI_NORMALIZATION_MAX_CALLS_PER_RUN
    MaxAttempts,    \* max_attempts of a job
    MaxRuns,        \* bound on runs
    MaxJobs,        \* bound on jobs
    RequestBudget,  \* bound on requests that write and on new extractions
    FaultBudget     \* bound on errors of the provider and crashes of workers

VARIABLES
    extracted,  \* [positions of Documents -> its latest usable extraction, or Null]
    runs,       \* requirement_normalization_runs with the rows that hang on them
    jobs,       \* requirement_normalization_jobs in the order of creation
    request,    \* [Clients -> what a request has read, or Idle]
    worker,     \* [Workers -> the job it holds and the calls it has made]
    spent

vars == <<extracted, runs, jobs, request, worker, spent>>

Idle == [op |-> "idle"]
Free == [job |-> 0, calls |-> 0, related |-> FALSE]
Status == {"PENDING", "PROCESSING", "COMPLETED", "COMPLETED_WITH_WARNINGS", "FAILED"}
Completed == {"COMPLETED", "COMPLETED_WITH_WARNINGS"}
Active == {"PENDING", "PROCESSING"}

\* build_input_snapshot: the segments of the latest extractions, up to the limit
Snapshot ==
    LET all == FlattenSeq([d \in DOMAIN Documents |->
                   IF extracted[d] = Null THEN <<>> ELSE Extractions[extracted[d]]]) IN
    [segments |-> SubSeq(all, 1, IF Len(all) < SegmentLimit THEN Len(all) ELSE SegmentLimit),
     truncated |-> Len(all) > SegmentLimit]

\* build_batches: consecutive segments, at most BatchLimit in one
NewBatch(segments) == [status |-> "PENDING", candidates |-> 0, segments |-> segments]
Batches(segments) ==
    [b \in 1 .. ((Len(segments) + BatchLimit - 1) \div BatchLimit) |->
        NewBatch(SubSeq(segments, (b - 1) * BatchLimit + 1,
                        IF b * BatchLimit < Len(segments) THEN b * BatchLimit ELSE Len(segments)))]

NewRun(snapshot) ==
    [status |-> "PENDING", job |-> Len(jobs) + 1, manifest |-> snapshot,
     batches |-> Batches(snapshot.segments), requirements |-> <<>>, discarded |-> <<>>,
     relations |-> {}, candidates |-> 0, accepted |-> 0, rejected |-> 0,
     warnings |-> snapshot.truncated]
NewJob(x) == [status |-> "PENDING", run |-> x, attempts |-> 0]

Init ==
    /\ extracted \in [DOMAIN Documents -> DOMAIN Extractions \cup {Null}]
    /\ runs = <<>> /\ jobs = <<>>
    /\ request = [c \in Clients |-> Idle]
    /\ worker = [w \in Workers |-> Free]
    /\ spent = [requests |-> 0, faults |-> 0]

-----------------------------------------------------------------------------
\* The candidates of an answer

\* _candidate_has_forbidden_decision looks for the letters of a decision anywhere
\* in the text: "GO" is in PLIEGO too.
Spells(word) == word \in {"GO", "NO_GO", "BUSCAR_ALIADO", "PLIEGO", "RIESGO"}
Decides(candidate) == \E word \in candidate.words : Spells(word)

\* EvidenceValidator.validate
Validate(manifest, evidence) ==
    IF evidence.segment \notin ToSet(manifest.segments) THEN "OUTSIDE_SNAPSHOT"
    ELSE IF ~evidence.quoted THEN "QUOTE_NOT_FOUND"
    ELSE IF ~evidence.located THEN "LOCATION_MISMATCH"
    ELSE "VALID"
Valid(manifest, candidate) ==
    SelectSeq(candidate.evidence, LAMBDA e : Validate(manifest, e) = "VALID")

NewRequirement(key, evidence, subsanability) ==
    [key |-> key, evidence |-> evidence, subsanability |-> subsanability, review |-> FALSE]
Rejection(candidate, reason) == [key |-> candidate.key, reason |-> reason]

\* _persist_requirement: only what the text says explicitly is kept of subsanability.
Persisted(run, candidate) ==
    NewRequirement(candidate.key, ToSet(Valid(run.manifest, candidate)),
                   IF candidate.explicit THEN candidate.subsanability ELSE "UNKNOWN")

Reason(run, candidate) ==
    CASE Decides(candidate) -> "FORBIDDEN_DECISION"
      [] ~Decides(candidate) /\ candidate.evidence = <<>> -> "REJECTED_UNSUPPORTED"
      [] ~Decides(candidate) /\ candidate.evidence # <<>>
            /\ Valid(run.manifest, candidate) = <<>> -> Validate(run.manifest, candidate.evidence[1])
      [] OTHER -> IF \E r \in ToSet(run.requirements) : r.key = candidate.key
                  THEN "EXACT_DUPLICATE" ELSE Null

\* One candidate of a batch: a requirement, or a rejected candidate
Take(run, candidate) ==
    LET reason == Reason(run, candidate) IN
    IF reason = Null
    THEN [run EXCEPT !.requirements = Append(@, Persisted(run, candidate)), !.accepted = @ + 1]
    ELSE [run EXCEPT !.discarded = Append(@, Rejection(candidate, reason)),
                     !.rejected = @ + 1]

TakeAll(run, b, answer) ==
    [FoldLeft(Take, run, answer) EXCEPT !.batches[b].status = "COMPLETED",
                                        !.batches[b].candidates = Len(answer),
                                        !.candidates = @ + Len(answer)]

-----------------------------------------------------------------------------
Asks == /\ spent.requests < RequestBudget
        /\ spent' = [spent EXCEPT !.requests = @ + 1]

\* A document is extracted again.
Extract(d) ==
    /\ Asks
    /\ extracted' \in {[extracted EXCEPT ![d] = e] : e \in DOMAIN Extractions \ {extracted[d]}}
    /\ UNCHANGED <<runs, jobs, request, worker>>

\* uq_requirement_normalization_active_process
NoActiveJob == \A j \in DOMAIN jobs : jobs[j].status \notin Active

\* create_normalization: without force, an active job or a run of the same digest
\* answers the request.
BeginCreate(c, force) ==
    /\ request[c] = Idle /\ Asks
    /\ Len(runs) < MaxRuns
    /\ Snapshot.segments # <<>>
    /\ force \/ /\ NoActiveJob
                /\ ~\E x \in DOMAIN runs : /\ runs[x].manifest = Snapshot
                                           /\ runs[x].status \in Active \cup Completed
    /\ request' = [request EXCEPT ![c] = [op |-> "create", snapshot |-> Snapshot]]
    /\ UNCHANGED <<extracted, runs, jobs, worker>>

CommitCreate(c) ==
    /\ request[c].op = "create"
    /\ NoActiveJob /\ Len(runs) < MaxRuns /\ Len(jobs) < MaxJobs
    /\ runs' = Append(runs, NewRun(request[c].snapshot))
    /\ jobs' = Append(jobs, NewJob(Len(runs) + 1))
    /\ request' = [request EXCEPT ![c] = Idle]
    /\ UNCHANGED <<extracted, worker, spent>>

\* retry_normalization: a failed run goes back to the queue as it is.
BeginRetry(c, x) ==
    /\ request[c] = Idle /\ Asks
    /\ runs[x].status = "FAILED" /\ NoActiveJob
    /\ request' = [request EXCEPT ![c] = [op |-> "retry", run |-> x]]
    /\ UNCHANGED <<extracted, runs, jobs, worker>>

CommitRetry(c) ==
    /\ request[c].op = "retry"
    /\ NoActiveJob /\ Len(jobs) < MaxJobs
    /\ jobs' = Append(jobs, NewJob(request[c].run))
    /\ runs' = [runs EXCEPT ![request[c].run].status = "PENDING",
                            ![request[c].run].job = Len(jobs) + 1]
    /\ request' = [request EXCEPT ![c] = Idle]
    /\ UNCHANGED <<extracted, worker, spent>>

Refused(c) ==
    /\ request[c] # Idle /\ ~NoActiveJob
    /\ request' = [request EXCEPT ![c] = Idle]
    /\ UNCHANGED <<extracted, runs, jobs, worker, spent>>

-----------------------------------------------------------------------------
Claim(w) ==
    /\ worker[w] = Free
    /\ \E j \in DOMAIN jobs :
          /\ jobs[j].status = "PENDING"
          /\ jobs' = [jobs EXCEPT ![j].status = "PROCESSING", ![j].attempts = @ + 1]
          /\ runs' = [runs EXCEPT ![jobs[j].run].status = "PROCESSING"]
          /\ worker' = [worker EXCEPT ![w] = [job |-> j, calls |-> 0, related |-> FALSE]]
    /\ UNCHANGED <<extracted, request, spent>>

RunOf(w) == jobs[worker[w].job].run

\* Mutant of Left: an attempt starts over with the first batch.
LeftFrom(w) == {b \in DOMAIN runs[RunOf(w)].batches : b > worker[w].calls}

\* The batches of the run that no attempt has completed
Left(w) == {b \in DOMAIN runs[RunOf(w)].batches : runs[RunOf(w)].batches[b].status # "COMPLETED"}

ProcessBatch(w) ==
    /\ worker[w] # Free /\ worker[w].calls < CallLimit
    /\ \E b \in Left(w), answer \in Answers :
          /\ \A other \in Left(w) : b <= other
          /\ runs' = [runs EXCEPT ![RunOf(w)] = TakeAll(@, b, answer)]
          /\ worker' = [worker EXCEPT ![w].calls = @ + 1]
    /\ UNCHANGED <<extracted, jobs, request, spent>>

\* A relation is between two requirements of the run, and is written once.
Relations(run) == {r \in SUBSET {q.key : q \in ToSet(run.requirements)} : Cardinality(r) = 2}

\* _consolidate: the relations between requirements, and the reviews they call for
Consolidate(w) ==
    LET run == runs[RunOf(w)] IN
    /\ worker[w] # Free /\ Left(w) = {} /\ ~worker[w].related
    /\ \E related \in SUBSET Relations(run) :
          /\ related \cap run.relations = {}
          /\ runs' = [runs EXCEPT ![RunOf(w)] = [run EXCEPT !.relations = @ \cup related,
                 !.requirements = [n \in DOMAIN @ |->
                     [@[n] EXCEPT !.review = @ \/ run.requirements[n].key \in UNION related]]]]
    /\ worker' = [worker EXCEPT ![w].related = TRUE]
    /\ UNCHANGED <<extracted, jobs, request, spent>>

\* _complete_run
Complete(w) ==
    LET run == runs[RunOf(w)]
        status == IF run.warnings \/ run.discarded # <<>> THEN "COMPLETED_WITH_WARNINGS" ELSE "COMPLETED" IN
    /\ worker[w].related
    /\ runs' = [runs EXCEPT ![RunOf(w)].status = status, ![RunOf(w)].rejected = Len(run.discarded)]
    /\ jobs' = [jobs EXCEPT ![worker[w].job].status = status]
    /\ worker' = [worker EXCEPT ![w] = Free]
    /\ UNCHANGED <<extracted, request, spent>>

\* _fail_job: an error that may pass gives the job back, with a delay.
FailJob(w, retryable) ==
    LET again == retryable /\ jobs[worker[w].job].attempts < MaxAttempts IN
    /\ jobs' = [jobs EXCEPT ![worker[w].job].status = IF again THEN "PENDING" ELSE "FAILED"]
    /\ runs' = [runs EXCEPT ![RunOf(w)].status = IF again THEN "PROCESSING" ELSE "FAILED"]
    /\ worker' = [worker EXCEPT ![w] = Free]
    /\ UNCHANGED <<extracted, request>>

\* Too many calls in this attempt, an error of configuration, an answer the schema
\* or the model refuses, or a transient one
ProviderFails(w) ==
    /\ worker[w] # Free /\ ~worker[w].related
    /\ \/ Left(w) # {} /\ worker[w].calls >= CallLimit /\ FailJob(w, FALSE) /\ UNCHANGED spent
       \/ /\ spent.faults < FaultBudget
          /\ spent' = [spent EXCEPT !.faults = @ + 1]
          /\ \E retryable \in BOOLEAN : FailJob(w, retryable)

\* A worker that dies, or whose transaction the database refuses because a relation
\* repeats (then _fail_job fails too), leaves its job PROCESSING.
Dies(w) ==
    /\ worker[w] # Free
    /\ \/ /\ spent.faults < FaultBudget
          /\ spent' = [spent EXCEPT !.faults = @ + 1]
       \/ /\ Left(w) = {} /\ ~worker[w].related /\ Relations(runs[RunOf(w)]) # {}
          /\ UNCHANGED spent
    /\ worker' = [worker EXCEPT ![w] = Free]
    /\ UNCHANGED <<extracted, runs, jobs, request>>

WorkerStep(w) == Claim(w) \/ ProcessBatch(w) \/ Consolidate(w) \/ Complete(w) \/ ProviderFails(w)

Next ==
    \/ \E d \in DOMAIN Documents : Extract(d)
    \/ \E c \in Clients :
          \/ \E force \in BOOLEAN : BeginCreate(c, force)
          \/ \E x \in DOMAIN runs : BeginRetry(c, x)
          \/ CommitCreate(c) \/ CommitRetry(c) \/ Refused(c)
    \/ \E w \in Workers : WorkerStep(w) \/ Dies(w)

Spec == Init /\ [][Next]_vars

-----------------------------------------------------------------------------
TypeOK ==
    /\ \A d \in DOMAIN Documents : extracted[d] \in DOMAIN Extractions \cup {Null}
    /\ \A x \in DOMAIN runs : runs[x].status \in Status /\ runs[x].job \in DOMAIN jobs
    /\ \A j \in DOMAIN jobs :
          jobs[j].status \in Status /\ jobs[j].run \in DOMAIN runs /\ jobs[j].attempts <= MaxAttempts
    /\ \A w \in Workers : worker[w] # Free => worker[w].job \in DOMAIN jobs

\* The counters of a run, its requirements and its rejected candidates tell of every
\* candidate of its batches once, whatever attempts and retries it took.
CandidatesAccounted ==
    \A x \in DOMAIN runs :
        LET run == runs[x] IN
        /\ run.candidates = FoldLeft(LAMBDA n, b : n + b.candidates, 0, run.batches)
        /\ run.candidates = run.accepted + run.rejected
        /\ run.accepted = Len(run.requirements) /\ run.rejected = Len(run.discarded)

\* ADR-004: a requirement has evidence, and all of it is in the snapshot of its run,
\* also when the documents were extracted again before the batch was answered.
EvidenceInSnapshot ==
    \A x \in DOMAIN runs : \A r \in ToSet(runs[x].requirements) :
        r.evidence # {} /\ \A e \in r.evidence : e.segment \in ToSet(runs[x].manifest.segments)

\* Only a candidate that decides is rejected as a decision.
OnlyDecisionsRejected ==
    \A x \in DOMAIN runs : \A d \in ToSet(runs[x].discarded) :
        d.reason = "FORBIDDEN_DECISION" =>
            \E answer \in Answers : \E n \in DOMAIN answer :
                answer[n].key = d.key
                    /\ answer[n].words \cap {"GO", "NO_GO", "BUSCAR_ALIADO"} # {}

\* A worker that has ended leaves no job behind it that blocks the process.
NothingBlocks ==
    (\A w \in Workers : worker[w] = Free) => \A j \in DOMAIN jobs : jobs[j].status # "PROCESSING"
=============================================================================
