---------------------------- MODULE DecisionReports ----------------------------
(***************************************************************************)
(* The report packages of one completed decision run: requests and retries *)
(* of clients, workers that render the artifacts, put them into storage    *)
(* and publish their rows, and the reviews and tasks that go on meanwhile. *)
(*                                                                         *)
(* The input manifest of a package is read when it is requested, what its  *)
(* artifacts say when a worker renders them. Files do not roll back.       *)
(***************************************************************************)
EXTENDS Integers, Sequences, FiniteSets

CONSTANTS
    Null,
    Outcomes,       \* the outcomes a review may give
    Files,          \* the artifacts of a package
    Clients, Workers,
    MaxAttempts,    \* max_attempts of a job
    MaxPackages,    \* bound on packages
    MaxJobs,        \* bound on jobs
    RequestBudget,  \* bound on requests that write
    FaultBudget     \* bound on exceptions and crashes of workers

VARIABLES
    decision,   \* what a report tells of the decision run
    packages,   \* decision_report_packages in the order of creation
    jobs,       \* decision_report_jobs in the order of creation
    storage,    \* [packages -> files under its key]
    request,    \* [Clients -> what a request has read, or Idle]
    worker,     \* [Workers -> the job it works on and what it has rendered]
    spent

vars == <<decision, packages, jobs, storage, request, worker, spent>>

Idle == [op |-> "idle"]
Free == [job |-> 0]
JobStatus == {"PENDING", "PROCESSING", "COMPLETED", "FAILED"}
PackageStatus == {"DRAFT", "GENERATING", "COMPLETED", "FAILED"}
ActionStatus == {"OPEN", "ACKNOWLEDGED", "RESOLVED"}
Active == {"PENDING", "PROCESSING"}

NewPackage(manifest) == [status |-> "DRAFT", job |-> Len(jobs) + 1, manifest |-> manifest,
                         rows |-> {}, content |-> Null]
NewJob(package) == [status |-> "PENDING", package |-> package, attempts |-> 0]

\* build_input_manifest: what the digest of a package stands for
InputManifest == [effective |-> decision.effective, reviews |-> decision.reviews,
                  action |-> decision.action]
\* build_report_snapshot: what the artifacts of a package tell
ReportSnapshot == [effective |-> decision.effective, pending |-> decision.pending,
                   action |-> decision.action]

Init ==
    /\ \E outcome \in Outcomes :
          decision = [engine |-> outcome, effective |-> outcome, pending |-> TRUE,
                      reviews |-> 0, action |-> "OPEN"]
    /\ packages = <<>> /\ jobs = <<>>
    /\ storage = [p \in 1 .. MaxPackages |-> {}]
    /\ request = [c \in Clients |-> Idle]
    /\ worker = [w \in Workers |-> Free]
    /\ spent = [requests |-> 0, faults |-> 0]

-----------------------------------------------------------------------------
Asks == /\ spent.requests < RequestBudget
        /\ spent' = [spent EXCEPT !.requests = @ + 1]

\* review_decision: CONFIRM, OVERRIDE or REJECT
ReviewDecision ==
    /\ Asks
    /\ \E outcome \in Outcomes, rejected \in BOOLEAN :
          /\ rejected => outcome = decision.engine
          /\ decision' = [decision EXCEPT !.effective = outcome, !.pending = rejected,
                                          !.reviews = @ + 1]
    /\ UNCHANGED <<packages, jobs, storage, request, worker>>

\* update_decision_action: a task goes from any status to any but OPEN.
UpdateAction ==
    /\ Asks
    /\ \E status \in ActionStatus \ {"OPEN"} : decision' = [decision EXCEPT !.action = status]
    /\ UNCHANGED <<packages, jobs, storage, request, worker>>

\* create_decision_report: only a completed package answers for its digest.
BeginCreate(c, force) ==
    /\ request[c] = Idle
    /\ Asks
    /\ Len(packages) < MaxPackages
    /\ force \/ ~\E p \in DOMAIN packages : /\ packages[p].manifest = InputManifest
                                            /\ packages[p].status = "COMPLETED"
    /\ request' = [request EXCEPT ![c] = [op |-> "create", manifest |-> InputManifest]]
    /\ UNCHANGED <<decision, packages, jobs, storage, worker>>

\* Mutant of NoActiveJob: the index looks at waiting jobs only.
NoActiveJobPending == \A j \in DOMAIN jobs : jobs[j].status # "PENDING"

\* uq_decision_report_jobs_active_run
NoActiveJob == \A j \in DOMAIN jobs : jobs[j].status \notin Active

CommitCreate(c) ==
    /\ request[c].op = "create"
    /\ NoActiveJob /\ Len(packages) < MaxPackages /\ Len(jobs) < MaxJobs
    /\ packages' = Append(packages, NewPackage(request[c].manifest))
    /\ jobs' = Append(jobs, NewJob(Len(packages) + 1))
    /\ request' = [request EXCEPT ![c] = Idle]
    /\ UNCHANGED <<decision, storage, worker, spent>>

\* retry_decision_report: the status is checked on a package loaded before.
BeginRetry(c, p) ==
    /\ request[c] = Idle
    /\ Asks
    /\ packages[p].status = "FAILED"
    /\ request' = [request EXCEPT ![c] = [op |-> "retry", package |-> p]]
    /\ UNCHANGED <<decision, packages, jobs, storage, worker>>

CommitRetry(c) ==
    /\ request[c].op = "retry"
    /\ NoActiveJob /\ Len(jobs) < MaxJobs
    /\ jobs' = Append(jobs, NewJob(request[c].package))
    /\ packages' = [packages EXCEPT ![request[c].package].status = "DRAFT",
                                    ![request[c].package].job = Len(jobs) + 1]
    /\ request' = [request EXCEPT ![c] = Idle]
    /\ UNCHANGED <<decision, storage, worker, spent>>

Refused(c) ==
    /\ request[c] # Idle
    /\ ~NoActiveJob
    /\ request' = [request EXCEPT ![c] = Idle]
    /\ UNCHANGED <<decision, packages, jobs, storage, worker, spent>>

-----------------------------------------------------------------------------
Claim(w) ==
    LET waiting == {j \in DOMAIN jobs : jobs[j].status = "PENDING"} IN
    /\ worker[w] = Free
    /\ \E j \in waiting :
          /\ jobs' = [jobs EXCEPT ![j].status = "PROCESSING", ![j].attempts = @ + 1]
          /\ packages' = [packages EXCEPT ![jobs[j].package].status = "GENERATING"]
          /\ worker' = [worker EXCEPT ![w] = [job |-> j, content |-> Null]]
    /\ UNCHANGED <<decision, storage, request, spent>>

PackageOf(w) == jobs[worker[w].job].package
Working(w) == worker[w] # Free /\ worker[w].content = Null
Faulty == spent.faults < FaultBudget /\ spent' = [spent EXCEPT !.faults = @ + 1]

\* LocalDocumentStorage.save refuses a key that exists.
CanSave(p) == storage[p] = {}

\* generate_report_package up to the commit: the snapshot is read, every artifact saved.
Render(w) ==
    LET p == PackageOf(w) IN
    /\ Working(w)
    /\ CanSave(p)
    /\ storage' = [storage EXCEPT ![p] = Files]
    /\ worker' = [worker EXCEPT ![w].content = ReportSnapshot]
    /\ UNCHANGED <<decision, packages, jobs, request, spent>>

\* The commit with the artifact rows; the status of the package decides on the job's.
Publish(w) ==
    LET p == PackageOf(w) IN
    /\ worker[w] # Free /\ worker[w].content # Null
    /\ packages' = [packages EXCEPT ![p].status = "COMPLETED", ![p].rows = Files,
                                    ![p].content = worker[w].content]
    /\ jobs' = [jobs EXCEPT ![worker[w].job].status = "COMPLETED"]
    /\ worker' = [worker EXCEPT ![w] = Free]
    /\ UNCHANGED <<decision, storage, request, spent>>

\* _fail_job: back to the queue while attempts are left
FailJob(w) ==
    LET again == jobs[worker[w].job].attempts < MaxAttempts IN
    /\ jobs' = [jobs EXCEPT ![worker[w].job].status = IF again THEN "PENDING" ELSE "FAILED"]
    /\ packages' = [packages EXCEPT ![PackageOf(w)].status = IF again THEN "GENERATING" ELSE "FAILED"]
    /\ worker' = [worker EXCEPT ![w] = Free]
    /\ UNCHANGED <<decision, request>>

\* Mutant of Kept: every key of the package is cleaned up, whoever saved it.
KeptForeign(p, stored) == (storage[p] \cup stored) \ Files

\* The files left by an attempt that failed after it had stored some
Kept(p, stored) == (storage[p] \cup stored) \ stored

\* A file cannot be saved, because its key exists or the disk fails: what this
\* attempt has stored goes, the transaction is rolled back.
SaveFails(w) ==
    LET p == PackageOf(w) IN
    /\ Working(w)
    /\ IF CanSave(p) THEN Faulty ELSE UNCHANGED spent
    /\ \E stored \in SUBSET Files :
          /\ ~CanSave(p) => stored = {}
          /\ storage' = [storage EXCEPT ![p] = Kept(p, stored)]
    /\ FailJob(w)

\* The database refuses the rows: rolled back, but the files stay.
PublishFails(w) ==
    /\ worker[w] # Free /\ worker[w].content # Null
    /\ Faulty
    /\ FailJob(w)
    /\ UNCHANGED storage

\* A dead worker leaves its job PROCESSING and the files it has saved.
Crash(w) ==
    /\ worker[w] # Free
    /\ Faulty
    /\ worker' = [worker EXCEPT ![w] = Free]
    /\ UNCHANGED <<decision, packages, jobs, storage, request>>

WorkerStep(w) == Claim(w) \/ Render(w) \/ Publish(w) \/ SaveFails(w) \/ PublishFails(w)

Next ==
    \/ ReviewDecision \/ UpdateAction
    \/ \E c \in Clients :
          \/ \E force \in BOOLEAN : BeginCreate(c, force)
          \/ \E p \in DOMAIN packages : BeginRetry(c, p)
          \/ CommitCreate(c) \/ CommitRetry(c) \/ Refused(c)
    \/ \E w \in Workers : WorkerStep(w) \/ Crash(w)

Spec == Init /\ [][Next]_vars

-----------------------------------------------------------------------------
TypeOK ==
    /\ decision.effective \in Outcomes /\ decision.action \in ActionStatus
    /\ \A p \in DOMAIN packages :
          packages[p].status \in PackageStatus /\ packages[p].job \in DOMAIN jobs
    /\ \A j \in DOMAIN jobs :
          /\ jobs[j].status \in JobStatus /\ jobs[j].package \in DOMAIN packages
          /\ jobs[j].attempts <= MaxAttempts
    /\ \A p \in 1 .. MaxPackages : storage[p] \subseteq Files
    /\ \A w \in Workers : worker[w] # Free => worker[w].job \in DOMAIN jobs

\* Every artifact row has its file: no attempt that fails takes away what an earlier
\* one has published, also when two retries overlap.
RowsHaveFiles == \A p \in DOMAIN packages : packages[p].rows \subseteq storage[p]

\* A package is waiting or under way exactly while it has an active job.
PackageFollowsJob ==
    \A p \in DOMAIN packages :
        packages[p].status \in {"DRAFT", "GENERATING"} <=> jobs[packages[p].job].status \in Active

\* ADR-009: one input digest and one version of the templates give one report.
SameDigestSameReport ==
    \A p, q \in DOMAIN packages :
        (/\ packages[p].manifest = packages[q].manifest
         /\ packages[p].status = "COMPLETED" /\ packages[q].status = "COMPLETED")
            => packages[p].content = packages[q].content

\* A package that failed for good can be retried with success: no files stay behind.
RetryCanSucceed == \A p \in DOMAIN packages : packages[p].status = "FAILED" => CanSave(p)
=============================================================================
