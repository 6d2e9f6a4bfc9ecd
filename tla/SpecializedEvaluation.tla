------------------------- MODULE SpecializedEvaluation -------------------------
(***************************************************************************)
(* Specialized evaluations of a process: clients that queue, retry and     *)
(* review them and override rules, and workers that try a job up to        *)
(* MaxAttempts times.                                                      *)
(*                                                                         *)
(* The process, the normalization and the company are fixed: the inputs of *)
(* a job are its snapshot and its domain. The rules of a requirement are   *)
(* rows that are never edited; nothing keeps two rows from one version.    *)
(***************************************************************************)
EXTENDS SpecializedRules, FiniteSets

CONSTANTS
    Texts,          \* the texts of the requirements, in the order of creation
    Snapshots,      \* [published snapshots -> their records]
    Updates,        \* what users write over a rule: functions on some of its fields
    Closings,       \* closing dates the process may get from a synchronisation
    Clients, Workers,
    MaxAttempts,    \* max_attempts of a job
    MaxRuns,        \* bound on runs
    MaxRows,        \* bound on the rows of a rule
    RequestBudget,  \* bound on requests that write
    FaultBudget     \* bound on exceptions and crashes of workers

VARIABLES
    rules,      \* [requirements -> rows of specialized_requirement_rules]
    runs,       \* specialized_evaluation_runs in the order of creation
    jobs,       \* specialized_evaluation_jobs in the order of creation
    request,    \* [Clients -> what a request has read, or Idle]
    worker,     \* [Workers -> the job a worker holds, or 0]
    closing,    \* processes.closing_at
    spent

vars == <<rules, runs, jobs, request, worker, closing, spent>>

Requirements == DOMAIN Texts
InDomain(d) == {q \in Requirements : Texts[q].domain = d}
Idle == [op |-> "idle"]
JobStatus == {"PENDING", "PROCESSING", "COMPLETED", "COMPLETED_WITH_WARNINGS", "FAILED"}
Completed == {"COMPLETED", "COMPLETED_WITH_WARNINGS"}
Active == {"PENDING", "PROCESSING"}

\* The manifest of a run: the snapshot, the domain, the row of each rule and the
\* effective date.
NewRun(r, rows) == [status |-> "PENDING", job |-> Len(jobs) + 1, snapshot |-> r.snapshot,
                    domain |-> r.domain, rows |-> rows, effective |-> r.effective, results |-> <<>>]
NewJob(run, snapshot, domain) ==
    [status |-> "PENDING", run |-> run, snapshot |-> snapshot, domain |-> domain, attempts |-> 0]
NewResult(outcome) == [status |-> outcome.status, source |-> outcome.source,
                       review |-> outcome.review, reviewed |-> Null]

Init ==
    /\ rules = [q \in Requirements |-> <<>>]
    /\ runs = <<>> /\ jobs = <<>>
    /\ request = [c \in Clients |-> Idle]
    /\ worker = [w \in Workers |-> 0]
    /\ closing \in Closings
    /\ spent = [requests |-> 0, faults |-> 0]

-----------------------------------------------------------------------------
Asks(c) ==
    /\ request[c] = Idle
    /\ spent.requests < RequestBudget
    /\ spent' = [spent EXCEPT !.requests = @ + 1]

\* _latest_rule orders by version: of rows with the same version it returns any.
LatestRows(q) ==
    {n \in DOMAIN rules[q] : \A k \in DOMAIN rules[q] : rules[q][k].version <= rules[q][n].version}
FirstRow(q) == [version |-> 1, rule |-> MapRequirement(Texts[q])]

\* _ensure_rules: a row for each requirement of the domain; 0 is a row of its own
Picks(d) == {pick \in [InDomain(d) -> 0 .. MaxRows] :
                \A q \in InDomain(d) : pick[q] \in (IF rules[q] = <<>> THEN {0} ELSE LatestRows(q))}

\* _existing_run: an unforced request is answered with the newest run of its digest.
Existing(snapshot, domain, rows) ==
    {x \in DOMAIN runs : /\ runs[x].snapshot = snapshot /\ runs[x].domain = domain
                         /\ runs[x].rows = rows /\ runs[x].effective = closing
                         /\ runs[x].status \in Active \cup Completed}

BeginCreate(c, snapshot, domain, force) ==
    /\ Asks(c)
    /\ Len(runs) < MaxRuns
    /\ InDomain(domain) # {}
    /\ \E rows \in Picks(domain) :
          /\ force \/ Existing(snapshot, domain, rows) = {}
          /\ request' = [request EXCEPT ![c] =
                [op |-> "create", snapshot |-> snapshot, domain |-> domain, rows |-> rows,
                 effective |-> closing]]
    /\ UNCHANGED <<rules, runs, jobs, worker, closing>>

\* Mutant of NoActiveJob: the unique index leaves out jobs under way.
NoActiveJobPending(snapshot, domain) ==
    ~\E j \in DOMAIN jobs : jobs[j].snapshot = snapshot /\ jobs[j].domain = domain
                            /\ jobs[j].status = "PENDING"

\* uq_specialized_jobs_active_inputs
NoActiveJob(snapshot, domain) ==
    ~\E j \in DOMAIN jobs : jobs[j].snapshot = snapshot /\ jobs[j].domain = domain
                            /\ jobs[j].status \in Active

CommitCreate(c) ==
    LET r == request[c]
        own == {q \in DOMAIN r.rows : r.rows[q] = 0} IN
    /\ r.op = "create"
    /\ NoActiveJob(r.snapshot, r.domain) /\ Len(runs) < MaxRuns
    /\ \A q \in own : Len(rules[q]) < MaxRows
    /\ rules' = [q \in Requirements |-> IF q \in own THEN Append(rules[q], FirstRow(q)) ELSE rules[q]]
    /\ runs' = Append(runs, NewRun(r, [q \in DOMAIN r.rows |->
                                          IF q \in own THEN Len(rules[q]) + 1 ELSE r.rows[q]]))
    /\ jobs' = Append(jobs, NewJob(Len(runs) + 1, r.snapshot, r.domain))
    /\ request' = [request EXCEPT ![c] = Idle]
    /\ UNCHANGED <<worker, closing, spent>>

\* retry_specialized_evaluation looks for no active job: only the index does.
BeginRetry(c, x) ==
    /\ Asks(c)
    /\ runs[x].status = "FAILED"
    /\ request' = [request EXCEPT ![c] = [op |-> "retry", run |-> x]]
    /\ UNCHANGED <<rules, runs, jobs, worker, closing>>

CommitRetry(c) ==
    LET x == request[c].run IN
    /\ request[c].op = "retry"
    /\ NoActiveJob(runs[x].snapshot, runs[x].domain)
    /\ runs' = [runs EXCEPT ![x].status = "PENDING", ![x].job = Len(jobs) + 1]
    /\ jobs' = Append(jobs, NewJob(x, runs[x].snapshot, runs[x].domain))
    /\ request' = [request EXCEPT ![c] = Idle]
    /\ UNCHANGED <<rules, worker, closing, spent>>

\* The index refuses the commit: the request fails, nothing is written.
Refused(c) ==
    LET r == request[c] IN
    /\ \/ r.op = "create" /\ ~NoActiveJob(r.snapshot, r.domain)
       \/ r.op = "retry" /\ ~NoActiveJob(runs[r.run].snapshot, runs[r.run].domain)
    /\ request' = [request EXCEPT ![c] = Idle]
    /\ UNCHANGED <<rules, runs, jobs, worker, closing, spent>>

\* update_specialized_rule: the next version over a latest row (of another request
\* that has not committed it sees nothing)
BeginUpdate(c, q, update) ==
    /\ Asks(c)
    /\ Len(rules[q]) + 2 <= MaxRows
    /\ \E row \in IF rules[q] = <<>> THEN {FirstRow(q)} ELSE {rules[q][n] : n \in LatestRows(q)} :
          request' = [request EXCEPT ![c] =
              [op |-> "update", requirement |-> q,
               added |-> (IF rules[q] = <<>> THEN <<row>> ELSE <<>>)
                            \o <<[version |-> row.version + 1, rule |-> Override(row.rule, update)]>>]]
    /\ UNCHANGED <<rules, runs, jobs, worker, closing>>

\* get_specialized_rule: reading a rule that nobody has needed yet creates it.
BeginRead(c, q) ==
    /\ Asks(c)
    /\ rules[q] = <<>>
    /\ request' = [request EXCEPT ![c] =
          [op |-> "update", requirement |-> q, added |-> <<FirstRow(q)>>]]
    /\ UNCHANGED <<rules, runs, jobs, worker, closing>>

CommitUpdate(c) ==
    LET r == request[c] IN
    /\ r.op = "update"
    /\ Len(rules[r.requirement]) + Len(r.added) <= MaxRows
    /\ rules' = [rules EXCEPT ![r.requirement] = @ \o r.added]
    /\ request' = [request EXCEPT ![c] = Idle]
    /\ UNCHANGED <<runs, jobs, worker, closing, spent>>

\* review_specialized_result: the automatic status stays beside the review.
Review(c, x, q, verdict) ==
    /\ Asks(c)
    /\ q \in DOMAIN runs[x].results
    /\ runs' = [runs EXCEPT ![x].results[q].reviewed = verdict]
    /\ UNCHANGED <<rules, jobs, request, worker, closing>>

\* A synchronisation of the external process moves its closing date.
Synchronise ==
    /\ spent.requests < RequestBudget
    /\ spent' = [spent EXCEPT !.requests = @ + 1]
    /\ closing' \in Closings \ {closing}
    /\ UNCHANGED <<rules, runs, jobs, request, worker>>

-----------------------------------------------------------------------------
Claim(w) ==
    LET waiting == {j \in DOMAIN jobs : jobs[j].status = "PENDING"} IN
    /\ worker[w] = 0
    /\ \E j \in waiting :
          /\ \A i \in waiting : j <= i
          /\ jobs' = [jobs EXCEPT ![j].status = "PROCESSING", ![j].attempts = @ + 1]
          /\ runs' = [runs EXCEPT ![jobs[j].run].status = "PROCESSING"]
          /\ worker' = [worker EXCEPT ![w] = j]
    /\ UNCHANGED <<rules, request, closing, spent>>

\* Mutant of EffectiveAt: the date the process has when the worker gets to it.
EffectiveAtNow(x) == closing

\* _effective_at_for_run: the date in the manifest
EffectiveAt(x) == runs[x].effective

Ended(w, status, results) ==
    LET j == worker[w] IN
    /\ jobs' = [jobs EXCEPT ![j].status = status]
    /\ runs' = [runs EXCEPT ![jobs[j].run].status = status, ![jobs[j].run].results = results]
    /\ worker' = [worker EXCEPT ![w] = 0]
    /\ UNCHANGED <<rules, request, closing>>

\* _process_run: the results of an earlier attempt, reviews included, make way.
Complete(w) ==
    LET x == jobs[worker[w]].run
        outcome == [q \in DOMAIN runs[x].rows |->
                       Evaluate(rules[q][runs[x].rows[q]].rule, Snapshots[runs[x].snapshot],
                                EffectiveAt(x))] IN
    /\ worker[w] # 0
    /\ Ended(w, IF \E q \in DOMAIN outcome : outcome[q].review THEN "COMPLETED_WITH_WARNINGS"
                ELSE "COMPLETED",
             [q \in DOMAIN outcome |-> NewResult(outcome[q])])
    /\ UNCHANGED spent

\* An exception: rolled back, then _fail_job gives the job back or ends it.
Fail(w) ==
    /\ worker[w] # 0
    /\ spent.faults < FaultBudget
    /\ spent' = [spent EXCEPT !.faults = @ + 1]
    /\ Ended(w, IF jobs[worker[w]].attempts < MaxAttempts THEN "PENDING" ELSE "FAILED",
             runs[jobs[worker[w]].run].results)

\* A dead worker: its job stays PROCESSING.
Crash(w) ==
    /\ worker[w] # 0
    /\ spent.faults < FaultBudget
    /\ spent' = [spent EXCEPT !.faults = @ + 1]
    /\ worker' = [worker EXCEPT ![w] = 0]
    /\ UNCHANGED <<rules, runs, jobs, request, closing>>

ClientStep(c) ==
    \/ \E snapshot \in DOMAIN Snapshots, domain \in Domains, force \in BOOLEAN :
          BeginCreate(c, snapshot, domain, force)
    \/ \E x \in DOMAIN runs : BeginRetry(c, x)
    \/ \E q \in Requirements : BeginRead(c, q) \/ \E update \in Updates : BeginUpdate(c, q, update)
    \/ CommitCreate(c) \/ CommitRetry(c) \/ CommitUpdate(c) \/ Refused(c)
    \/ \E x \in DOMAIN runs, q \in Requirements, verdict \in {"COMPLIES"} : Review(c, x, q, verdict)
WorkerStep(w) == Claim(w) \/ Complete(w) \/ Fail(w)

Next ==
    \/ Synchronise
    \/ \E c \in Clients : ClientStep(c)
    \/ \E w \in Workers : WorkerStep(w) \/ Crash(w)

Spec == Init /\ [][Next]_vars

-----------------------------------------------------------------------------
TypeOK ==
    /\ \A q \in Requirements : Len(rules[q]) <= MaxRows
    /\ \A x \in DOMAIN runs :
          /\ runs[x].status \in JobStatus /\ runs[x].job \in DOMAIN jobs
          /\ \A q \in DOMAIN runs[x].rows : runs[x].rows[q] \in DOMAIN rules[q]
          /\ \A q \in DOMAIN runs[x].results : runs[x].results[q].status \in Verdict
    /\ \A j \in DOMAIN jobs :
          jobs[j].status \in JobStatus /\ jobs[j].run \in DOMAIN runs /\ jobs[j].attempts <= MaxAttempts
    /\ \A w \in Workers : worker[w] \in 0 .. Len(jobs)

\* A run that is waiting or under way has a job in the same state and no other
\* active job, also when its retries overlap.
RunFollowsJob ==
    \A x \in DOMAIN runs :
        LET active == {j \in DOMAIN jobs : jobs[j].run = x /\ jobs[j].status \in Active} IN
        IF runs[x].status \in Active
        THEN active = {runs[x].job} /\ jobs[runs[x].job].status = runs[x].status
        ELSE active = {}

\* COMPLIES rests on a record somebody supported or verified, that nobody disputes,
\* that has not ended on the effective date of the run and is no running contract
\* (docs/legal-evaluation.md, ADR-008).
ComplianceBacked ==
    \A x \in DOMAIN runs : \A q \in DOMAIN runs[x].results :
        LET result == runs[x].results[q] IN
        result.status = "COMPLIES" =>
            /\ result.source \in ToSet(Snapshots[runs[x].snapshot])
            /\ "CONFLICTING" \notin result.source.links
            /\ ({result.source.status} \cup result.source.links) \cap {"VERIFIED", "SUPPORTED"} # {}
            /\ result.source.status \notin {"REJECTED", "EXPIRED"}
            /\ result.source.expires # Null => result.source.expires >= runs[x].effective
            /\ result.source.kind = "EXPERIENCE" => result.source.execution = "COMPLETED"

\* Completed runs of one digest agree on every requirement, however often they were
\* retried and whatever was synchronised or overridden in between.
SameDigestSameResults ==
    \A x, y \in DOMAIN runs :
        (/\ {runs[x].status, runs[y].status} \subseteq Completed
         /\ runs[x].snapshot = runs[y].snapshot /\ runs[x].domain = runs[y].domain
         /\ runs[x].rows = runs[y].rows /\ runs[x].effective = runs[y].effective)
           => \A q \in DOMAIN runs[x].results :
                  runs[x].results[q].status = runs[y].results[q].status

\* docs/experience-evaluation.md: the minimum is compared with the number of
\* completed experiences that are supported.
CountsSupported ==
    \A x \in DOMAIN runs : \A q \in DOMAIN runs[x].results :
        LET rule == rules[q][runs[x].rows[q]].rule
            supported == SelectSeq(Snapshots[runs[x].snapshot], LAMBDA r :
                            /\ r.kind = "EXPERIENCE" /\ r.execution = "COMPLETED"
                            /\ RecordUsability(r) \in {"VERIFIED", "SUPPORTED"}) IN
        (runs[x].results[q].status = "COMPLIES" /\ rule.subject = "CONTRACT_COUNT")
            => Len(supported) >= rule.number

\* A rule has one row for each of its versions.
VersionsUnique ==
    \A q \in Requirements : \A n, k \in DOMAIN rules[q] :
        rules[q][n].version = rules[q][k].version => n = k

\* Only a retry of a failed run takes its result away: one that was completed keeps
\* its results and their reviews.
CompletedStays == [][\A x \in DOMAIN runs : runs[x].status \in Completed => runs'[x].status \in Completed]_vars

-----------------------------------------------------------------------------
\* The queue of a snapshot and a domain, as ExclusiveQueue sees it. Two active jobs, or
\* two workers on one, are nothing it knows.
Keys == [snapshot : DOMAIN Snapshots, domain : Domains]
ActiveJobs(k) == {j \in DOMAIN jobs : /\ jobs[j].snapshot = k.snapshot /\ jobs[j].domain = k.domain
                                      /\ jobs[j].status \in Active}
PhaseOfJob(j) ==
    LET holders == {w \in Workers : worker[w] = j} IN
    IF jobs[j].status = "PENDING" THEN [at |-> "pending"]
    ELSE IF holders = {} THEN [at |-> "abandoned"]
    ELSE IF \E w \in holders : holders = {w} THEN [at |-> "held", by |-> CHOOSE w \in holders : TRUE]
    ELSE [at |-> "contended"]
Phase(k) ==
    IF ActiveJobs(k) = {} THEN [at |-> "free"]
    ELSE IF \E j \in ActiveJobs(k) : ActiveJobs(k) = {j}
    THEN PhaseOfJob(CHOOSE j \in ActiveJobs(k) : TRUE)
    ELSE [at |-> "overlapping"]
Queue == INSTANCE ExclusiveQueue WITH phase <- [k \in Keys |-> Phase(k)]

\* One job at a time for each snapshot and domain, held by one worker at most, and given
\* to nobody else when that worker dies: uq_specialized_jobs_active_inputs and the row
\* locks of the claims give what the abstract queue promises, through retries, failed
\* attempts, crashes and refused commits.
QueueIsExclusive == Queue!Spec
=============================================================================
