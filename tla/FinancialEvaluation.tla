-------------------------- MODULE FinancialEvaluation --------------------------
(***************************************************************************)
(* Financial evaluations of a process: clients that queue, retry and       *)
(* review them and override rules, and workers that evaluate every         *)
(* requirement against a published company snapshot.                       *)
(*                                                                         *)
(* The process, the normalization and the company are fixed: the inputs of *)
(* a job are its snapshot. Requirements are numbered as they were created. *)
(* A request reads, then commits; its rules are versions, never edited.    *)
(***************************************************************************)
EXTENDS FinancialRules, FiniteSets

CONSTANTS
    Texts,          \* the texts of the financial requirements, in order
    Snapshots,      \* [published snapshots -> their financial periods]
    Updates,        \* what users write over a rule: functions on some of its fields
    Closings,       \* closing dates the process may get from a synchronisation
    Clients, Workers,
    MaxRuns,        \* bound on runs
    MaxVersions,    \* bound on the versions of a rule
    RequestBudget,  \* bound on requests that write
    CrashBudget     \* bound on crashes of workers

VARIABLES
    rules,      \* [requirements -> versions of the rule]
    runs,       \* financial_evaluation_runs in the order of creation
    jobs,       \* financial_evaluation_jobs in the order of creation
    request,    \* [Clients -> what a request has read, or Idle]
    worker,     \* [Workers -> the job it evaluates and the closing date it read]
    closing,    \* processes.closing_at
    spent

vars == <<rules, runs, jobs, request, worker, closing, spent>>

Requirements == DOMAIN Texts
Idle == [op |-> "idle"]
Free == [job |-> 0]
JobStatus == {"PENDING", "PROCESSING", "COMPLETED", "COMPLETED_WITH_WARNINGS", "FAILED"}
Completed == {"COMPLETED", "COMPLETED_WITH_WARNINGS"}
Active == {"PENDING", "PROCESSING"}

\* The manifest of a run: the snapshot and the version of each rule. Its digest
\* leaves out the closing date of the process, kept here as evaluated.
Manifest(r) == [snapshot |-> r.snapshot, versions |-> r.versions]
NewRun(r) == [status |-> "PENDING", job |-> Len(jobs) + 1, snapshot |-> r.snapshot,
              versions |-> r.versions, results |-> <<>>, closing |-> Null]
NewJob(run, snapshot) == [status |-> "PENDING", run |-> run, snapshot |-> snapshot]
NewResult(outcome) == [status |-> outcome.status, period |-> outcome.period,
                       review |-> outcome.review, reviewed |-> Null]

Init ==
    /\ rules = [q \in Requirements |-> <<>>]
    /\ runs = <<>> /\ jobs = <<>>
    /\ request = [c \in Clients |-> Idle]
    /\ worker = [w \in Workers |-> Free]
    /\ closing \in Closings
    /\ spent = [requests |-> 0, crashes |-> 0]

-----------------------------------------------------------------------------
Asks(c) ==
    /\ request[c] = Idle
    /\ spent.requests < RequestBudget
    /\ spent' = [spent EXCEPT !.requests = @ + 1]

\* _latest_rule, or version 1, which _create_rule adds and nobody else sees yet
Versions == [q \in Requirements |-> IF rules[q] = <<>> THEN 1 ELSE Len(rules[q])]
Added == [q \in {q \in Requirements : rules[q] = <<>>} |-> <<MapRequirement(Texts[q], closing)>>]

\* Mutant of Fits: nothing keeps two rows from being the same version of a rule.
FitsAlways(r) == TRUE

\* uq_financial_requirement_rules_version: somebody else has added the version.
Fits(r) == \A q \in DOMAIN r.added : Len(rules[q]) = r.base[q]
WithAdded(r) == [q \in Requirements |-> rules[q] \o (IF q \in DOMAIN r.added THEN r.added[q] ELSE <<>>)]

\* _existing_run: an unforced request is answered with the newest run of its digest.
Existing(snapshot, versions) ==
    {x \in DOMAIN runs : /\ Manifest(runs[x]) = [snapshot |-> snapshot, versions |-> versions]
                         /\ runs[x].status \in Active \cup Completed}

\* create_financial_evaluation up to the insertion of the job
BeginCreate(c, snapshot, force) ==
    /\ Asks(c)
    /\ Len(runs) < MaxRuns
    /\ force \/ Existing(snapshot, Versions) = {}
    /\ request' = [request EXCEPT ![c] =
          [op |-> "create", snapshot |-> snapshot, versions |-> Versions,
           added |-> Added, base |-> [q \in Requirements |-> Len(rules[q])]]]
    /\ UNCHANGED <<rules, runs, jobs, worker, closing>>

\* Mutant of NoActiveJob: no unique index behind the look-up.
NoActiveJobUnchecked(snapshot) == TRUE

\* uq_financial_evaluation_jobs_active_inputs
NoActiveJob(snapshot) ==
    ~\E j \in DOMAIN jobs : jobs[j].snapshot = snapshot /\ jobs[j].status \in Active

CommitCreate(c) ==
    LET r == request[c] IN
    /\ r.op = "create"
    /\ NoActiveJob(r.snapshot) /\ Fits(r) /\ Len(runs) < MaxRuns
    /\ rules' = WithAdded(r)
    /\ runs' = Append(runs, NewRun(r))
    /\ jobs' = Append(jobs, NewJob(Len(runs) + 1, r.snapshot))
    /\ request' = [request EXCEPT ![c] = Idle]
    /\ UNCHANGED <<worker, closing, spent>>

\* retry_financial_evaluation: its look-ups, then its commit
BeginRetry(c, x) ==
    /\ Asks(c)
    /\ runs[x].status = "FAILED"
    /\ NoActiveJob(runs[x].snapshot)
    /\ request' = [request EXCEPT ![c] = [op |-> "retry", run |-> x]]
    /\ UNCHANGED <<rules, runs, jobs, worker, closing>>

CommitRetry(c) ==
    LET x == request[c].run IN
    /\ request[c].op = "retry"
    /\ NoActiveJob(runs[x].snapshot)
    /\ runs' = [runs EXCEPT ![x].status = "PENDING", ![x].job = Len(jobs) + 1]
    /\ jobs' = Append(jobs, NewJob(x, runs[x].snapshot))
    /\ request' = [request EXCEPT ![c] = Idle]
    /\ UNCHANGED <<rules, worker, closing, spent>>

\* update_financial_requirement_rule: a new version over the latest one
BeginUpdate(c, q, update) ==
    LET latest == IF rules[q] = <<>> THEN Added[q] ELSE rules[q] IN
    /\ Asks(c)
    /\ Len(latest) < MaxVersions
    /\ request' = [request EXCEPT ![c] =
          [op |-> "update", base |-> [p \in {q} |-> Len(rules[q])],
           added |-> [p \in {q} |-> (IF rules[q] = <<>> THEN latest ELSE <<>>)
                                       \o <<Override(Last(latest), update)>>]]]
    /\ UNCHANGED <<rules, runs, jobs, worker, closing>>

\* get_financial_requirement_rule: reading a rule that nobody has needed yet creates it.
BeginRead(c, q) ==
    /\ Asks(c)
    /\ rules[q] = <<>>
    /\ request' = [request EXCEPT ![c] =
          [op |-> "update", base |-> [p \in {q} |-> 0], added |-> [p \in {q} |-> Added[q]]]]
    /\ UNCHANGED <<rules, runs, jobs, worker, closing>>

CommitUpdate(c) ==
    /\ request[c].op = "update"
    /\ Fits(request[c])
    /\ rules' = WithAdded(request[c])
    /\ request' = [request EXCEPT ![c] = Idle]
    /\ UNCHANGED <<runs, jobs, worker, closing, spent>>

\* A unique index refuses the commit: the request fails, nothing is written.
Refused(c) ==
    LET r == request[c] IN
    /\ \/ r.op = "create" /\ ~(NoActiveJob(r.snapshot) /\ Fits(r))
       \/ r.op = "retry" /\ ~NoActiveJob(runs[r.run].snapshot)
       \/ r.op = "update" /\ ~Fits(r)
    /\ request' = [request EXCEPT ![c] = Idle]
    /\ UNCHANGED <<rules, runs, jobs, worker, closing, spent>>

\* review_financial_evaluation_result: the status stays, the review is beside it.
Review(c, x, q, verdict) ==
    /\ Asks(c)
    /\ q \in DOMAIN runs[x].results
    /\ runs' = [runs EXCEPT ![x].results[q].reviewed = verdict]
    /\ UNCHANGED <<rules, jobs, request, worker, closing>>

\* A synchronisation of the external process moves its closing date.
Synchronise ==
    /\ spent.requests < RequestBudget
    /\ spent' = [spent EXCEPT !.requests = @ + 1]
    /\ closing' \in Closings \ {closing}
    /\ UNCHANGED <<rules, runs, jobs, request, worker>>

-----------------------------------------------------------------------------
\* claim_next_financial_job, its commit, and the load of the process
Claim(w) ==
    LET waiting == {j \in DOMAIN jobs : jobs[j].status = "PENDING"} IN
    /\ worker[w] = Free
    /\ \E j \in waiting :
          /\ \A i \in waiting : j <= i
          /\ jobs' = [jobs EXCEPT ![j].status = "PROCESSING"]
          /\ runs' = [runs EXCEPT ![jobs[j].run].status = "PROCESSING"]
          /\ worker' = [worker EXCEPT ![w] = [job |-> j, closing |-> closing]]
    /\ UNCHANGED <<rules, request, closing, spent>>

\* Mutant of RuleOf: the rule in force when the worker gets to it.
RuleOfLatest(x, q) == Last(rules[q])

\* _rules_for_run: the versions in the manifest
RuleOf(x, q) == rules[q][runs[x].versions[q]]

Outcome(w) ==
    LET x == jobs[worker[w].job].run IN
    [q \in Requirements |-> Evaluate(RuleOf(x, q), Snapshots[runs[x].snapshot], worker[w].closing)]

\* A verdict that needs no review and has no calculation: the line that counts the
\* warnings reads the codes of a calculation that is None.
Breaks(outcome) == ~outcome.review /\ ~outcome.calculated

Ended(w, status, results) ==
    LET j == worker[w].job IN
    /\ jobs' = [jobs EXCEPT ![j].status = status]
    /\ runs' = [runs EXCEPT ![jobs[j].run] =
                   [@ EXCEPT !.status = status, !.results = results, !.closing = worker[w].closing]]
    /\ worker' = [worker EXCEPT ![w] = Free]
    /\ UNCHANGED <<rules, request, closing, spent>>

\* _process_run: every requirement in turn, one commit
Complete(w) ==
    /\ worker[w] # Free
    /\ LET outcome == Outcome(w) IN
       /\ \A q \in Requirements : ~Breaks(outcome[q])
       /\ Ended(w, IF \E q \in Requirements : outcome[q].review THEN "COMPLETED_WITH_WARNINGS"
                   ELSE "COMPLETED",
                [q \in Requirements |-> NewResult(outcome[q])])

\* An exception on the way: _fail_job commits what the session has added so far.
Fail(w) ==
    /\ worker[w] # Free
    /\ LET outcome == Outcome(w) IN
       \E q \in Requirements :
          /\ Breaks(outcome[q])
          /\ \A p \in 1 .. q - 1 : ~Breaks(outcome[p])
          /\ Ended(w, "FAILED", [p \in 1 .. q |-> NewResult(outcome[p])])

\* A dead worker: its job stays PROCESSING.
Crash(w) ==
    /\ worker[w] # Free
    /\ spent.crashes < CrashBudget
    /\ worker' = [worker EXCEPT ![w] = Free]
    /\ spent' = [spent EXCEPT !.crashes = @ + 1]
    /\ UNCHANGED <<rules, runs, jobs, request, closing>>

ClientStep(c) ==
    \/ \E snapshot \in DOMAIN Snapshots, force \in BOOLEAN : BeginCreate(c, snapshot, force)
    \/ \E x \in DOMAIN runs : BeginRetry(c, x)
    \/ \E q \in Requirements : BeginRead(c, q) \/ \E update \in Updates : BeginUpdate(c, q, update)
    \/ CommitCreate(c) \/ CommitRetry(c) \/ CommitUpdate(c) \/ Refused(c)
    \/ \E x \in DOMAIN runs, q \in Requirements, verdict \in Verdict : Review(c, x, q, verdict)
WorkerStep(w) == Claim(w) \/ Complete(w) \/ Fail(w)

Next ==
    \/ Synchronise
    \/ \E c \in Clients : ClientStep(c)
    \/ \E w \in Workers : WorkerStep(w) \/ Crash(w)

Spec == Init /\ [][Next]_vars

-----------------------------------------------------------------------------
Result == [status : Verdict, period : Nat \cup {Null}, review : BOOLEAN,
           reviewed : Verdict \cup {Null}]

TypeOK ==
    /\ DOMAIN rules = Requirements /\ \A q \in Requirements : Len(rules[q]) <= MaxVersions
    /\ \A x \in DOMAIN runs :
          /\ runs[x].status \in JobStatus /\ runs[x].job \in DOMAIN jobs
          /\ \A q \in Requirements : runs[x].versions[q] \in DOMAIN rules[q]
          /\ \A q \in DOMAIN runs[x].results : runs[x].results[q] \in Result
    /\ \A j \in DOMAIN jobs : jobs[j].status \in JobStatus /\ jobs[j].run \in DOMAIN runs
    /\ \A w \in Workers : worker[w] # Free => worker[w].job \in DOMAIN jobs

\* A run that is waiting or under way has a job in the same state, and no other
\* active job: no retry, crash or refused commit leaves a run nobody works for.
RunFollowsJob ==
    \A x \in DOMAIN runs :
        LET active == {j \in DOMAIN jobs : jobs[j].run = x /\ jobs[j].status \in Active} IN
        IF runs[x].status \in Active
        THEN active = {runs[x].job} /\ jobs[runs[x].job].status = runs[x].status
        ELSE active = {}

\* Runs of one digest that were evaluated under one closing date agree on every
\* requirement, whatever rules were written and whatever was retried in between.
SameInputsSameResults ==
    \A x, y \in DOMAIN runs :
        (/\ {runs[x].status, runs[y].status} \subseteq Completed
         /\ Manifest(runs[x]) = Manifest(runs[y])
         /\ runs[x].closing = runs[y].closing)
           => \A q \in Requirements : runs[x].results[q].status = runs[y].results[q].status

\* A verdict rests on evidence: the records of one period that was not rejected,
\* whose values agree and of which none is disputed, with somebody's support for
\* every metric that enters.
Sources(type, period) ==
    IF OfType(period, type) # {} \/ type \notin DOMAIN Formula THEN {type}
    ELSE {Formula[type][1], Formula[type][2]}
Backed(type, period) ==
    LET recorded == {period.metrics[n] : n \in OfType(period, type)} IN
    /\ \A m, n \in recorded : m.value = n.value
    /\ \A m \in recorded : "CONFLICTING" \notin m.links
    /\ \E m \in recorded : ({m.status} \cup m.links) \cap {"VERIFIED", "SUPPORTED"} # {}
VerdictBacked ==
    \A x \in DOMAIN runs : \A q \in DOMAIN runs[x].results :
        LET result == runs[x].results[q]
            period == Snapshots[runs[x].snapshot][result.period] IN
        result.status \in {"COMPLIES", "DOES_NOT_COMPLY"} =>
            /\ period.status # "REJECTED"
            /\ \A type \in Sources(RuleOf(x, q).metric, period) : Backed(type, period)

\* docs/financial-formulas.md: formulas are applied without rounding to compare;
\* only the evidence that is stored is rounded.
ComparesExactly ==
    \A x \in DOMAIN runs : \A q \in DOMAIN runs[x].results :
        LET rule == RuleOf(x, q)
            result == runs[x].results[q]
            period == Snapshots[runs[x].snapshot][result.period]
            amount(k) == Recorded(period, Formula[rule.metric][k]).value IN
        (/\ result.status = "COMPLIES" /\ rule.operator = "GREATER_THAN_OR_EQUAL"
         /\ rule.metric \in RatioMetrics /\ OfType(period, rule.metric) = {})
            => amount(1) * Scale >= rule.value * amount(2)
=============================================================================
