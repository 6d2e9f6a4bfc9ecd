----------------------------- MODULE DecisionRuns -----------------------------
(***************************************************************************)
(* Decision runs of one process, normalization, company snapshot and       *)
(* financial evaluation: the API requests that create, retry and review    *)
(* them, the workers that decide them, and the evaluation results they are *)
(* decided from, which later evaluations and human reviews keep changing.  *)
(* All runs share their manifest, so all have the same input digest.       *)
(*                                                                         *)
(* A session writes the columns it has changed since it loaded the row,    *)
(* see Flush. The job of a run is folded into it: the two move together.   *)
(***************************************************************************)
EXTENDS DecisionEngine, TLC

CONSTANTS
    Runs,
    NoRun,
    Requirements,
    Traits,         \* [Requirements -> what the requirement itself says]
    Verdicts,       \* [status, needsReview] an evaluator may give
    OverrideStatuses, \* what reviewers of results may override with
    OverrideOutcomes, \* what reviewers of runs may override with
    Policy,         \* the active policy
    Undecided,      \* an outcome column that is NULL
    Workers,
    Clients,        \* API requests that may run at the same time
    MaxAttempts,    \* max_attempts of a decision job
    EvaluationBudget, \* bound on specialized evaluations per category
    ReviewBudget,   \* bound on reviews of results
    RequestBudget,  \* bound on API requests about runs
    CrashBudget     \* bound on worker crashes

ResultStatuses == DecisionFindingOutcome \ {"NOT_EVALUATED"}

ASSUME RunsAssumption ==
    /\ NoRun \notin Runs
    /\ Undecided \notin DecisionOutcome
    /\ Policy \in DecisionPolicy
    /\ Traits \in [Requirements -> [category : Categories,
                                    applicability : Applicability \ {"NOT_APPLICABLE"},
                                    criticality : Criticalities, subsanability : Subsanability]]
    /\ Verdicts \subseteq [status : ResultStatuses, needsReview : BOOLEAN]
    /\ OverrideStatuses \subseteq ResultStatuses
    /\ OverrideOutcomes \subseteq DecisionOutcome
    /\ MaxAttempts \in Nat \ {0}
    /\ {EvaluationBudget, ReviewBudget, RequestBudget, CrashBudget} \subseteq Nat

VARIABLES
    run,        \* [Runs -> Run]: decision_runs with its job and finding snapshots
    results,    \* [Requirements -> SUBSET Result]: rows of completed evaluations
    worker,     \* [Workers -> WorkerState]
    client,     \* [Clients -> ClientState]
    spent       \* how much of each budget is used up

vars == <<run, results, worker, client, spent>>

RunStatuses == {"NONE", "PENDING", "PROCESSING", "COMPLETED", "FAILED"}
Active == {"PENDING", "PROCESSING"}
Outcomes == DecisionOutcome \cup {Undecided}

\* The columns of a run that sessions write.
Row == [status : RunStatuses, engine : Outcomes, reviewed : Outcomes,
        effective : Outcomes, needsReview : BOOLEAN]
NewRow == [status |-> "NONE", engine |-> Undecided, reviewed |-> Undecided,
           effective |-> Undecided, needsReview |-> FALSE]
Nothing == [r \in {} |-> Undecided]

\* evaluation tells the results of one requirement from each other.
Result == [evaluation : 0 .. EvaluationBudget, status : ResultStatuses, needsReview : BOOLEAN,
           review : {"PENDING", "CONFIRMED", "OVERRIDDEN", "REJECTED"}, reviewed : ResultStatuses]
NewResult(n, verdict) ==
    [evaluation |-> n, status |-> verdict.status, needsReview |-> verdict.needsReview,
     review |-> "PENDING", reviewed |-> verdict.status]

IdleWorker == [stage |-> "idle", run |-> NoRun, loaded |-> NewRow, findings |-> Nothing]
IdleClient == [stage |-> "idle", run |-> NoRun, loaded |-> NewRow]

\* The UPDATE of a session that loaded the row and assigned to its attributes.
Flush(current, loaded, assigned) ==
    [c \in DOMAIN current |-> IF assigned[c] = loaded[c] THEN current[c] ELSE assigned[c]]

-----------------------------------------------------------------------------
IsFinancial(r) == Traits[r].category = "FINANCIAL"

\* Mutant of FindingOf: an overridden result still waits for its review.
FindingOfUnreviewed(r, result) ==
    LET outcome == IF result.review = "OVERRIDDEN" THEN result.reviewed ELSE result.status
        needsReview == \/ result.review = "REJECTED"
                       \/ result.review # "CONFIRMED" /\ result.needsReview IN
    [category |-> Traits[r].category,
     applicability |-> IF outcome = "NOT_APPLICABLE" THEN "NOT_APPLICABLE"
                       ELSE Traits[r].applicability,
     outcome |-> outcome, criticality |-> Traits[r].criticality,
     subsanability |-> Traits[r].subsanability,
     flags |-> IF needsReview THEN {"requires_human_review"} ELSE {}]

\* _to_finding of the two adapters and applicability_for_requirement. Of the
\* flags they set only requires_human_review.
FindingOf(r, result) ==
    LET outcome == IF result.review = "OVERRIDDEN" THEN result.reviewed ELSE result.status
        needsReview == \/ result.review = "REJECTED"
                       \/ result.review = "PENDING" /\ result.needsReview IN
    [category |-> Traits[r].category,
     applicability |-> IF outcome = "NOT_APPLICABLE" THEN "NOT_APPLICABLE"
                       ELSE Traits[r].applicability,
     outcome |-> outcome, criticality |-> Traits[r].criticality,
     subsanability |-> Traits[r].subsanability,
     flags |-> IF needsReview THEN {"requires_human_review"} ELSE {}]

\* not_evaluated_finding
NotEvaluated(r) ==
    [category |-> Traits[r].category, applicability |-> Traits[r].applicability,
     outcome |-> "NOT_EVALUATED", criticality |-> Traits[r].criticality,
     subsanability |-> Traits[r].subsanability, flags |-> {}]

\* Findings the adapters may give for r: results are put in a dictionary by
\* requirement, and which of several rows ends up there is left open.
FindingsOf(r, rows) ==
    IF rows = {} THEN {NotEvaluated(r)} ELSE {FindingOf(r, x) : x \in rows}

\* What collect_all_findings may return for the requirements R.
Collected(R, rows) ==
    {f \in [R -> UNION {FindingsOf(r, rows[r]) : r \in R}] :
        \A r \in R : f[r] \in FindingsOf(r, rows[r])}

Init ==
    /\ run = [x \in Runs |-> [row |-> NewRow, attempts |-> 0, findings |-> Nothing]]
    /\ \E verdicts \in [{r \in Requirements : IsFinancial(r)} -> Verdicts] :
          results = [r \in Requirements |->
                       IF IsFinancial(r) THEN {NewResult(0, verdicts[r])} ELSE {}]
    /\ worker = [w \in Workers |-> IdleWorker]
    /\ client = [c \in Clients |-> IdleClient]
    /\ spent = [evaluations |-> [k \in Categories |-> 0], reviews |-> 0,
                requests |-> 0, crashes |-> 0]

\* A specialized evaluation of a category completes.
CompleteSpecialized(k) ==
    /\ k # "FINANCIAL" /\ \E r \in Requirements : Traits[r].category = k
    /\ spent.evaluations[k] < EvaluationBudget
    /\ \E verdicts \in [{r \in Requirements : Traits[r].category = k} -> Verdicts] :
          results' = [r \in Requirements |->
              IF Traits[r].category = k
                THEN results[r] \cup {NewResult(spent.evaluations[k] + 1, verdicts[r])}
                ELSE results[r]]
    /\ spent' = [spent EXCEPT !.evaluations[k] = @ + 1]
    /\ UNCHANGED <<run, worker, client>>

\* review_financial_evaluation_result, review_specialized_result
ReviewResult(r, result, review, status) ==
    /\ spent.reviews < ReviewBudget
    /\ result \in results[r]
    /\ results' = [results EXCEPT ![r] = (@ \ {result}) \cup
                      {[result EXCEPT !.review = review, !.reviewed = status]}]
    /\ spent' = [spent EXCEPT !.reviews = @ + 1]
    /\ UNCHANGED <<run, worker, client>>

-----------------------------------------------------------------------------
NoActiveRun == \A x \in Runs : run[x].row.status \notin Active

Begin(c, state) ==
    /\ client[c].stage = "idle"
    /\ spent.requests < RequestBudget
    /\ client' = [client EXCEPT ![c] = state]
    /\ spent' = [spent EXCEPT !.requests = @ + 1]
    /\ UNCHANGED <<run, results, worker>>

\* create_decision up to its INSERT: without force, a run with the same digest
\* that has not failed is handed out instead.
BeginCreate(c, force) ==
    /\ force \/ \A x \in Runs : run[x].row.status \in {"NONE", "FAILED"}
    /\ Begin(c, [IdleClient EXCEPT !.stage = "creating"])

\* uq_decision_jobs_active_inputs lets the job through.
CommitCreate(c, x) ==
    /\ client[c].stage = "creating"
    /\ NoActiveRun
    /\ run[x].row.status = "NONE"
    /\ run' = [run EXCEPT ![x].row.status = "PENDING"]
    /\ client' = [client EXCEPT ![c] = IdleClient]
    /\ UNCHANGED <<results, worker, spent>>

\* Refused by the index: the request fails and nothing is written.
CommitRefused(c) ==
    /\ client[c].stage \in {"creating", "retrying"}
    /\ ~NoActiveRun
    /\ client' = [client EXCEPT ![c] = IdleClient]
    /\ UNCHANGED <<run, results, worker, spent>>

\* retry_decision, the check of the status
BeginRetry(c, x) ==
    /\ run[x].row.status = "FAILED"
    /\ Begin(c, [stage |-> "retrying", run |-> x, loaded |-> run[x].row])

\* Mutant of CommitRetry: there is no unique index on active jobs.
CommitRetryUnchecked(c) ==
    LET x == client[c].run IN
    /\ client[c].stage = "retrying"
    /\ run' = [run EXCEPT
          ![x].row = Flush(@, client[c].loaded, [client[c].loaded EXCEPT !.status = "PENDING"]),
          ![x].attempts = 0]
    /\ client' = [client EXCEPT ![c] = IdleClient]
    /\ UNCHANGED <<results, worker, spent>>

\* retry_decision, its commit: a new job for the run, whatever has become of it.
CommitRetry(c) ==
    LET x == client[c].run IN
    /\ client[c].stage = "retrying"
    /\ NoActiveRun
    /\ run' = [run EXCEPT
          ![x].row = Flush(@, client[c].loaded, [client[c].loaded EXCEPT !.status = "PENDING"]),
          ![x].attempts = 0]
    /\ client' = [client EXCEPT ![c] = IdleClient]
    /\ UNCHANGED <<results, worker, spent>>

\* review_decision, the check of the status
BeginReview(c, x) ==
    /\ run[x].row.status = "COMPLETED"
    /\ Begin(c, [stage |-> "reviewing", run |-> x, loaded |-> run[x].row])

\* CONFIRM, OVERRIDE with a reviewed outcome, REJECT
Reviewed(row, action, outcome) ==
    CASE action = "OVERRIDE" ->
           [row EXCEPT !.reviewed = outcome, !.effective = outcome, !.needsReview = FALSE]
      [] action = "CONFIRM" ->
           [row EXCEPT !.reviewed = row.engine, !.effective = row.engine, !.needsReview = FALSE]
      [] action = "REJECT" ->
           [row EXCEPT !.reviewed = Undecided, !.effective = row.engine, !.needsReview = TRUE]

CommitReview(c, action, outcome) ==
    LET x == client[c].run
        loaded == client[c].loaded IN
    /\ client[c].stage = "reviewing"
    /\ run' = [run EXCEPT ![x].row = Flush(@, loaded, Reviewed(loaded, action, outcome))]
    /\ client' = [client EXCEPT ![c] = IdleClient]
    /\ UNCHANGED <<results, worker, spent>>

-----------------------------------------------------------------------------
\* claim_next_decision_job
Claim(w, x) ==
    /\ worker[w].stage = "idle"
    /\ run[x].row.status = "PENDING"
    /\ run' = [run EXCEPT ![x].row.status = "PROCESSING", ![x].attempts = @ + 1]
    /\ worker' = [worker EXCEPT ![w] = [stage |-> "claimed", run |-> x, findings |-> Nothing,
                                        loaded |-> [run[x].row EXCEPT !.status = "PROCESSING"]]]
    /\ UNCHANGED <<results, client, spent>>

\* The query for the financial results, and later the one for the specialized.
ReadFinancial(w) ==
    /\ worker[w].stage = "claimed"
    /\ \E pick \in Collected({r \in Requirements : IsFinancial(r)}, results) :
          worker' = [worker EXCEPT ![w].stage = "reading", ![w].findings = pick]
    /\ UNCHANGED <<run, results, client, spent>>

ReadSpecialized(w) ==
    /\ worker[w].stage = "reading"
    /\ \E pick \in Collected(Requirements \ DOMAIN worker[w].findings, results) :
          worker' = [worker EXCEPT ![w].stage = "deciding", ![w].findings =
                        [r \in Requirements |-> IF r \in DOMAIN @ THEN @[r] ELSE pick[r]]]
    /\ UNCHANGED <<run, results, client, spent>>

\* Mutant of Complete: findings a previous attempt stored are kept.
CompleteKeepingFindings(w) ==
    LET x == worker[w].run
        f == worker[w].findings
        loaded == worker[w].loaded IN
    /\ worker[w].stage = "deciding"
    /\ run' = [run EXCEPT
          ![x].row = Flush(@, loaded, [status |-> "COMPLETED", engine |-> Decide(Policy, f),
                                       effective |-> Decide(Policy, f), reviewed |-> loaded.reviewed,
                                       needsReview |-> RequiresHumanReview(f)]),
          ![x].findings = IF @ = Nothing THEN f ELSE @]
    /\ worker' = [worker EXCEPT ![w] = IdleWorker]
    /\ UNCHANGED <<results, client, spent>>

\* _process_run from decide to its commit: old snapshots deleted, new ones and
\* the outcome written in one transaction.
Complete(w) ==
    LET x == worker[w].run
        f == worker[w].findings
        loaded == worker[w].loaded IN
    /\ worker[w].stage = "deciding"
    /\ run' = [run EXCEPT
          ![x].row = Flush(@, loaded, [status |-> "COMPLETED", engine |-> Decide(Policy, f),
                                       effective |-> Decide(Policy, f), reviewed |-> loaded.reviewed,
                                       needsReview |-> RequiresHumanReview(f)]),
          ![x].findings = f]
    /\ worker' = [worker EXCEPT ![w] = IdleWorker]
    /\ UNCHANGED <<results, client, spent>>

\* Mutant of Fail: one attempt too many.
FailOneMore(w) ==
    LET x == worker[w].run IN
    /\ worker[w].stage # "idle"
    /\ run' = [run EXCEPT ![x].row.status =
                 IF run[x].attempts <= MaxAttempts THEN "PENDING" ELSE "FAILED"]
    /\ worker' = [worker EXCEPT ![w] = IdleWorker]
    /\ UNCHANGED <<results, client, spent>>

\* Mutant of Fail: the count of attempts is rolled back too.
FailUncounted(w) ==
    LET x == worker[w].run IN
    /\ worker[w].stage # "idle"
    /\ run' = [run EXCEPT ![x].row.status = "PENDING", ![x].attempts = @ - 1]
    /\ worker' = [worker EXCEPT ![w] = IdleWorker]
    /\ UNCHANGED <<results, client, spent>>

\* An exception anywhere: rolled back, then _fail_job.
Fail(w) ==
    LET x == worker[w].run IN
    /\ worker[w].stage # "idle"
    /\ run' = [run EXCEPT ![x].row.status =
                 IF run[x].attempts < MaxAttempts THEN "PENDING" ELSE "FAILED"]
    /\ worker' = [worker EXCEPT ![w] = IdleWorker]
    /\ UNCHANGED <<results, client, spent>>

\* The worker process dies. Nothing ever claims a PROCESSING job again.
Crash(w) ==
    /\ worker[w].stage # "idle"
    /\ spent.crashes < CrashBudget
    /\ worker' = [worker EXCEPT ![w] = IdleWorker]
    /\ spent' = [spent EXCEPT !.crashes = @ + 1]
    /\ UNCHANGED <<run, results, client>>

ReviewStep ==
    \E r \in Requirements : \E result \in results[r] :
        \/ \E review \in {"CONFIRMED", "REJECTED"} : ReviewResult(r, result, review, result.status)
        \/ \E status \in OverrideStatuses : ReviewResult(r, result, "OVERRIDDEN", status)

ClientStep(c) ==
    \/ \E force \in BOOLEAN : BeginCreate(c, force)
    \/ \E x \in Runs : CommitCreate(c, x) \/ BeginRetry(c, x) \/ BeginReview(c, x)
    \/ CommitRefused(c)
    \/ CommitRetry(c)
    \/ \E action \in {"CONFIRM", "OVERRIDE", "REJECT"}, outcome \in OverrideOutcomes :
          CommitReview(c, action, outcome)

WorkerStep(w) ==
    \/ \E x \in Runs : Claim(w, x)
    \/ ReadFinancial(w)
    \/ ReadSpecialized(w)
    \/ Complete(w)
    \/ Fail(w)

Next ==
    \/ \E k \in Categories : CompleteSpecialized(k)
    \/ ReviewStep
    \/ \E c \in Clients : ClientStep(c)
    \/ \E w \in Workers : WorkerStep(w) \/ Crash(w)

Spec == Init /\ [][Next]_vars

\* decision_drain runs the workers again and again. Nothing is assumed of
\* users, evaluations or crashes.
FairSpec == Spec /\ \A w \in Workers : WF_vars(WorkerStep(w))

-----------------------------------------------------------------------------
TypeOK ==
    /\ \A x \in Runs :
          /\ run[x].row \in Row
          /\ run[x].attempts \in 0 .. MaxAttempts
          /\ DOMAIN run[x].findings \in {{}, Requirements}
          /\ \A r \in DOMAIN run[x].findings : run[x].findings[r] \in Finding
    /\ results \in [Requirements -> SUBSET Result]
    /\ \A w \in Workers :
          /\ worker[w].stage \in {"idle", "claimed", "reading", "deciding"}
          /\ worker[w].run \in Runs \cup {NoRun}
          /\ worker[w].loaded \in Row
    /\ \A c \in Clients :
          /\ client[c].stage \in {"idle", "creating", "retrying", "reviewing"}
          /\ client[c].run \in Runs \cup {NoRun}
          /\ client[c].loaded \in Row
    /\ spent \in [evaluations : [Categories -> Nat], reviews : Nat, requests : Nat, crashes : Nat]

\* Create and retry race each other and the workers, and never leave two runs of
\* the same inputs under way.
OneActiveRun == \A x, y \in Runs : {run[x].row.status, run[y].row.status} \subseteq Active => x = y

\* The outcome a run shows is the one its stored findings give, however often
\* the run failed, was retried or was reset under a finished decision.
OutcomeExplained ==
    \A x \in Runs : run[x].row.status = "COMPLETED" =>
        /\ DOMAIN run[x].findings = Requirements
        /\ run[x].row.engine = Decide(Policy, run[x].findings)

\* Overriding a result to COMPLIES, of a requirement that applied, never makes
\* the worst outcome a new run could reach worse.
WorstRank(rows) ==
    LET ranks == {Policy.rank[Decide(Policy, f)] : f \in Collected(Requirements, rows)} IN
    CHOOSE n \in ranks : \A m \in ranks : n <= m
FixNeverHurts ==
    [][\A r \in Requirements : \A result \in results[r] :
          (/\ FindingOf(r, result).outcome # "NOT_APPLICABLE"
           /\ ReviewResult(r, result, "OVERRIDDEN", "COMPLIES"))
              => WorstRank(results) <= WorstRank(results')]_vars

\* The policies for which it holds, policy.json among them: cautious ones in which
\* nothing that failures and open questions suggest comes after PENDIENTE_INFORMACION,
\* the answer where nothing is suggested and GO is not earned. With NO_GO behind it,
\* correcting the failure that blocks would move a process with another, lesser failure
\* from NO_GO to the PENDIENTE_INFORMACION that such a policy ranks first.
PendingComesLast ==
    /\ Cautious(Policy)
    /\ \A o \in {"NO_GO", Policy.unknown, Policy.conflict, Policy.partial} :
          Policy.rank[o] <= Policy.rank["PENDIENTE_INFORMACION"]

\* A run that waits is decided or given up, unless its worker crashed.
Abandoned(x) == run[x].row.status = "PROCESSING" /\ \A w \in Workers : worker[w].run # x
RunsEnd ==
    \A x \in Runs : run[x].row.status \in Active
        ~> run[x].row.status \in {"COMPLETED", "FAILED"} \/ Abandoned(x)

\* models.py: "Ejecucion inmutable del motor de decision". A completed run keeps
\* its status and the outcome of the engine.
CompletedIsFinal ==
    [][\A x \in Runs : run[x].row.status = "COMPLETED" =>
          /\ run'[x].row.status = "COMPLETED"
          /\ run'[x].row.engine = run[x].row.engine]_vars

\* docs/security-and-governance.md: reviewed_outcome and effective_outcome record
\* human confirmations and overrides. So a reviewed run takes effect as reviewed.
EffectiveFollowsReview ==
    \A x \in Runs : run[x].row.reviewed # Undecided => run[x].row.effective = run[x].row.reviewed

\* test_decision_api.py: the same digest gives the same outcome.
SameDigestSameOutcome ==
    \A x, y \in Runs :
        {run[x].row.status, run[y].row.status} = {"COMPLETED"}
            => run[x].row.engine = run[y].row.engine
=============================================================================
