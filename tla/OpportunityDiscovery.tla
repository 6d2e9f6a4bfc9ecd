--------------------------- MODULE OpportunityDiscovery ---------------------------
(***************************************************************************)
(* The discovery of opportunities: requests that queue a run, workers that *)
(* search the public source and screen what it answers, reviews and new    *)
(* assessments of what was found, and its import as a process.             *)
(*                                                                         *)
(* A search commits its results by itself, so a run that fails later       *)
(* leaves them. A result is never edited: what the source publishes later  *)
(* is another result.                                                      *)
(***************************************************************************)
EXTENDS OpportunityRules, TLC

CONSTANTS
    Company,        \* [published snapshots -> the facts of the company]
    Published,      \* [processes of the source -> what it may publish of each: a set of facts]
    Queries,        \* what a request searches for: sequences of sets of processes
    Policies,       \* [numbers of releases -> the policy that the release comes with]
    Times,          \* the seconds at which something is asked or assessed
    Actions,        \* what a review may decide
    Clients, Workers,
    MaxRuns, MaxResults, MaxAssessments, MaxImports, MaxReviews,    \* bounds on rows
    ChangeBudget,   \* bound on changes of the source, the release and the clock
    FaultBudget     \* bound on failures and crashes of workers

VARIABLES
    source,     \* [processes -> what the source publishes of it now]
    policy,     \* the number of the release that is deployed
    now,
    results,    \* external_procurement_search_results in the order of creation
    runs,       \* opportunity_discovery_runs
    assessments,\* opportunity_assessments, each with its reviews and its candidate, which is
                \* the one of its run and result; imported: the candidate has a process
    links,      \* [source processes -> how many processes were imported from it]
    imports,    \* external_procurement_imports
    request,    \* [Clients -> what a request has read, or Idle]
    worker,     \* [Workers -> the run it works on and the release whose policy it loaded, or Free]
    spent

vars == <<source, policy, now, results, runs, assessments, links, imports, request, worker, spent>>

Processes == DOMAIN Published
Idle == [op |-> "idle"]
Free == [run |-> 0]
RunStatus == {"PENDING", "PROCESSING", "COMPLETED", "FAILED"}

NewRun(r) == [status |-> "PENDING", digest |-> r, found |-> {}]
NewResult(p) == [process |-> p, facts |-> source[p]]
NewImport(p, status) == [process |-> p, status |-> status]
NewReview(action, earlier) ==
    [action |-> action, previous |-> IF earlier = <<>> THEN Null ELSE Last(earlier).action]

Init ==
    /\ source \in {s \in [Processes -> UNION {Published[p] : p \in Processes}] :
                      \A p \in Processes : s[p] \in Published[p]}
    /\ policy = 1
    /\ now \in Times
    /\ results = <<>> /\ runs = <<>> /\ assessments = <<>> /\ imports = <<>>
    /\ links = [p \in Processes |-> 0]
    /\ request = [c \in Clients |-> Idle]
    /\ worker = [w \in Workers |-> Free]
    /\ spent = [changes |-> 0, faults |-> 0]

-----------------------------------------------------------------------------
Changes == spent.changes < ChangeBudget /\ spent' = [spent EXCEPT !.changes = @ + 1]

SourceChanges ==
    /\ Changes
    /\ \E p \in Processes : \E facts \in Published[p] \ {source[p]} : source' = [source EXCEPT ![p] = facts]
    /\ UNCHANGED <<policy, now, results, runs, assessments, links, imports, request, worker>>

\* A release brings another policy, or the one before it back; time passes.
Deploy ==
    /\ Changes
    /\ policy' \in DOMAIN Policies \ {policy}
    /\ UNCHANGED <<source, now, results, runs, assessments, links, imports, request, worker>>
Tick ==
    /\ Changes
    /\ now' \in {t \in Times : t > now}
    /\ UNCHANGED <<source, policy, results, runs, assessments, links, imports, request, worker>>

-----------------------------------------------------------------------------
\* What may be asked for: searches, results that are kept already, or both, as of a minute
Minute(at) == at - (at % 60)
Requests ==
    {asked \in [snapshot : DOMAIN Company, queries : Queries, candidates : SUBSET DOMAIN results,
                effective : {Minute(at) : at \in Times}] :
        asked.queries # <<>> \/ asked.candidates # {}}

\* The digest of a request: what is asked for, and the hash of the policy
Digest(asked) ==
    [snapshot |-> asked.snapshot, queries |-> asked.queries, candidates |-> asked.candidates,
     policy |-> Policies[policy].raw, effective |-> asked.effective]
Reusable(digest) == {x \in DOMAIN runs : runs[x].digest = digest}

\* enqueue_discovery: without force, a run of the same digest answers, in whatever
\* status it is.
Enqueue(asked, force) ==
    LET digest == Digest(asked) IN
    /\ Len(runs) < MaxRuns
    /\ force \/ Reusable(digest) = {}
    /\ runs' = Append(runs, NewRun(digest))
    /\ UNCHANGED <<source, policy, now, results, assessments, links, imports, request, worker, spent>>

\* process_next_discovery, and the policy that process_discovery_run loads
Claim(w) ==
    /\ worker[w] = Free
    /\ \E x \in DOMAIN runs :
          /\ runs[x].status = "PENDING"
          /\ runs' = [runs EXCEPT ![x].status = "PROCESSING"]
          /\ worker' = [worker EXCEPT ![w] = [run |-> x, searched |-> 0, policy |-> policy]]
    /\ UNCHANGED <<source, policy, now, results, assessments, links, imports, request, spent>>

RunOf(w) == runs[worker[w].run]

\* Mutant of SamePolicy: the hash of the run is not compared.
SamePolicyUnchecked(w) == TRUE

SamePolicy(w) == Policies[worker[w].policy].raw = RunOf(w).digest.policy

\* run_search: the rows of one query, committed
Search(w) ==
    LET query == RunOf(w).digest.queries[worker[w].searched + 1]
        rows == SetToSeq(query) IN
    /\ worker[w] # Free /\ SamePolicy(w)
    /\ worker[w].searched < Len(RunOf(w).digest.queries)
    /\ Len(results) + Len(rows) <= MaxResults
    /\ results' = results \o [n \in DOMAIN rows |-> NewResult(rows[n])]
    /\ runs' = [runs EXCEPT ![worker[w].run].found = @ \cup (Len(results) + 1) .. (Len(results) + Len(rows))]
    /\ worker' = [worker EXCEPT ![w].searched = @ + 1]
    /\ UNCHANGED <<source, policy, now, assessments, links, imports, request, spent>>

\* Mutants of AssessmentDigest: the date, the hash of the policy or the components are no part
\* of it.
AssessmentDigestUndated(snapshot, result, raw, at, told) ==
    [snapshot |-> snapshot, policy |-> raw, process |-> result.process, payload |-> result.facts,
     effective |-> Null, components |-> told.components, completeness |-> told.completeness]
AssessmentDigestUnhashed(snapshot, result, raw, at, told) ==
    [snapshot |-> snapshot, policy |-> Null, process |-> result.process, payload |-> result.facts,
     effective |-> at, components |-> told.components, completeness |-> told.completeness]
AssessmentDigestUntold(snapshot, result, raw, at, told) ==
    [snapshot |-> snapshot, policy |-> raw, process |-> result.process, payload |-> result.facts,
     effective |-> at, components |-> Null, completeness |-> Null]

\* The digest of an assessment: the snapshot, the hashes of the policy and of what the source
\* published of the process, the date, and the statuses and scores of the components
AssessmentDigest(snapshot, result, raw, at, told) ==
    [snapshot |-> snapshot, policy |-> raw, process |-> result.process, payload |-> result.facts,
     effective |-> at, components |-> told.components, completeness |-> told.completeness]

\* _persist_candidate: a process that was imported before is known to the candidate.
NewCandidate(run, n) == [run |-> run, result |-> n, imported |-> links[results[n].process] > 0]

\* _persist_assessment, for a candidate that has just been made or that exists, under the
\* policy of a release
NewAssessment(candidate, snapshot, release, at) ==
    LET result == results[candidate.result]
        told == Assess(Company[snapshot], result.facts, Policies[release], at) IN
    [run |-> candidate.run, result |-> candidate.result, imported |-> candidate.imported,
     snapshot |-> snapshot, effective |-> at,
     digest |-> AssessmentDigest(snapshot, result, Policies[release].raw, at, told), reviews |-> <<>>,
     told |-> told]

\* process_discovery_run after its searches: a candidate and an assessment for each
\* result that was asked for or found, all in one transaction
Screened(w) == SetToSeq(RunOf(w).digest.candidates \cup RunOf(w).found)
Complete(w) ==
    /\ worker[w] # Free /\ SamePolicy(w)
    /\ worker[w].searched = Len(RunOf(w).digest.queries)
    /\ Len(assessments) + Len(Screened(w)) <= MaxAssessments
    /\ assessments' = assessments \o
          [n \in DOMAIN Screened(w) |->
              NewAssessment(NewCandidate(worker[w].run, Screened(w)[n]), RunOf(w).digest.snapshot,
                            worker[w].policy, RunOf(w).digest.effective)]
    /\ runs' = [runs EXCEPT ![worker[w].run].status = "COMPLETED"]
    /\ worker' = [worker EXCEPT ![w] = Free]
    /\ UNCHANGED <<source, policy, now, results, links, imports, request, spent>>

Faulty == spent.faults < FaultBudget /\ spent' = [spent EXCEPT !.faults = @ + 1]

\* Another policy than the one of the request, a search the source refuses, or any
\* other exception: the run has failed, and no worker takes it again.
Fail(w) ==
    /\ worker[w] # Free
    /\ IF SamePolicy(w) THEN Faulty ELSE UNCHANGED spent
    /\ runs' = [runs EXCEPT ![worker[w].run].status = "FAILED"]
    /\ worker' = [worker EXCEPT ![w] = Free]
    /\ UNCHANGED <<source, policy, now, results, assessments, links, imports, request>>

Crash(w) ==
    /\ worker[w] # Free /\ Faulty
    /\ worker' = [worker EXCEPT ![w] = Free]
    /\ UNCHANGED <<source, policy, now, results, runs, assessments, links, imports, request>>

-----------------------------------------------------------------------------
CandidateOf(a) ==
    [run |-> assessments[a].run, result |-> assessments[a].result, imported |-> assessments[a].imported]

\* reassess: the same candidate and result, the policy and the time of now
Reassess(a) ==
    /\ Len(assessments) < MaxAssessments
    /\ assessments' = Append(assessments, NewAssessment(CandidateOf(a), assessments[a].snapshot, policy, now))
    /\ UNCHANGED <<source, policy, now, results, runs, links, imports, request, worker, spent>>

\* create_review: appended, with the action it replaces
Review(a, action) ==
    /\ FoldLeft(LAMBDA n, b : n + Len(b.reviews), 0, assessments) < MaxReviews
    /\ assessments' = [assessments EXCEPT ![a].reviews = Append(@, NewReview(action, @))]
    /\ UNCHANGED <<source, policy, now, results, runs, links, imports, request, worker, spent>>

\* import_opportunity: import_result, of the result of a candidate; a process that is
\* linked already is skipped.
Imported(a) == [op |-> "assign", assessment |-> a]
BeginImport(c, a) ==
    LET p == results[assessments[a].result].process IN
    /\ request[c] = Idle
    /\ Len(imports) < MaxImports
    /\ IF links[p] > 0
       THEN /\ imports' = Append(imports, NewImport(p, "SKIPPED_DUPLICATE"))
            /\ request' = [request EXCEPT ![c] = Imported(a)]
       ELSE /\ request' = [request EXCEPT ![c] = [op |-> "import", assessment |-> a]]
            /\ UNCHANGED imports
    /\ UNCHANGED <<source, policy, now, results, runs, assessments, links, worker, spent>>

\* Mutant of NotLinked: no unique key on the links.
NotLinkedUnchecked(p) == TRUE

\* uq_external_procurement_links_source_key
NotLinked(p) == links[p] = 0

CommitImport(c) ==
    LET p == results[assessments[request[c].assessment].result].process IN
    /\ request[c].op = "import"
    /\ NotLinked(p) /\ Len(imports) < MaxImports
    /\ links' = [links EXCEPT ![p] = @ + 1]
    /\ imports' = Append(imports, NewImport(p, "IMPORTED"))
    /\ request' = [request EXCEPT ![c] = Imported(request[c].assessment)]
    /\ UNCHANGED <<source, policy, now, results, runs, assessments, worker, spent>>

\* It goes on in another transaction: its candidate, and no other one of
\* the process, is told.
Assign(c) ==
    LET chosen == request[c].assessment IN
    /\ request[c].op = "assign"
    /\ assessments' = [a \in DOMAIN assessments |->
          IF /\ assessments[a].run = assessments[chosen].run
             /\ assessments[a].result = assessments[chosen].result
          THEN [assessments[a] EXCEPT !.imported = TRUE] ELSE assessments[a]]
    /\ request' = [request EXCEPT ![c] = Idle]
    /\ UNCHANGED <<source, policy, now, results, runs, links, imports, worker, spent>>

\* The key refuses the link: everything is rolled back.
ImportRefused(c) ==
    /\ request[c].op = "import"
    /\ ~NotLinked(results[assessments[request[c].assessment].result].process)
    /\ request' = [request EXCEPT ![c] = Idle]
    /\ UNCHANGED <<source, policy, now, results, runs, assessments, links, imports, worker, spent>>

WorkerStep(w) == Claim(w) \/ Search(w) \/ Complete(w) \/ Fail(w)

Next ==
    \/ SourceChanges \/ Deploy \/ Tick
    \/ \E asked \in Requests, force \in BOOLEAN : Enqueue(asked, force)
    \/ \E w \in Workers : WorkerStep(w) \/ Crash(w)
    \/ \E a \in DOMAIN assessments : Reassess(a) \/ \E action \in Actions : Review(a, action)
    \/ \E c \in Clients :
          \/ \E a \in DOMAIN assessments : BeginImport(c, a)
          \/ CommitImport(c) \/ Assign(c) \/ ImportRefused(c)

Spec == Init /\ [][Next]_vars

-----------------------------------------------------------------------------
TypeOK ==
    /\ \A x \in DOMAIN runs :
          /\ runs[x].status \in RunStatus
          /\ runs[x].found \cup runs[x].digest.candidates \subseteq DOMAIN results
    /\ \A a \in DOMAIN assessments :
          /\ assessments[a].told.outcome \in Outcome /\ assessments[a].result \in DOMAIN results
          /\ assessments[a].run \in DOMAIN runs
    /\ policy \in DOMAIN Policies
    /\ \A w \in Workers :
          worker[w] # Free => worker[w].run \in DOMAIN runs /\ worker[w].policy \in DOMAIN Policies

\* A process of the source is imported once, however many results of it are imported
\* at the same time, and one attempt tells so.
ImportedOnce ==
    \A p \in Processes :
        Cardinality({n \in DOMAIN imports : imports[n] = NewImport(p, "IMPORTED")}) = links[p]
            /\ links[p] <= 1

\* Assessments with one digest tell the same, whenever they were made: under releases with
\* other weights, thresholds or terms, at other times, of other results and of other runs.
SameDigestSameOutcome ==
    \A a, b \in DOMAIN assessments :
        assessments[a].digest = assessments[b].digest => assessments[a].told = assessments[b].told

\* What a run assesses is of the snapshot, under the policy and as of the minute that it was
\* asked for, whatever was deployed before a worker took it. Later assessments of a candidate
\* are new ones, under the policy and at the time of their own.
IsFirst(a) ==
    ~\E b \in DOMAIN assessments : /\ b < a
                                   /\ assessments[b].run = assessments[a].run
                                   /\ assessments[b].result = assessments[a].result
AssessedAsRequested ==
    \A a \in DOMAIN assessments :
        LET asked == runs[assessments[a].run].digest
            digest == assessments[a].digest IN
        IsFirst(a) => /\ digest.snapshot = asked.snapshot /\ digest.policy = asked.policy
                      /\ digest.effective = asked.effective

\* Both: an assessment says which policy it was made under, and a run's are made under its own.
AssessmentsFollowDigests == SameDigestSameOutcome /\ AssessedAsRequested

\* docs/opportunity-compatibility.md, docs/opportunity-outcomes.md: what is not known
\* makes no positive signal. Under the policy of the repository only an open process that the
\* company's contracts and codes fit is to be reviewed first, and only with days left to do it;
\* contracts fit by the terms of a release with that policy.
ReviewFirstBacked ==
    \A a \in DOMAIN assessments :
        LET told == assessments[a].told
            process == results[assessments[a].result].facts
            company == Company[assessments[a].snapshot] IN
        (told.outcome = "REVISAR_PRIMERO" /\ assessments[a].digest.policy = V1) =>
            /\ ~process.closed /\ process.closing # Null
            /\ process.closing - assessments[a].effective >= V1.criticalHours * 3600 - 18
            /\ \E n \in DOMAIN Policies :
                  /\ Policies[n].raw = V1
                  /\ \E e \in company.experience :
                        Tokens(e.words, Policies[n].terms) \cap Tokens(process.words, Policies[n].terms) # {}
            /\ \E left \in company.codes, right \in process.codes : left[1] = right[1]
            /\ told.completeness >= V1.thresholds.information

\* A run assesses a process of the source once.
OneCandidatePerProcess ==
    \A a, b \in DOMAIN assessments :
        (/\ assessments[a].run = assessments[b].run
         /\ assessments[a].effective = assessments[b].effective
         /\ results[assessments[a].result].process = results[assessments[b].result].process)
            => assessments[a].result = assessments[b].result

\* docs/opportunity-ranking-policy.md: potential from 55
PotentialFrom55 ==
    \A a \in DOMAIN assessments :
        assessments[a].told.outcome = "OPORTUNIDAD_POTENCIAL" =>
            assessments[a].told.score >= assessments[a].digest.policy.thresholds.potential * 100

\* A request that is not forced is answered by a run that has not failed.
AnswerMayEnd ==
    \A asked \in Requests :
        LET reusable == Reusable(Digest(asked)) IN
        reusable # {} => \E x \in reusable : runs[x].status # "FAILED"

\* A process whose closing date is past is expired.
PastIsExpired ==
    \A a \in DOMAIN assessments :
        LET process == results[assessments[a].result].facts IN
        (~process.closed /\ process.closing # Null /\ process.closing < assessments[a].effective)
            => assessments[a].told.urgency = "EXPIRED"

\* deep_analysis_readiness asks a candidate for its process: what was imported is known
\* to the candidates of the process, once nobody is importing.
ImportIsKnown ==
    (\A c \in Clients : request[c] = Idle) =>
        \A a \in DOMAIN assessments :
            assessments[a].imported <=> links[results[assessments[a].result].process] > 0
=============================================================================
