# PliegoCheck-SECOP: specifications

PliegoCheck-SECOP reads the documents of Colombian public tenders, normalizes and evaluates
their requirements against the profile of a company, decides by fixed rules whether to bid
(`GO`, `GO_CONDICIONADO`, `BUSCAR_ALIADO`, `NO_GO`, `NO_CARGAR`, `PENDIENTE_INFORMACION`), and
watches the public data for new opportunities. This directory holds TLA+ specifications of its
queues and of its decision rules, the TLC runs that check them on small instances, and TLAPS
proofs of what they promise for instances of any size.

In this file `api` is `src/apps/api/src/pliegocheck_api` and `worker` is
`src/apps/worker/src/pliegocheck_worker`.

## 1. The system

Everything runs on one PostgreSQL database. HTTP handlers (FastAPI) and worker commands
(`*-drain`, `*-run-once`, `monitor-scheduler`) are separate processes. Each uses sessions of
SQLAlchemy made by `api/db.py:23` with `autoflush=False` and `expire_on_commit=False`. Work
passes from handler to worker through tables that serve as queues: `SELECT ... FOR UPDATE SKIP
LOCKED`, the status set to `PROCESSING`, a commit, which releases the lock, the work, and a
second commit with the result. Three facts of this design are behind most of what can go wrong:

- after the claim is committed nothing is locked, and what was read before is used later;
- a session writes only the columns whose value differs from the one it has loaded, so two
  sessions that loaded the same row mix their columns, and an assignment that looks like no
  change is not written at all;
- a query does not see what its own session has assigned and not flushed.

### Inventory

| Component | State | Operations | What is hard | What makes it correct |
| --- | --- | --- | --- | --- |
| Notification delivery (`api/notification_delivery`) | outbox messages, delivery attempts, destinations | enqueue, claim, suppress, deliver by SMTP or webhook, record, retry, cancel, pause; digests, retention | stale claims after ten minutes, lost answers, operators acting on a message under delivery, limits counted before sending | a gapless ledger of attempts that explains the status; settled messages stay; bounded duplicates and attempts; every message is settled whose delivery does not go on raising |
| Decision engine (`api/decision`) | none: a function of findings and a policy | twelve rules, coverage, suggestions, precedence | the combinations of rules | `GO` is earned; doubt withholds positive outcomes |
| Decision runs (`api/routes/decisions.py`, `worker/decision`) | jobs, runs, stored findings, reviews | create with digest, retry, review, claim, collect, decide, fail | checks before writes, reads spread over two queries, reviews between them | one active run for the inputs; an outcome follows from the stored findings; a completed run is final |
| Document extraction (`worker/runner.py`, `api/routes/processes.py`) | documents, jobs, extractions, files | upload, enqueue, claim, extract in a child process with a time-out, persist, retry | races of requests, the pipe between the processes, damaged files, dead children | one worker per document, one extraction per document, statuses backed by extractions, every job ends |
| Opportunity monitoring (`api/opportunity_monitoring`) | monitors, runs, candidate states, alerts | schedule, run, compare, alert, pause, resume, edit, run by hand | locks released in the middle of a tick, slots reckoned on the wall clock of a zone, overlapping workers, identities of alerts | one active run; one recovery after missed slots; no change is stored without its alert |
| Opportunity discovery (`api/opportunities`, `api/external_procurement`) | runs, search results, candidates, assessments, imports | enqueue with digest, claim, search, screen, assess again, review, import | what the source and the policy are when a queued run is taken up, imports of one process at once | a digest stands for what it digests, and a run is assessed under the policy it was asked for; a process is imported once |
| Normalization (`api/normalization.py`, `worker/normalization`) | runs, batches, requirements, rejected candidates | request, claim, send a batch to the model, validate evidence, reject, relate, retry | attempts that end between two batches, documents extracted again in between | each candidate is counted once; evidence is of the run's snapshot |
| Financial evaluation (`api/financial.py`, `worker/financial`) | jobs, runs, rules with versions, results, reviews | request, map texts to rules, override, claim, evaluate, retry, review | rules written while a run waits, commits an index refuses | a run has its job; one digest gives one result; a verdict has evidence |
| Specialized evaluation (`api/specialized_evaluation.py`) | jobs, runs, rules, results, reviews per domain | as above, for legal, technical and experience requirements | the same, and closing dates that move | an exclusive queue; a verdict rests on valid evidence |
| Decision reports (`api/reports`, `worker/reports`) | packages, jobs, artifacts, files | request, snapshot, render, store, publish, retry | files do not roll back, retries overlap | rows have their files; a package follows its job |
| External documents (`api/external_documents`) | synchronisations, documents, versions, download jobs, files | synchronise, list, download, store, share files | the source changes meanwhile, files are stored before the commit, and shared | every version keeps its file |
| Company profiles (`api/routes/companies.py`) | profile, records, evidence, links, snapshots | edit, upload, link, review, snapshot, publish | a profile is read by several queries, two snapshots are published at once | a snapshot has the evidence it rests on; one stays published |
| Accounts (`api/auth.py`, `api/routes/auth.py`, `api/routes/admin.py`) | users, sessions | log in, lock, change password, revoke, disable, enable | logins that overlap write counts they read before | only real failures lock an account |
| Deployment controller (`src/deploy/restricted/controller.py`) | images, containers, schema, backups, the lock | deploy, roll back, stop, back up, keep, verify a restore | it stops at any command, and releases share a tag; documents are stored while a backup is made | a backup lacks nothing that the host has; no deployment gets ahead of the schema |
| Storage, configuration, file validation, extractors, procurement clients, pilot scripts, web client, schemas | files; otherwise none of their own | input, output, parsing, rendering | — | not behaviour over time |

How they interact: an upload creates a document and its extraction job; extractions feed
normalization, whose requirements feed the evaluations, their results and reviews feed a decision
run, which calls the decision engine; a report packages a decision. The monitors start discovery
runs and their alerts are copied to the outbox. The evaluations read a published snapshot
of the company's profile; discovery reads it too, and an import makes a process whose documents are
then synchronised and downloaded. All of this goes through the shared database and none of it
through calls between processes; the deployment controller acts from outside on the containers,
the database and the storage.

## 2. The modules

| Module | Models | Built on |
| --- | --- | --- |
| `NotificationOutbox` | the outbox, its workers, operators and time | |
| `NotificationAudit` | history variables over it: deliveries taken, overlaps, lost answers | `NotificationOutbox` |
| `DecisionEngine` | rules, coverage, suggestions, precedence as operators | |
| `DecisionCases` | one case: a policy, a finding per requirement, the decision | `DecisionEngine` |
| `DecisionRuns` | runs, results, reviews, clients, workers; the outcome by `Decide` | `DecisionEngine` |
| `ExtractionQueue` | documents, jobs, requests, workers and their children | |
| `OpportunityMonitor` | monitors, scheduler, runs, candidate state, alerts | |
| `RequirementNormalization` | normalization runs and their batches | |
| `FinancialRules` | the financial evaluator as operators | |
| `FinancialEvaluation` | its queue, rules, versions and reviews | `FinancialRules` |
| `SpecializedRules` | the legal, technical and experience evaluators | |
| `SpecializedEvaluation` | their queue; its refinement mapping | `SpecializedRules`, `ExclusiveQueue` |
| `ExclusiveQueue` | abstract: what a job table promises | |
| `DecisionReports` | packages, artifacts and files | |
| `ExternalDocuments` | synchronisations, downloads, versions, files | |
| `OpportunityRules` | the screening of a process as operators | |
| `OpportunityDiscovery` | runs, results, assessments, reviews, imports | `OpportunityRules` |
| `CompanyProfiles` | the profile, evidence and snapshots | |
| `AuthSessions` | accounts, logins, sessions | |
| `RestrictedDeployment` | deployments and backups over a storage in use | |
| `Evaluations` | composes normalization, both evaluations and reports | those four |
| `Services` | composes documents, opportunities, profiles, accounts and the host | those five |
| `NotificationOutboxProofs`, `DecisionCasesProofs`, `DecisionRunsProofs`, `ExtractionQueueProofs`, `OpportunityMonitorProofs`, `EvaluationsProofs`, `ServicesProofs`, `RestrictedDeploymentProofs` | theorems | the module each is named after |
| other `MC*` | values of constants and symmetry sets for TLC | |

Definitions keep the names of the code where they can; `PROJECT.json` names the lines of each.
An operator introduced by "Mutant of X" is X with a plausible mistake. It is used by nothing: put
in the place of X, it breaks the property it is listed with, which shows that the property looks
at that line of code.

### NotificationOutbox

`row` is a row of `notification_outbox_messages`, `attempts` its delivery attempts, `job[w]` what
worker `w` holds in memory between the commit of `claim_next` and that of `process_next`.
`available_at`, `updated_at` and `delivered_at` are kept as times to go and times passed, which
`Tick` moves and which stop where no guard can tell them apart any more (`AgeCap`, `DeliveredCap`,
`ElapsedCap`). One call of `process_next` is four steps, one per point where others can come in
between: `ClaimNext`; `Suppress` or `BeginDelivery` (the refresh and the checks);
`Deliver` or `DeliverRaises`; `RecordAttempt`, or `RecordAttemptFails` where the unique constraint
on the attempt number refuses it. `Concluded` writes back only what differs from what was read.
`ManualRetry`, `Cancel` and `SwitchDestination` are the operators' requests; `Crash` loses a
worker's memory.

A delivery raises, and leaves no attempt, for the messages of `Unrenderable` (an address or a
payload that the mail provider refuses before its `try`, or a payload without disclaimer), and may
do so for those of `Webhooks`: a host that `getaddrinfo` cannot resolve is a `gaierror` and no
`ValueError`, and httpx raises more than the two errors that `deliver` takes for a failure. Whether
a webhook is answered, refused or raises is open at each delivery. So `EventuallySettled` promises
that a message settles whose delivery raises finitely often; `AllEventuallySettled` leaves out that
condition and is the one the document makes.

Left out: the order in which due messages are claimed (any due one may be), the limits per day
and of the controlled pilot, which are further counts of the same form, digests and retention.
An operator's request is one step, although it reads before it writes: the columns it assigns are
taken to be written. The events written for the audit are left out.

`NotificationAudit` adds what nobody stores: how often the provider took a message (also when its
answer was lost or could not be read), and how often a second worker could get hold of it. A raise
leaves the claim to go stale, which makes an overlap of its own; `RaiseBudget` bounds how many
overlaps a message can have when it raises.

### DecisionEngine and DecisionCases

`f` maps each requirement to its finding. Each rule of `decision/rules.py` is the set of
requirements it triggers on; `RuleResults` says what each rule suggests, `First` takes the
suggestion that comes first in the policy's precedence and `Decide` is `decide`, prerequisites of
`GO` included. Every policy that the validators of `DecisionPolicy` accept is a member of
`DecisionPolicy`. `DecisionCases` fills in findings one after the other (the adapters) and then
decides, so that TLC enumerates the cases as states.

### DecisionRuns

`run[x].row` holds the columns of a decision run which sessions write, `attempts` those of its
job, `findings` the snapshots stored with it; job and run are one record, since every commit
changes both. `Flush` is what a session's UPDATE does: columns whose assigned value equals the
loaded one keep what the row has now. A request is a check (`BeginCreate`, `BeginRetry`,
`BeginReview`) and a commit (`CommitCreate`, `CommitRetry`, `CommitReview`, or `CommitRefused` by
`uq_decision_jobs_active_inputs`). A worker reads the financial results, then the specialized
ones, then decides and commits; between these steps reviews (`ReviewResult`) and new evaluations
(`CompleteSpecialized`) arrive. Which of several results of a requirement survives in the
dictionary of `_process_run` is left open, as the query has no order.

All runs are about one process, company, normalization and financial run: the inputs that the
digest and the unique index are made of. That financial run stays completed, as it was when the
decision was asked for; `_process_run` fails for good, without a retry, when it is not
(`worker/decision/orchestrator.py:183`), which takes a retry that reopens a completed financial run
and is left out. The `condition_codes`, `is_remediable` and similar flags
are not set by the two adapters and stay empty here; `DecisionCases` covers them.

### ExtractionQueue

`document` is `processing_status`, `job` the latest job of each document, `extractions` how many
rows of `document_extractions` there are for it. A request loads the document, looks for an active
job and an extraction, and inserts: three steps. A worker claims, copies and hashes the file
(`SourceFails`), finds an extraction (`CompleteIdempotent`) or starts the child (`StartChild`); the
child puts its result and waits for the pipe to be read when it is large (`ChildPuts`), or dies
(`ChildDies`); the parent times out, reads a failure, or persists.

`OutcomeOf`, `Heavy` and `Large` say of each document what the extractor makes of it, whether it
can take the child's memory or time, and whether its result exceeds the pipe.

### OpportunityMonitor

A tick is `BeginTick` (the query and its locks), then for each monitor `LookUp` (the query of
`request_run`) and `Schedule` (insert, next slot, commit or roll-back). The locks end with the
first commit; the rows loaded by the query are used until a roll-back expires them. A worker
claims a run and loads the monitor (`Claim`), and its run is completed or fails in one
transaction. A monitor watches one candidate of which one compared field, the outcome, is kept:
enough for new and changed candidates and for the identity of alerts. `alerts` is the set of
fingerprints, so adding one that is there is the update of `last_seen_at`.

Time is a clock of few instants. `Resume` takes an instant of its own, since `next_run_at` is then
the present moment and not a slot; `Refused` compares digests of the scheduler's runs only, because
the instants of manual requests are their own too.

`NextSlot` is `next_run_at`: slots are instants of UTC, `Later` adds intervals to the wall clock of
the zone (`Local`) and takes the sum back to UTC (`Instant`, with the fold of 0 that the sum of a
`datetime` and a `timedelta` has), while the intervals that were missed are counted in UTC.
`Workday` is the loop for `WEEKDAYS`. All monitors are in one zone, which moves its clock once at most, at `ShiftAt` by `Shift`
ticks: forward when positive, which skips what the clock would have shown, backward when negative.

### RequirementNormalization

A run takes the latest extraction of each document into its manifest; `jobs` are its attempts and
a batch is one transaction. A worker's `ProcessBatch` takes any of `Answers`, keeps a candidate
when its evidence is in the batch and can be located, rejects it with the code's reason otherwise,
and adds up the counters of the run; the last step relates requirements of one key. An attempt may
fail or die between two batches, and the next one skips the batches that are done. Left out: what
is said in the prompt, tokens and cost, and the reviews of single requirements by a person.

### FinancialRules and FinancialEvaluation

A text is what the parser asks of it: the metric it names, its markers (`"no inferior"`,
`"pesos"`), numbers and year. `FinancialRules` maps it to a rule, picks the period, records or
computes the metric (a ratio is an integer number of parts, rounded as `Decimal.quantize` rounds
it), and gives the verdict with its flag for review. `FinancialEvaluation` is the queue: a request
looks for an equal run and for an active job, then inserts, and the index may refuse the second of
its two commits; `Retry`, `Review` and `Override` are the other clients; a worker reads the rules
in force when it starts, and the closing date when it is there.

### SpecializedRules and SpecializedEvaluation

The same for the legal, experience and technical domains, whose workers try a job `MaxAttempts`
times and whose rules are rows of which nothing keeps two from being the same version. A record
is its kind, the words that find it, its status and links, its expiry, and a contract's value and
share. `Phase` at the end of the module is the refinement mapping to `ExclusiveQueue`: a snapshot
and a domain are a key, a job that waits is `pending`, one that a worker holds `held`, one that no
worker holds any more `abandoned`. Two active jobs of a key, or two workers on one job, are mapped
to phases the abstract queue does not have.

### DecisionReports

One decision run and its packages. `storage[p]` are the files of a package, which no roll-back
takes away; `rows` the artifacts the database knows. A worker reads what the report is to say and
saves the files (a key that exists refuses to be saved again), then commits the rows; a failure
while it saves removes the files it has saved itself, a failure of the commit none. The texts of
the documents are one value, what they say of the decision.

### ExternalDocuments

`source` is what the public data lists and contains; either of two datasets may fail to answer,
which is a warning and no failure. A synchronisation inserts, updates or marks documents missing;
a download ends in any content or an error; contents that are there already share their file,
`stored[c]` is the key of the first. `Compensated` is what is deleted from the storage when the
transaction fails. Which addresses and types the downloader refuses is an outcome of a download
here. `process_documents` also has what users upload by hand; that a download may share the file of
one of those is left out.

### OpportunityRules and OpportunityDiscovery

The twelve components, the score, the urgency and the outcomes of `engine.py`, under a policy. A
policy has two parts: `raw`, what `policy.json` says (weights in hundredths, thresholds, hours and
days, what a partner may resolve), which `policy_hash` stands for, and `terms`, the stopwords and
synonyms of `terms.json`, which no hash has. `V1` is the `policy.json` of the repository. Texts are
sets of words, and synonyms are single words; a UNSPSC code is the sequence of its pairs of digits, a
time is in seconds.

`Policies` has the policy of each release and `Deploy` brings another one. A request names a
snapshot, searches, results that are kept already (`candidates`, which the code calls
`candidate_ids`) and a minute, and is digested with the hash of the policy deployed now. The worker
that claims it loads the policy deployed then, for the whole run, and fails the run when its hash is
not that of the request (`SamePolicy`); handlers and workers are taken to be of one release at a
time. It commits each search by itself, then assesses what was found and what was kept, so that a run
that fails leaves its results. `AssessmentDigest` is what `assess` digests: the snapshot, the
policy's hash, the process and what the source published of it, the date, and the components as
they came out, of which the last is what keeps a digest from standing for two sets of terms.
An import reads, then commits the process, then assigns it to the candidates in a second transaction.

### CompanyProfiles, AuthSessions

A snapshot is made from what `_company_or_404` reads with one query for each kind of row, in the
order `ReadOrder`; what is committed in between is seen by the later queries only. Records are of
the twelve kinds that evidence may be linked to, three of them parts of a person and one of a
period, which no link marks as supported. `LinkEvidence` is one step, although
`companies.py:1873` reads the company, its subject and its evidence before the commit.
`declared` is a history variable. In `AuthSessions` a
login reads the account, takes its time over the password and writes columns that differ from what
it read; `failures` counts what really happened. A session that is revoked, has ended, or belongs
to a user who is not active authenticates nobody.

### RestrictedDeployment

A release is a number, which is also its last migration. A deployment is the three commands
`Stages` (build, migrate, up), and can stop after any of them. Its images have the tag that `TagOf`
says, which releases may share: the compose file gives all of them `restricted` unless the operator
says otherwise. A roll-back starts what was built last under a tag, over the schema as it is, and asks
for no more than a backup and an image. `rows` and `files` change while a backup first dumps the
database and then archives the storage. An upload saves its file, commits its row and reads it back
(`Refresh`); when the database raises, be it after the commit, the file is removed or, when that fails
too, left (`DatabaseRaises`). One deployment runs at a time, although no lock sees to it, and any
other command beside it. `Retention` removes backups from the oldest up to the last one that is
old enough.

### Composition

The tables of one of these components are not written by another, and what one takes from another
is an input with all the values the other can give it: documents extracted again, closing dates
that move, decisions that are reviewed. So `Evaluations` and `Services` are unions: a
behaviour picks one stage or part at the start, whose steps are then those of its module with all
its clients and workers; the others are at rest. The states are the sum of theirs. What is shared
in earnest is inside one module: the storage in `RestrictedDeployment`, evaluations and reviews in
`DecisionRuns`, the outbox with its operators.

## 3. What TLC checks

Every run ends within a few minutes. The numbers are those of distinct states.

| Run | Shows | Bounds |
| --- | --- | --- |
| `Outbox` | ledger gapless, status backed by it, settled messages stay, the message is settled in the end unless it goes on raising | 1 message (a webhook), 2 workers, 2 attempts, 1 operator request, 1 crash; 57 000 |
| `OutboxDuplicates` | deliveries and attempts bounded | the same instance with the history variables, raises while there are less than 2 overlaps; 1 090 000 |
| `OutboxRateLimit` | the hourly limit is exceeded by the other workers at most | 4 messages, 2 workers, limits of 1; 548 000 |
| `DecisionCases` | `GO` earned, doubt withholds | every pair of the sample findings, 2 policies; 260 000 |
| `Extraction` | one worker and one extraction per document, status backed, jobs end, small documents are extracted | 2 documents (one of them slow and large), 2 workers, 2 requests, 1 crash, 1 damaged file; 180 000 |
| `RunsSafety` | outcome explained by stored findings | 2 runs, 2 workers, 2 clients, 5 requests, 1 review, 1 crash; 470 000 |
| `RunsProgress` | runs end; a fix never hurts | 1 run, 2 requirements, 1 worker, 1 client, 4 verdicts, 2 reviews of results, 2 requests, 1 crash; 60 000 |
| `MonitorSafety` | one recovery but across a gap of the zone, runs end | 2 monitors, 1 scheduler, 1 worker, 3 runs, 3 instants, the clock moved forward at the third; 224 000 |
| `MonitorAlerts` | failures counted, no silent change | 1 monitor, `WEEKDAYS` from a Thursday, 2 snapshots, 2 workers, 4 runs; 216 000 |
| `Evaluations` | candidates accounted for, runs follow their jobs, verdicts backed, one digest one result, rows have files, the specialized queue is an `ExclusiveQueue` | each stage with 2 clients, 2 runs, 4 requests (normalization 3), 1 worker (specialized 2), 1 or 2 faults; 408 000 |
| `Services` | versions have files, assessments follow from their digests and runs from their requests, snapshots carry evidence, one snapshot stays published, accounts are locked by failures, backups lack nothing that the host has, only a rollback gets ahead of the schema | each part with 2 clients, 2 rows of each table (company: 1 record and 1 link), 1 worker, 1 fault; 3 policies, 1 tag for both releases; 1 619 000 in all |
| `OutboxPoison` | finds the disagreement described below | the smallest that shows it |

Why the bounds are enough: the races of these queues are between two sessions on one row, and
every run that is about a race has two workers or two clients on it, a crash to leave something
behind, and budgets for one request more than the shortest sequence that the mutants need. The
outbox has two attempts, so that one is a retry and one the last. The limits of `OutboxRateLimit`
are one, the least that two workers can exceed, and three messages that can be sent and one that
raises are enough to break it; that run has no operator and no crash, which `Outbox` has. Delays,
slots and windows are one tick long: only their order matters. `RunsProgress` has one worker and
one client because it is about the values of results and about progress; the races of runs are
those of `RunsSafety`. `MonitorSafety` has a single scheduler, as in the compose files; with two
its `OneRecovery` is false (below). Its zone moves the clock forward by one tick at the third of
its instants, so that slots before, in and after the gap are reckoned; `MonitorAlerts` has
`WEEKDAYS` from a Thursday, the first day from which one tick more is a weekend. The inputs of `Evaluations` (`MCEvaluations`) are chosen for what decides
between two verdicts: a ratio that is computed and one that is recorded and disputed, a period
that is rejected, a registration that expires between the two closing dates, two contracts asked
for of which one is verified and one declared. Those of `Services` (`MCServices`) are at the edges the code
rounds at: a process 48 hours and 17 seconds before it closes, with and without codes, which may
come to close in 20 seconds with little known of it; three releases, of which the second has other
terms under the same hash and the third another policy; requests that search, that name kept
results, or both; its documents may have equal contents,
without which no file is shared, and two releases are what a roll-back needs. The other verdicts,
urgencies and outcomes are in the operators and not in the inputs of these runs.

Fairness: workers and schedulers are commands that are run again and again, every call of a
provider and every join has a time-out. So each `FairSpec` has weak fairness of every worker's
steps, and of every scheduler's; the outbox also of `Tick` and the extraction queue of `ComesDue`,
since waiting times pass. The clock of the monitors need not advance, as their `RunsEnd` does not
wait for it. Nothing is assumed of users, crashes, disks, producers or new results. In `RunsEnd`
and `JobsEnd` the work abandoned by a crash is left out: the code never claims it again (see the
hazards).

`Evaluations` and `Services` have no fairness: their promises are about safety, and of progress
the code gives these queues less than the others, since what a dead worker leaves is never taken up
(`NothingBlocks`, below) and a failed normalization waits for a person. Deadlock is not checked:
budgets run out, and queues may be empty for good.

### Disagreements

Where the code and its documents disagree, a property states what the document, comment or test
says, and TLC finds a behaviour of the code that contradicts it. The run `OutboxPoison` checks one
of them, and `findings` in `PROJECT.json` quotes the sentence: a message whose address or payload
makes `deliver` raise, or whose webhook raises what is not caught, has no attempt recorded, goes stale and is taken up for ever; it never becomes
`FAILED_PERMANENT` (`docs/notification-retries.md:3`).

The others are for the reader to repeat: in the configuration named, put the property in the
place of all `INVARIANTS` and `PROPERTIES` (those marked * are action properties, and go under
`PROPERTY`), and drop `SYMMETRY` for those. `ExtractionLarge.cfg` and `MonitorTwoSchedulers.cfg`
need no change.

| Configuration | Property | What happens |
| --- | --- | --- |
| `OutboxDuplicates` | `AttemptsWithinMax` | A slow worker and the one that took over its claim both record: more attempts than `max_attempts` (`docs/notification-retries.md:3`). |
| `DecisionCases` | `PendingHasCause` | A mandatory failure which is neither blocking, remediable nor solvable by a partner ends as missing information (`docs/decision-outcomes.md:13`). |
| `RunsSafety` | `SameDigestSameOutcome` | The digest leaves out specialized evaluations and reviews: same digest, different outcome (`docs/decision-engine.md:7`). |
| `RunsSafety` | `CompletedIsFinal` * | Of two retries of a failed run the second reopens it after the first has completed it (`models.py:3305` calls a run immutable). |
| `RunsSafety` | `EffectiveFollowsReview` | Two reviews at once: `reviewed_outcome` of one, `effective_outcome` of the other (`docs/security-and-governance.md:98`). |
| `Extraction` | `FailedMeansExhausted` | A document stays `FAILED` while a job waits for it (`docs/document-extraction.md:37`). |
| `ExtractionLarge` | `DocumentsExtracted` | A result that exceeds the pipe is never read, because the parent joins the child first; the document is never extracted (`docs/document-extraction.md:12`). |
| `MonitorAlerts` | `FailedRunRetried` * | The retry of a failed run is never created: the query of `request_run` finds the failed run itself, which is still `PROCESSING` in the database (`docs/opportunity-alerts.md:13`). |
| `MonitorAlerts` | `ErrorAlerted` * | The second time a monitor goes to `ERROR` there is no alert (`docs/opportunity-alerts.md:13`). |
| `MonitorAlerts` | `TransitionAlerted` * | An outcome that changes back and forth raises an alert per direction and no more (`docs/opportunity-alert-deduplication.md:5`). |
| `MonitorAlerts` | `BaselineQuiet` * | The baseline after a change of snapshot alerts on every changed candidate (`docs/opportunity-monitors.md:7`). |
| `MonitorAlerts` | `BaselineOfSnapshot` | A run of the old snapshot becomes the baseline of the new one (`docs/opportunity-monitors.md:5`). |
| `MonitorSafety` | `PausedNotScheduled` * | A monitor paused during a tick is scheduled by it (`docs/opportunity-monitor-scheduling.md:7`). |
| `MonitorSafety` | `OneRecoveryAcrossGap` | The missed intervals are counted in UTC and added to a wall clock that has skipped an hour: the next slot is not after now, and the next tick queues a second recovery (`docs/opportunity-monitor-scheduling.md:5`: DST is respected, there is one recovery). |
| `MonitorTwoSchedulers` | `OneRecovery` | Two schedulers queue two recovery runs for the same missed slots (`docs/opportunity-monitor-scheduling.md:5`). |
| `Evaluations` | `ComparesExactly` | A computed ratio is rounded to the scale of its formula before it is compared with the minimum (`docs/financial-formulas.md`). |
| `Evaluations` | `CountsSupported` | The minimum of contracts is compared with all of them, declared ones too (`docs/experience-evaluation.md`). |
| `Evaluations` | `OnlyDecisionsRejected` | A candidate whose text has `GO` inside another word (`PLIEGO`, `RIESGO`) is rejected as a decision. |
| `Evaluations` | `NothingBlocks` | A worker that dies leaves its job `PROCESSING`, which the index on active jobs counts and no worker takes up. |
| `Evaluations` | `VersionsUnique` | Two overrides of a rule at once both become the next version. |
| `Evaluations` | `CompletedStays` * | Of two retries of a failed run the second reopens what the first has completed. |
| `Evaluations` | `SameDigestSameReport` | What a report says is read when it is rendered, its digest when it is requested (ADR-009). |
| `Evaluations` | `RetryCanSucceed` | When the rows are refused, or a worker dies, after the files were saved, they stay, and every retry is refused by the keys that exist. |
| `Services` | `RemovedIsUnlisted` * | A dataset that does not answer, or a list that is cut at its maximum, makes a document removed that the source still lists. |
| `Services` | `DownloadFollowsJob` | A synchronisation that has loaded a document before its download was requested writes its own status over `PENDING`. |
| `Services` | `PotentialFrom55` | The threshold of 55 is in the policy and no outcome asks for it: from 35 on a process is potential (`docs/opportunity-ranking-policy.md`). |
| `Services` with `ChangeBudget` 2 | `PastIsExpired` | The hours that are left are rounded to hundredths first: a time less than 18 seconds past is zero hours, and `CRITICAL`. |
| `Services` | `AnswerMayEnd` | A request without force is answered by a run that has failed. |
| `Services` | `ImportIsKnown` | Only the candidate that was imported is told; one that another run has made of the process before never learns of it. |
| `Services` | `OnePublished` | Two snapshots published at once leave two published (`docs/company-profile-snapshots.md:17`). |
| `Services` | `LinksResolve` | A record added between two queries is missing from a snapshot that has its link. |
| `Services` | `ReadyIsBacked` | A link whose quotation was not found counts for completeness (`docs/company-evidence.md`). |
| `Services` | `ShareFollowsTotal` | An edit of a contract's total leaves the share that was worked out of it. |
| `Services` | `LockEnds` * | A lock whose time is over still refuses the right password (`docs/authentication.md:17`). |
| `Services` | `OneRelease` | A deployment that leaves out the scheduler leaves it on the release it had; a roll-back that fails leaves the API. |
| `Services` | `RowsHaveFiles` | An upload commits its row and reads it back; when the database fails there, its file is removed and the row stays (`docs/ADR-002-manual-import-persistence.md:38` has the file removed because there is no row). |
| `Services` | `SchemaNeverBehind` | A release that was built and whose migration failed can be rolled back to, or started by the tag that it shares, over the older schema (`docs/restricted-rollback.md:5` has the roll-back cancelled). |
| `Services` | `LockIsHeld` | A backup that is killed leaves `.backup.lock`, which stops every later one. |

Further facts of this kind that were met while modelling, and that no property states: the
financial worker reads `outcome.get("calculation", {}).get(...)`, which fails for a metric that is
recorded and not computed (`Breaks`, `worker/financial/runner.py:231`); the digest of a financial
evaluation leaves out the closing date that the worker reads, which is why `SameInputsSameResults`
assumes equal ones; `policy_hash` of discovery leaves out `terms.json`, so that two releases with other terms pass for one
policy (only the components in the digest of an assessment tell them apart, and a request is answered
by a run that was screened with the others); a failed monitor run never
gets its retry, since its own run still counts as active (so `RETRY` runs do not occur); a
verification of a restore that is killed leaves its database (`databases`); retention may delete
the last backup there is; the loop of the restricted worker
(`src/deploy/restricted/runtime.py:19`) takes up the extraction, opportunity, document, monitor
and notification queues and leaves normalization, evaluations, decisions and reports to manual
commands.

These hold too, and can be put among the properties of `Services.cfg`: `KnownClosingStays`,
`ImportedOnce`, `ReviewFirstBacked`. Among the mutants of the modules, those of `AssessmentDigest`
break `AssessmentsFollowDigests` too, `ReviewFirstAnyTime` breaks `ReviewFirstBacked` and
`NotLinkedUnchecked` breaks `ImportedOnce`. `OneCandidatePerProcess` of `OpportunityDiscovery` and
`NewHashIsAVersion` of `ExternalDocuments` are stated for larger bounds than the run has.

## 4. What is proved

For sets of messages, documents, requests and requirements of any size, any finite set of workers
and all limits, under the named assumptions on the constants (`OutboxAssumption` and its like,
which say that limits are naturals, delays positive, and the elements of tables of the right sort):

- **Outbox** (`NotificationOutboxProofs`). `LedgerInv` is one inductive invariant: typing, the
  gapless ledger and `JobOK`. The ledger alone is not inductive, since a worker that read an old
  count may record with it. `JobOK` adds that the count and the maximum a worker read never exceed
  those of the row, and the unique constraint does the rest: a number that is not in a ledger of 1
  to `attempt_count` and is at most `attempt_count + 1` is `attempt_count + 1`. `SpecTypeOK` and
  `SpecLedgerGapless` are its parts, and `SpecSettledStays`, an action property, follows from it
  and from the guard of the claim. `SpecLedgerBacksStatus` needs `BackedInv`, which adds `SeenOK`: a
  worker may write its verdict over a message that another has set to wait for a retry since, but
  if no attempt was recorded in between it has read it waiting, so that an attempt with the
  number of the row's count is there already. `SpecRateLimitOvershoot` rests on `RateInv`: what was
  delivered to a destination in the last hour and the workers that have passed its test and have
  not reported are together fewer than the limit and the workers; the invariant without the second
  term is not inductive, since a worker that reports delivers without testing again.
- **Duplicates** (`NotificationOutboxProofs`). `AuditDeliveriesBounded` and
  `AuditAttemptsBounded`. `AuditInv` adds to `LedgerInv` for each message the three sums of
  `Books`: deliveries taken, plus the workers that may still deliver, plus one if the message is
  open to a claim, are at most one more than overlaps and lost answers; holders plus the open
  claim at most one more than overlaps; and `attempt_count` plus both at most `max_attempts` and
  overlaps. The sums are preserved because every step that adds to one part takes from another or
  adds to the overlaps; the cardinalities are those of `FiniteSetTheorems`, which is why workers
  are finite.
- **Decisions** (`DecisionCasesProofs`). `CaseTyping`, `CaseGoIsEarned`,
  `CaseUncertaintyWithheld`: they rest on lemmas about the operators of the engine, proved for
  every set of requirements and every policy. That a least suggestion exists needs that the ranks
  of a policy are numbers of 1 to 6, one for each outcome.
- **Extraction** (`ExtractionQueueProofs`). `SpecQueueInv` is one inductive invariant: a worker
  that is not idle has a document whose job is `PROCESSING`, no two workers have the same one, the
  number of its attempts is within the maximum, a started child means that there is no extraction,
  and a result as status means that there is one. `OneWorkerPerJob`, `SingleExtraction`,
  `StatusBacked` and `AttemptsWithinMax` are its parts or follow from it.

- **Decision runs** (`DecisionRunsProofs`). `RunsInv` ties what clients and workers hold to the
  rows: what a worker holds is `PROCESSING` and held by nobody else, still has the engine outcome
  the worker loaded, and has findings for what was asked; a retry has seen a failed run.
  `RunsOutcomeExplained` (the outcome of a completed run is what the engine gives for the findings
  stored with it) and `RunsOneActive` are its consequences. The first is the subtle one: a worker
  whose decision equals the outcome it has loaded does not write that column, and that the row
  still holds the same value rests on nobody else writing it meanwhile.
  `RunsTyping` is `TypeOK`, with `ResultsOK` for what the adapters read. `RunsFixNeverHurts` is an
  action property that compares the worst decision over all ways to collect results before and
  after a correction: whatever may be collected after it could have been collected before but for a
  better answer to one requirement (`FixCollectsBetter`), and such an answer is not decided worse
  (`FixDecidedNoWorse`). It supposes `PendingComesLast`: nothing that failures and open questions
  suggest is ranked after `PENDIENTE_INFORMACION`, what a process gets to which nothing is suggested
  and which has not earned `GO`. The policy of the repository satisfies it (TLC evaluates it in both
  runs), and it is needed: with `NO_GO` ranked last, correcting the failure that blocks moves a
  process with another, lesser failure from `NO_GO` to `PENDIENTE_INFORMACION`.
- **Monitors** (`OpportunityMonitorProofs`). `QueueInv`: one active run for a monitor, and a run
  under way is held by at most one worker; hence `MonitorOneActiveRun`. `MonitorChangeNeverSilent`
  is an action property and needs of the invariant only that stored outcomes are outcomes.
  `MonitorOneRecovery` is proved for one scheduler (`OneScheduler`; with two it is false): every
  scheduled run was queued before the next slot of its monitor (`RowsOK`), and before the slot in
  the row that a tick has loaded (`TickOK`), although users may have moved the former since, or the
  zone has skipped an hour between the slot and the next. It rests on what `NextSlot` returns: a
  slot after now, but for the gap, for `WEEKDAYS` because a week has a workday in every three days.
  `MonitorFailuresCounted` counts: with `CountInv` the run that is under way is the last of its
  monitor, so that a failure is one more in a row and a success leaves none, and the count a worker
  has loaded is still the one in the row when it writes the row, because only workers write it.
- **Specialized queue** (`EvaluationsProofs`). `QueueInvariant` says who holds which job
  and that a snapshot and a domain have one active job at most. `ImplementsExclusiveQueue` is the
  refinement: under that invariant every step of a client or a worker is a step of
  `ExclusiveQueue` on one key, or leaves all its phases as they are. TLC checks the same theorem
  with two workers in `Evaluations`.
- **Specialized results** (`EvaluationsProofs`). `SpeInv`: a run names a snapshot, a date and the
  row of each rule, rows are never edited, and the status and source of every result are what
  `Evaluate` returns for them (`SpeMatches`; a review is kept beside them). Requests hold the same of
  the run that they are going to write. `SpecializedDigestDecides` follows, since equal digests name equal
  inputs; it holds across retries and crashes because a retry reads what the run names and not what
  is current. `CompliesOnEvidence` joins it to `EvaluateSupports`, a lemma on the operators: whatever the
  rule and the records, the record that `Evaluate` names with `COMPLIES` is one that `Supports` accepts.
- **Financial results** (`EvaluationsProofs`). `FinInv` is the same for the financial queue
  (`Matches`), and ties runs to jobs: `FinancialRunFollowsJob`. `FinancialDigestDecides` supposes one
  closing date, as the property does. `VerdictOnEvidence` joins it to `VerdictRests`: a verdict takes a
  metric from records that agree (`DirectBacked`) or calculates it from two of them
  (`CalculatedBacked`), and the worst usability of two is good only if both are (`CombinedBacked`).
  The worst, like the first record of a type, is the one with the least place; that a set of
  places has a least one is `LeastPlace`, from `WFMin` and the well-foundedness of the naturals.
- **Reports** (`EvaluationsProofs`). `RepInv`: an active job is the latest of its package and
  there is one at a time (the index), a worker holds a job under way that nobody else holds, and
  what it is about to publish has all its files in the storage. With `RowsHaveFiles` and
  `PackageFollowsJob` themselves as further parts it is inductive: `ReportRowsHaveFiles`,
  `ReportPackageFollowsJob`.
- **Normalization** (`EvaluationsProofs`). `NorInv`: runs, jobs, requests and workers name rows that
  exist, and every run is `NorRunOK`: its counters are the lengths of what they count, and the
  candidates of its batches, whose sum is `candidates`, are as many as it accepted and rejected.
  The step to look at is the transaction of a batch (`BatchCounts`), which folds an answer into the
  run; a second attempt does not count a batch again because a batch has no candidates before it is
  completed (`BatchesOK`), and only batches that are not are taken up. Folds are recursive functions, and
  the installed provers take no induction over them. `TakenInTurn`, `SummedInTurn` and `Flattened`
  go round it: that the function exists is shown by a least counterexample (`CountingUp`, from
  `LeastOfNats`), after which a fold is the last of the values that it passes through, one for each
  element. `NormalizationAccounts`, `NormalizationTyping`.
- **Public documents** (`ServicesProofs`). `ExtInv`: the file of a content is that of a download
  that ended well, a version has the file of its content, and a worker that stores a version
  holds a download that no other one holds and has either saved a file or found the one of that
  content; its failure removes only the file of its own job, which no version names.
  `VersionsKeepTheirFiles`. What a synchronisation has told of the closing date stays known
  through failures and partial answers: `KnownClosingIsKept`.
- **Discovery** (`ServicesProofs`). `OppInv`: what an assessment tells is what `Tell` makes of the
  components, the completeness, the payload, the policy and the date of its digest (`Told`), though
  the release, the clock and the source have moved on. `AssessmentDigestDecides` follows: two
  assessments with one digest tell the same even when they were made of different results, by
  different runs, or under releases with other terms. `RunsAssessAsRequested` is what `SamePolicy` is
  for: the candidates of a run are assessed under the policy that the worker loaded, of which the
  guard says that its hash is the one of the request. `AssessmentsKeepToDigests` is both. The rows that a run adds are those of a finite
  set in some order (`Listed`). `ImportsInv` counts the rows that tell an import of a process, of
  which the unique key of the links lets one in: `ProcessesImportedOnce`. `ScreenInv`: what an
  assessment says of itself is what its digest says, and what is assessed was announced. With it,
  `FirstIsEarned` says that what the policy of the repository (`V1`) puts first is open, shares a
  segment and, by the terms of some release, a word with the company, and leaves 48 hours less at most the 18 seconds of rounding. Under it lie a fact of
  arithmetic, that no other components give 75 points without the codes or without the contracts
  (`PointsNeedFits`), and that the score is the sum of its components. The score is a fold over a
  set; `AddedUp` shows it a sum, in whatever order it is taken, by a least set for which it is not.
- **Company profiles** (`ServicesProofs`). `ComInv`: records are read before the links that support
  them and links are never taken away or weakened, so what a request has read of the records is
  backed by the links that there are now, and after its last query by those that it has read.
  `SupportedHasItsLink`; `PublishedStays` is a part of the invariant.
- **Accounts** (`ServicesProofs`). `AutInv`: the count of a row, and of every copy that a login
  holds, is at most the failures there really were (`NeverAhead`), and a login that overlaps no
  other finds the count that it read, or a reset (`AloneIsAlone`). `LockedOutByFailures`.
- **Together** (`EvaluationsProofs`, `ServicesProofs`). `PartsOfEvaluations` and `PartsOfServices`: a
  step of a composition is a step of one component and leaves the variables of the others, so each
  composition implements the specification of all its components. `EvaluationsKeepPromises` and
  `ServicesKeepPromises` conclude what the runs check, for the specification `AllSpec` of which
  `MCSpec` is a case.
- **Types** (`EvaluationsTyping`, `ServicesTyping`). What the rows hold is inductive only together
  with the invariant of the component: that a worker, a file or a link names a row that is there
  follows from who holds what. So each component has a typing part beside its invariant
  (`FinTyping`, `SpeTyping`, `RepTyping`, `ComTyping`, `SyncTyping` and `DocumentTyping`, `OppTyping`;
  in `RestrictedDeploymentProofs` `StorageTyping`, `DeployTyping` and `CommandTyping`), and the
  theorem about its `TypeOK` follows from both. Two things are less plain than they look. That no
  job is attempted more often than `max_attempts` needs that a job that waits has an attempt left,
  which is why a failure with none left ends the job. And that a rule never has more versions than
  its bound needs what a request has read: it adds to a rule that may have grown since, and the
  commit compares the two.
- **Host** (`RestrictedDeploymentProofs`). `BackupsAreComplete`: an upload writes the file before
  the row, a backup copies rows before files, and a file that is removed behind its row (`Lost`)
  never comes back, since its key is not used again; so what the archive lacks of the dump is lost
  on the host too. `OnlyRollbackGetsAhead`: a deployment that has come to start containers has
  migrated to its own release before (`StagesDone`), and the schema never goes back. Nothing is
  supposed about tags.

The assumptions say what the database and the settings give. `EvaluationsAssumption`: documents,
segments, answers, texts and the contents of a snapshot are lists, the settings of a normalization
are numbers, of which a batch of one segment and one attempt are the least (`config.py`, and the
`CHECK` of each table of jobs that `max_attempts` is positive), dates are numbers of days, there is
always an effective date because `_effective_date` falls back to the publication of the snapshot, and
an experience record has no end (`CompanyExperienceRecord` has no column for one). The bounds of the
model on rows and versions are numbers, and there is room for a first version.
`ServicesAssumption`: what is missing is no number, the settings of accounts are naturals, and a
search asks for finitely many processes. `DeclaredAssumption`: users declare statuses that records
have. `ScreeningAssumption`: there is a first release with a policy, dates are numbers of seconds, a search asks for processes of the source,
and codes are sequences of pairs of digits, of the company not empty ones, because `_codes` leaves out
what has not two digits (of a process it may be empty, and then it matches nothing).
`ReleasesAreNumbered`: releases are numbers from one. TLC evaluates them on the instances of
`Evaluations` and `Services`.

Only model-checked:

- the liveness properties `EventuallySettled`, `AllEventuallySettled`, `JobsEnd`,
  `SmallDocumentsExtracted` and both `RunsEnd` (fairness is out of the prover's reach).

Every other invariant and every action property of the passing runs is stated by a theorem.

No module here declares a recursive operator: sequences are folded.

## 5. Not modelled, and what could come next

Not modelled: the extractors, the clients of the public data, the pilot scripts, the web client and
the schemas, which are parsing and rendering without behaviour over time. Of the components that
are modelled in part, `PROJECT.json` says what is left out.

Next, in this order:

1. `NotificationDigests`: periods, subscriptions, retention, and the order of the drain with a
   message that raises; the daily limits.
2. The reviews of normalized requirements, alert actions and the tasks of a decision: small state
   machines on rows of their own.
3. `ExclusiveQueue` for `DecisionRuns`, `FinancialEvaluation` and `DecisionReports`, whose retries
   give another mapping of keys.
4. Zones that move their clock more than once while runs are queued; imports of ZIP archives;
   two deployments at once.
