------------------------------- MODULE Evaluations -------------------------------
(***************************************************************************)
(* The queues that turn an extracted process into a decision, together:    *)
(* normalization, financial and specialized evaluation, reports. The       *)
(* tables of one are no variables of another (what one takes from the      *)
(* other is an input of its own model), so that a behaviour exercises the  *)
(* one that stage picks and leaves the others at rest: the states are the  *)
(* sum of theirs and not the product.                                      *)
(***************************************************************************)
EXTENDS SpecializedEvaluation

\* The constants of each component, where it does not share them with the others.
CONSTANTS
    Documents, Extractions, Answers, SegmentLimit, BatchLimit, CallLimit, NorAttempts, NorWorkers,
    NorMaxJobs, NorRequests, NorFaults,
    FinTexts, FinSnapshots, FinUpdates, FinClosings, Scale, DaysPerYear, FinWorkers, MaxVersions, CrashBudget,
    Outcomes, Files, RepAttempts, RepWorkers, MaxPackages, RepMaxJobs, RepFaults

\* Documents and segments have an order, and the settings of a normalization are numbers,
\* of which one segment in a batch and one attempt are the least (config.py: ge=1; the CHECKs
\* of the job tables: max_attempts > 0). Requirements are numbered as they were created,
\* packages from 1 to their bound, and what a snapshot holds has an order; there is room for
\* one version of a rule. The effective date falls back to the publication of the snapshot,
\* so that it is always a date. No experience record has an end.
ASSUME EvaluationsAssumption ==
    /\ Documents \in Seq(Range(Documents))
    /\ \A e \in DOMAIN Extractions : Extractions[e] \in Seq(Range(Extractions[e]))
    /\ \A answer \in Answers : answer \in Seq(Range(answer))
    /\ SegmentLimit \in Nat /\ BatchLimit \in Nat \ {0} /\ NorAttempts \in Nat \ {0}
    /\ FinTexts \in Seq(Range(FinTexts))
    /\ MaxPackages \in Nat /\ RepAttempts \in Nat \ {0}
    /\ MaxAttempts \in Nat \ {0} /\ MaxRows \in Nat /\ MaxVersions \in Nat \ {0}
    /\ Closings \subseteq Nat
    /\ \A s \in DOMAIN Snapshots :
          /\ Snapshots[s] \in Seq(Range(Snapshots[s]))
          /\ \A r \in Range(Snapshots[s]) :
                /\ r.expires \in Nat \cup {Null}
                /\ r.kind = "EXPERIENCE" => r.expires = Null
    /\ \A s \in DOMAIN FinSnapshots :
          /\ FinSnapshots[s] \in Seq(Range(FinSnapshots[s]))
          /\ \A n \in DOMAIN FinSnapshots[s] :
                FinSnapshots[s][n].metrics \in Seq(Range(FinSnapshots[s][n].metrics))

VARIABLES
    stage,
    norExtracted, norRuns, norJobs, norRequest, norWorker, norSpent,
    finRules, finRuns, finJobs, finRequest, finWorker, finClosing, finSpent,
    repDecision, repPackages, repJobs, repStorage, repRequest, repWorker, repSpent

norVars == <<norExtracted, norRuns, norJobs, norRequest, norWorker, norSpent>>
finVars == <<finRules, finRuns, finJobs, finRequest, finWorker, finClosing, finSpent>>
repVars == <<repDecision, repPackages, repJobs, repStorage, repRequest, repWorker, repSpent>>
allVars == <<stage, norVars, finVars, vars, repVars>>

-----------------------------------------------------------------------------
Nor == INSTANCE RequirementNormalization WITH
    Workers <- NorWorkers, MaxAttempts <- NorAttempts, MaxJobs <- NorMaxJobs,
    RequestBudget <- NorRequests, FaultBudget <- NorFaults,
    extracted <- norExtracted, runs <- norRuns, jobs <- norJobs, request <- norRequest,
    worker <- norWorker, spent <- norSpent

Fin == INSTANCE FinancialEvaluation WITH
    Workers <- FinWorkers, Texts <- FinTexts, Snapshots <- FinSnapshots, Updates <- FinUpdates,
    Closings <- FinClosings,
    rules <- finRules, runs <- finRuns, jobs <- finJobs, request <- finRequest,
    worker <- finWorker, closing <- finClosing, spent <- finSpent

Rep == INSTANCE DecisionReports WITH
    Workers <- RepWorkers, MaxAttempts <- RepAttempts, MaxJobs <- RepMaxJobs,
    FaultBudget <- RepFaults,
    decision <- repDecision, packages <- repPackages, jobs <- repJobs, storage <- repStorage,
    request <- repRequest, worker <- repWorker, spent <- repSpent

-----------------------------------------------------------------------------
AllInit ==
    /\ Nor!Init /\ Fin!Init /\ Init /\ Rep!Init
    /\ stage \in {"normalization", "financial", "specialized", "report"}

NormalizationStep ==
    /\ stage = "normalization" /\ Nor!Next
    /\ UNCHANGED <<stage, finVars, vars, repVars>>
FinancialStep ==
    /\ stage = "financial" /\ Fin!Next
    /\ UNCHANGED <<stage, norVars, vars, repVars>>
SpecializedStep ==
    /\ stage = "specialized" /\ Next
    /\ UNCHANGED <<stage, norVars, finVars, repVars>>
ReportStep ==
    /\ stage = "report" /\ Rep!Next
    /\ UNCHANGED <<stage, norVars, finVars, vars>>

AllNext == NormalizationStep \/ FinancialStep \/ SpecializedStep \/ ReportStep

AllSpec == AllInit /\ [][AllNext]_allVars

-----------------------------------------------------------------------------
\* The rows of the four queues stay well formed.
EvaluationsTypeOK == Nor!TypeOK /\ Fin!TypeOK /\ TypeOK /\ Rep!TypeOK

\* Each candidate of the model that a batch has taken up is a requirement or a rejection,
\* once, through retries and workers that die between two batches.
CandidatesAccounted == Nor!CandidatesAccounted

\* An evaluation that waits or is under way has one active job, in the same state, after
\* any retries, crashes and commits that an index refused.
RunFollowsFinancialJob == Fin!RunFollowsJob

\* Financial evaluations of one digest and one closing date agree on every requirement.
SameInputsSameResults == Fin!SameInputsSameResults

\* A financial verdict rests on undisputed records, that agree, of a period that was not
\* rejected.
VerdictBacked == Fin!VerdictBacked

\* Every artifact row has its file, also when a retry fails over files of another attempt.
RowsHaveFiles == Rep!RowsHaveFiles

\* A package waits or is under way exactly while it has an active job.
PackageFollowsJob == Rep!PackageFollowsJob

-----------------------------------------------------------------------------
\* What documents say and these checks refute (README, "Disagreements"): put one in the
\* place of the properties of Evaluations.cfg.

\* docs/financial-formulas.md: formulas are compared without rounding.
ComparesExactly == Fin!ComparesExactly

\* The words of a decision are refused, and nothing else is.
OnlyDecisionsRejected == Nor!OnlyDecisionsRejected

\* A normalization that is not under way can be asked for again.
NothingBlocks == Nor!NothingBlocks

\* ADR-009: one input digest gives one report.
SameDigestSameReport == Rep!SameDigestSameReport

\* A package that failed can be retried with success.
RetryCanSucceed == Rep!RetryCanSucceed

=============================================================================
