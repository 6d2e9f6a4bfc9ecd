--------------------------- MODULE DecisionEngine ---------------------------
(***************************************************************************)
(* The deterministic decision engine as pure operators: the twelve rules   *)
(* of decision/rules.py over the findings of a process, the coverage of    *)
(* its categories, and DeterministicDecisionEngine.decide, which takes the *)
(* suggestion that comes first in the precedence of the policy.            *)
(*                                                                         *)
(* `f` is a function from requirement to finding: the adapter registry     *)
(* gives every requirement exactly one.                                    *)
(***************************************************************************)
EXTENDS Naturals, FiniteSets

CONSTANTS
    Categories,     \* requirement categories
    Criticalities   \* requirement criticalities

DecisionOutcome == {"GO", "GO_CONDICIONADO", "BUSCAR_ALIADO", "NO_GO",
                    "NO_CARGAR", "PENDIENTE_INFORMACION"}
Positive == {"GO", "GO_CONDICIONADO", "BUSCAR_ALIADO"}

DecisionFindingOutcome == {"COMPLIES", "DOES_NOT_COMPLY", "PARTIAL", "UNKNOWN",
                           "NOT_APPLICABLE", "CONFLICTING_EVIDENCE", "NOT_EVALUATED"}
Applicability == {"MANDATORY", "OPTIONAL", "INFORMATIONAL", "NOT_APPLICABLE"}
Subsanability == {"SUBSANABLE", "NON_SUBSANABLE", "CONDITIONAL", "UNKNOWN"}
Flags == {"is_blocking", "is_remediable", "partner_solvable", "submission_blocker",
          "condition_codes", "requires_human_review"}

Finding == [category : Categories, applicability : Applicability,
            outcome : DecisionFindingOutcome, criticality : Criticalities,
            subsanability : Subsanability, flags : SUBSET Flags]

\* What the validators of DecisionPolicy let through. rank is outcome_rank: the
\* place of an outcome in the precedence, which names each of the six once.
DecisionPolicy ==
    {p \in [rank : [DecisionOutcome -> 1 .. 6], criticalities : SUBSET Criticalities,
            unknown : DecisionOutcome \ Positive, conflict : DecisionOutcome \ Positive,
            partial : DecisionOutcome \ Positive, blockOnReview : BOOLEAN] :
        \A a, b \in DecisionOutcome : p.rank[a] = p.rank[b] => a = b}

\* As in the precedence of policy.json, every outcome that is not positive comes
\* before the positive ones.
Cautious(p) ==
    \A good \in Positive, bad \in DecisionOutcome \ Positive : p.rank[bad] < p.rank[good]

-----------------------------------------------------------------------------
Mandatory(f) == {r \in DOMAIN f : f[r].applicability = "MANDATORY"}
Having(f, outcomes) == {r \in Mandatory(f) : f[r].outcome \in outcomes}
Flagged(f, flag) == {r \in Mandatory(f) : flag \in f[r].flags}

SubmissionBlockers(f) == Flagged(f, "submission_blocker")

NonSubsanableFailures(f) ==
    {r \in Having(f, {"DOES_NOT_COMPLY"}) :
        f[r].subsanability = "NON_SUBSANABLE" /\ "partner_solvable" \notin f[r].flags}

\* Mutant of BlockingFailures: is_blocking is not looked at.
BlockingFailuresByCriticality(p, f) ==
    {r \in Having(f, {"DOES_NOT_COMPLY"}) :
        /\ f[r].criticality \in p.criticalities
        /\ {"partner_solvable", "is_remediable"} \cap f[r].flags = {}}

BlockingFailures(p, f) ==
    {r \in Having(f, {"DOES_NOT_COMPLY"}) :
        /\ f[r].criticality \in p.criticalities \/ "is_blocking" \in f[r].flags
        /\ {"partner_solvable", "is_remediable"} \cap f[r].flags = {}}

PartialGaps(f) ==
    {r \in Having(f, {"PARTIAL"}) :
        /\ ~({"is_remediable", "condition_codes"} \subseteq f[r].flags)
        /\ "partner_solvable" \notin f[r].flags}

PartnerGaps(f) == Having(f, {"DOES_NOT_COMPLY", "PARTIAL"}) \cap Flagged(f, "partner_solvable")

RemediableGaps(f) ==
    (Having(f, {"DOES_NOT_COMPLY", "PARTIAL"}) \cap Flagged(f, "is_remediable"))
        \ Flagged(f, "partner_solvable")

Unconditioned(f) == RemediableGaps(f) \ Flagged(f, "condition_codes")

\* What each triggered rule matched and suggests, the two rules that only
\* open the way to GO left out. REMEDIABLE_CONDITION_EXISTS is INDETERMINATE
\* when a gap has no condition, and the engine counts that as triggered.
RuleResults(p, f) ==
    {[matched |-> SubmissionBlockers(f), suggests |-> {"NO_CARGAR"}],
     [matched |-> NonSubsanableFailures(f), suggests |-> {"NO_GO"}],
     [matched |-> BlockingFailures(p, f), suggests |-> {"NO_GO"}],
     [matched |-> Having(f, {"CONFLICTING_EVIDENCE"}), suggests |-> {p.conflict}],
     [matched |-> Having(f, {"NOT_EVALUATED"}), suggests |-> {"PENDIENTE_INFORMACION"}],
     [matched |-> Having(f, {"UNKNOWN"}), suggests |-> {p.unknown}],
     [matched |-> PartialGaps(f), suggests |-> {p.partial}],
     [matched |-> Flagged(f, "requires_human_review"),
      suggests |-> IF p.blockOnReview THEN {"PENDIENTE_INFORMACION"} ELSE {}],
     [matched |-> PartnerGaps(f), suggests |-> {"BUSCAR_ALIADO"}],
     [matched |-> Unconditioned(f), suggests |-> {"PENDIENTE_INFORMACION"}],
     [matched |-> IF Unconditioned(f) = {} THEN RemediableGaps(f) ELSE {},
      suggests |-> {"GO_CONDICIONADO"}]}

Suggestions(p, f) ==
    UNION {rule.suggests : rule \in {result \in RuleResults(p, f) : result.matched # {}}}

AllMandatoryComply(f) ==
    Mandatory(f) # {} /\ Having(f, {"COMPLIES"}) = Mandatory(f)

\* DecisionCoverageAnalyzer._status of a category of f.
InCategory(f, c) == {r \in DOMAIN f : f[r].category = c}
CoverageStatus(f, c) ==
    LET evaluated == {r \in InCategory(f, c) : f[r].outcome # "NOT_EVALUATED"} IN
    IF Mandatory(f) \cap InCategory(f, c) = {} THEN "NOT_REQUIRED"
    ELSE IF evaluated = {} THEN "MISSING"
    ELSE IF evaluated # InCategory(f, c) THEN "PARTIAL"
    ELSE "COMPLETE"

FullRequiredCoverage(f) ==
    /\ Having(f, {"NOT_EVALUATED"}) = {}
    /\ \A c \in Categories : CoverageStatus(f, c) \in {"NOT_REQUIRED", "COMPLETE"}

\* Mutant of First: max in place of min.
FirstReversed(p, outcomes) ==
    CHOOSE o \in outcomes : \A other \in outcomes : p.rank[other] <= p.rank[o]

\* DeterministicDecisionEngine.decide
First(p, outcomes) ==
    CHOOSE o \in outcomes : \A other \in outcomes : p.rank[o] <= p.rank[other]

\* Mutant of Decide: coverage is not asked for.
DecideWithoutCoverage(p, f) ==
    IF Suggestions(p, f) # {} THEN First(p, Suggestions(p, f))
    ELSE IF AllMandatoryComply(f) THEN "GO"
    ELSE "PENDIENTE_INFORMACION"

\* Mutant of Decide: the fallback gives the reason code for the outcome.
DecideUnresolved(p, f) ==
    IF Suggestions(p, f) # {} THEN First(p, Suggestions(p, f))
    ELSE IF AllMandatoryComply(f) /\ FullRequiredCoverage(f) THEN "GO"
    ELSE "MANDATORY_REQUIREMENT_UNRESOLVED"

Decide(p, f) ==
    IF Suggestions(p, f) # {} THEN First(p, Suggestions(p, f))
    ELSE IF AllMandatoryComply(f) /\ FullRequiredCoverage(f) THEN "GO"
    ELSE "PENDIENTE_INFORMACION"

\* requires_human_review of the output.
RequiresHumanReview(f) ==
    \/ \E r \in DOMAIN f : "requires_human_review" \in f[r].flags
    \/ Having(f, {"CONFLICTING_EVIDENCE"}) # {}

-----------------------------------------------------------------------------
\* Findings that leave a mandatory requirement open.
Open(f) == Having(f, {"UNKNOWN", "NOT_EVALUATED", "CONFLICTING_EVIDENCE"})

\* Findings that justify GO: everything mandatory is met and nothing in its
\* categories was left out of the evaluation.
Earned(f) ==
    /\ Mandatory(f) # {}
    /\ \A r \in Mandatory(f) : f[r].outcome = "COMPLIES" /\ "submission_blocker" \notin f[r].flags
    /\ \A r \in DOMAIN f : f[r].outcome = "NOT_EVALUATED" =>
          \A m \in Mandatory(f) : f[m].category # f[r].category
=============================================================================
