---------------------------- MODULE DecisionCases ----------------------------
(***************************************************************************)
(* One pass of the engine: the adapters put the findings of a process      *)
(* together one by one, requirements without a result get NOT_EVALUATED,   *)
(* and the engine decides. The findings come from a set of samples and the *)
(* policy from a set of valid policies, both chosen by the model.          *)
(***************************************************************************)
EXTENDS DecisionEngine

CONSTANTS
    Requirements,
    Samples,        \* findings an adapter or a caller of the engine may give
    Policies,
    Undecided       \* engine_outcome is NULL

ASSUME CasesAssumption ==
    /\ Samples \subseteq Finding
    /\ Policies \subseteq DecisionPolicy
    /\ Undecided \notin DecisionOutcome

VARIABLES policy, findings, outcome
caseVars == <<policy, findings, outcome>>

CaseInit ==
    /\ policy \in Policies
    /\ findings = [r \in {} |-> Undecided]
    /\ outcome = Undecided

\* One finding of collect_all_findings.
Collect(r, finding) ==
    /\ r \notin DOMAIN findings
    /\ findings' = [q \in DOMAIN findings \cup {r} |->
                      IF q = r THEN finding ELSE findings[q]]
    /\ UNCHANGED <<policy, outcome>>

\* decide, once every requirement has its finding.
Conclude ==
    /\ outcome = Undecided
    /\ DOMAIN findings = Requirements
    /\ outcome' = Decide(policy, findings)
    /\ UNCHANGED <<policy, findings>>

CaseNext ==
    \/ \E r \in Requirements, finding \in Samples : Collect(r, finding)
    \/ Conclude

CaseSpec == CaseInit /\ [][CaseNext]_caseVars

-----------------------------------------------------------------------------
CaseTypeOK ==
    /\ policy \in DecisionPolicy
    /\ DOMAIN findings \subseteq Requirements
    /\ findings \in [DOMAIN findings -> Finding]
    /\ outcome \in DecisionOutcome \cup {Undecided}

\* GO is given only to findings that earn it, under every valid policy: no rule
\* suggests GO, and the way to it needs compliance and coverage.
GoIsEarned == outcome = "GO" => Earned(findings)

\* Under a precedence that puts every other outcome before the positive ones,
\* a mandatory requirement that is unknown, unevaluated or in conflict, or one
\* whose review is pending when the policy holds on it, keeps the outcome from
\* being positive, whatever partner or remediation the other gaps have.
Uncertain ==
    \/ Open(findings) # {}
    \/ policy.blockOnReview /\ Flagged(findings, "requires_human_review") # {}
UncertaintyWithheld ==
    (outcome # Undecided /\ Cautious(policy) /\ Uncertain) => outcome \notin Positive

\* The outcome is the first row of this ladder that applies: what the table of
\* docs/decision-outcomes.md and the precedence of policy.json amount to when
\* the behaviours are the ones of the active policy.
Ladder(f) ==
    IF SubmissionBlockers(f) # {} THEN "NO_CARGAR"
    ELSE IF \E r \in Having(f, {"DOES_NOT_COMPLY"}) :
               /\ "partner_solvable" \notin f[r].flags
               /\ \/ f[r].subsanability = "NON_SUBSANABLE"
                  \/ "is_blocking" \in f[r].flags /\ "is_remediable" \notin f[r].flags
                  \/ /\ f[r].criticality \in policy.criticalities
                     /\ "is_remediable" \notin f[r].flags
      THEN "NO_GO"
    ELSE IF \/ Open(f) # {}
            \/ \E r \in Having(f, {"PARTIAL"}) :
                  {"is_remediable", "partner_solvable"} \cap f[r].flags = {}
            \/ Flagged(f, "requires_human_review") # {}
            \/ \E r \in Having(f, {"DOES_NOT_COMPLY", "PARTIAL"}) :
                  /\ f[r].flags \cap {"is_remediable", "partner_solvable"} = {"is_remediable"}
                  /\ "condition_codes" \notin f[r].flags
      THEN "PENDIENTE_INFORMACION"
    ELSE IF \E r \in Having(f, {"DOES_NOT_COMPLY", "PARTIAL"}) : "partner_solvable" \in f[r].flags
      THEN "BUSCAR_ALIADO"
    ELSE IF \E r \in Having(f, {"DOES_NOT_COMPLY", "PARTIAL"}) : "is_remediable" \in f[r].flags
      THEN "GO_CONDICIONADO"
    ELSE IF Earned(f) THEN "GO"
    ELSE "PENDIENTE_INFORMACION"

ActiveKind ==
    /\ Cautious(policy) /\ policy.rank["NO_CARGAR"] = 1 /\ policy.rank["NO_GO"] = 2
    /\ policy.rank["BUSCAR_ALIADO"] < policy.rank["GO_CONDICIONADO"]
    /\ {policy.unknown, policy.conflict, policy.partial} = {"PENDIENTE_INFORMACION"}
    /\ policy.blockOnReview
FollowsLadder == (outcome # Undecided /\ ActiveKind) => outcome = Ladder(findings)

\* docs/decision-outcomes.md: PENDIENTE_INFORMACION means that information, an
\* evaluation, coverage or a human review is missing, or that evidence conflicts.
PendingHasCause ==
    (outcome = "PENDIENTE_INFORMACION" /\ ActiveKind) =>
        \/ Mandatory(findings) = {}
        \/ Open(findings) # {} \/ Having(findings, {"PARTIAL"}) # {}
        \/ Flagged(findings, "requires_human_review") # {}
        \/ Unconditioned(findings) # {}
        \/ ~FullRequiredCoverage(findings)
=============================================================================
