--------------------------- MODULE MCDecisionCases ---------------------------
EXTENDS DecisionCases, TLC

CONSTANTS r1, r2

\* policy.json, and one whose behaviours and order are as loose as the
\* validators allow.
ActivePolicy ==
    [rank |-> [o \in DecisionOutcome |->
                 CASE o = "NO_CARGAR" -> 1 [] o = "NO_GO" -> 2
                   [] o = "PENDIENTE_INFORMACION" -> 3 [] o = "BUSCAR_ALIADO" -> 4
                   [] o = "GO_CONDICIONADO" -> 5 [] o = "GO" -> 6],
     criticalities |-> {"HIGH"}, unknown |-> "PENDIENTE_INFORMACION",
     conflict |-> "PENDIENTE_INFORMACION", partial |-> "PENDIENTE_INFORMACION",
     blockOnReview |-> TRUE]
LoosePolicy ==
    [rank |-> [o \in DecisionOutcome |->
                 CASE o = "NO_CARGAR" -> 6 [] o = "NO_GO" -> 5
                   [] o = "PENDIENTE_INFORMACION" -> 4 [] o = "BUSCAR_ALIADO" -> 3
                   [] o = "GO_CONDICIONADO" -> 2 [] o = "GO" -> 1],
     criticalities |-> {"LOW"}, unknown |-> "NO_GO", conflict |-> "NO_CARGAR",
     partial |-> "NO_GO", blockOnReview |-> FALSE]
MCPolicies == {ActivePolicy, LoosePolicy}

MCFlags == {{}, {"is_blocking"}, {"is_remediable"}, {"is_remediable", "condition_codes"},
            {"partner_solvable"}, {"submission_blocker"}, {"requires_human_review"}}
MCSamples ==
    {x \in [category : Categories, applicability : {"MANDATORY", "OPTIONAL"},
            outcome : DecisionFindingOutcome \ {"NOT_APPLICABLE"}, criticality : Criticalities,
            subsanability : {"SUBSANABLE", "NON_SUBSANABLE"}, flags : MCFlags] :
        x.applicability = "OPTIONAL" => x.flags = {} /\ x.criticality = "LOW"}

CaseSymmetry == Permutations({r1, r2})
=============================================================================
