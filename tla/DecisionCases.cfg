SPECIFICATION CaseSpec
CONSTANTS
    r1 = r1
    r2 = r2
    Requirements = {r1, r2}
    Categories = {"FINANCIAL", "LEGAL"}
    Criticalities = {"HIGH", "LOW"}
    Samples <- MCSamples
    Policies <- MCPolicies
    Undecided = Undecided
INVARIANTS
    GoIsEarned
    UncertaintyWithheld
SYMMETRY CaseSymmetry
CHECK_DEADLOCK FALSE
