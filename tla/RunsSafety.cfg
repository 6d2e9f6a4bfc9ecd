SPECIFICATION Spec
CONSTANTS
    f1 = f1
    t1 = t1
    t2 = t2
    x1 = x1
    x2 = x2
    w1 = w1
    w2 = w2
    c1 = c1
    c2 = c2
    NoRun = NoRun
    Undecided = Undecided
    Categories = {"FINANCIAL", "TECHNICAL"}
    Criticalities = {"HIGH", "LOW"}
    Runs = {x1, x2}
    Requirements = {f1, t1}
    Traits <- MCTraits2
    Verdicts <- MCVerdicts2
    OverrideStatuses <- MCToComply
    OverrideOutcomes <- MCNoGo
    Policy <- MCPolicy
    Workers = {w1, w2}
    Clients = {c1, c2}
    MaxAttempts = 2
    EvaluationBudget = 1
    ReviewBudget = 1
    RequestBudget = 5
    CrashBudget = 1
INVARIANTS
    OutcomeExplained
SYMMETRY RunSymmetry
CHECK_DEADLOCK FALSE
