SPECIFICATION FairSpec
CONSTANTS
    f1 = f1
    t1 = t1
    t2 = t2
    x1 = x1
    x2 = x2
    w1 = w1
    w2 = w2
    c1 = c1
    c2 = c2
    NoRun = NoRun
    Undecided = Undecided
    Categories = {"FINANCIAL", "TECHNICAL"}
    Criticalities = {"HIGH", "LOW"}
    Runs = {x1}
    Requirements = {f1, t1}
    Traits <- MCTraits2
    Verdicts <- MCVerdicts4
    OverrideStatuses <- MCToComply
    OverrideOutcomes <- MCNoGo
    Policy <- MCPolicy
    Workers = {w1}
    Clients = {c1}
    MaxAttempts = 2
    EvaluationBudget = 1
    ReviewBudget = 2
    RequestBudget = 2
    CrashBudget = 1
PROPERTY
    RunsEnd
    FixNeverHurts
CHECK_DEADLOCK FALSE
