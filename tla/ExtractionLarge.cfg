SPECIFICATION FairSpec
CONSTANTS
    d1 = d1
    d2 = d2
    d3 = d3
    w1 = w1
    w2 = w2
    q1 = q1
    q2 = q2
    NoDocument = NoDocument
    Documents = {d2}
    Workers = {w1}
    Requests = {q1}
    MaxAttempts = 2
    OutcomeOf <- MCOutcomeL
    Heavy <- MCNone
    Large <- MCOnly2
    RequestBudget = 1
    CrashBudget = 0
    DiskBudget = 0
PROPERTIES
    DocumentsExtracted
CHECK_DEADLOCK FALSE
