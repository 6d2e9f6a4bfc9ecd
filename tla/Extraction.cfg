SPECIFICATION FairSpec
CONSTANTS
    d1 = d1
    d2 = d2
    d3 = d3
    w1 = w1
    w2 = w2
    q1 = q1
    q2 = q2
    NoDocument = NoDocument
    Documents = {d1, d2}
    Workers = {w1, w2}
    Requests = {q1, q2}
    MaxAttempts = 2
    OutcomeOf <- MCOutcome2
    Heavy <- MCOnly2
    Large <- MCOnly2
    RequestBudget = 2
    CrashBudget = 1
    DiskBudget = 1
INVARIANTS
    OneWorkerPerJob
    SingleExtraction
    StatusBacked
CHECK_DEADLOCK FALSE
PROPERTY
    JobsEnd
    SmallDocumentsExtracted
