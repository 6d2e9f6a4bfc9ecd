SPECIFICATION MCSpec
CONSTANTS
    Null = Null
    s1 = s1
    s2 = s2
    d1 = d1
    e1 = e1
    e2 = e2
    g1 = g1
    g2 = g2
    g3 = g3
    k1 = k1
    k2 = k2
    Texts <- SpeTexts
    Snapshots <- SpeSnapshots
    Updates <- SpeUpdates
    Closings = {1, 2}
    FinClosings = {1, 2}
    Clients = {c1, c2}
    Workers = {w1, w2}
    MaxAttempts = 2
    MaxRuns = 2
    MaxRows = 3
    RequestBudget = 4
    FaultBudget = 2
    Documents <- NorDocuments
    Extractions <- NorExtractions
    Answers <- NorAnswers
    SegmentLimit = 2
    BatchLimit = 1
    CallLimit = 1
    NorAttempts = 2
    NorWorkers <- OneWorker
    NorMaxJobs = 3
    NorRequests = 3
    NorFaults = 1
    FinTexts <- MCFinTexts
    FinSnapshots <- MCFinSnapshots
    FinUpdates <- MCFinUpdates
    Scale = 2
    DaysPerYear = 2
    FinWorkers <- OneWorker
    MaxVersions = 2
    CrashBudget = 1
    Outcomes = {"GO", "NO_GO"}
    Files = {"html", "zip"}
    RepAttempts = 1
    RepWorkers <- OneWorker
    MaxPackages = 2
    RepMaxJobs = 4
    RepFaults = 2
INVARIANTS
    EvaluationsTypeOK
    CandidatesAccounted
    RunFollowsFinancialJob
    SameInputsSameResults
    VerdictBacked
    SameDigestSameResults
    ComplianceBacked
    RowsHaveFiles
    PackageFollowsJob
PROPERTY
    QueueIsExclusive
CHECK_DEADLOCK FALSE
