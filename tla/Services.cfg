SPECIFICATION MCSpec
CONSTANTS
    Null = Null
    f1 = f1
    f2 = f2
    p1 = p1
    s1 = s1
    Clients = {c1, c2}
    Workers = {w1}
    Documents = {d1, d2}
    Uploaders = {u1}
    Releases = {1, 2}
    TagOf <- DefaultTag
    RetentionDays = 0
    MaxBackups = 1
    MaxDays = 1
    MaxDeploys = 2
    FaultBudget = 1
    Listing <- MCListing
    DatasetOf <- MCDatasetOf
    Held = {"a", "b"}
    Dates = {1}
    MaxDocuments = 2
    MaxSyncs = 2
    MaxDownloads = 2
    SourceBudget = 1
    Company <- MCCompany
    Announced <- MCAnnounced
    Queries <- MCQueries
    Policies <- MCPolicies
    Times = {0, 36}
    Actions = {"DISMISS"}
    MaxRuns = 2
    MaxResults = 2
    MaxAssessments = 3
    MaxImports = 2
    MaxReviews = 1
    ChangeBudget = 1
    Kinds = {"LEGAL_REGISTRATION", "PERSON_CREDENTIAL", "EXPERIENCE_RECORD"}
    Present = {"RUP_SNAPSHOT", "FINANCIAL_PERIOD", "FINANCIAL_METRIC", "EXPERIENCE_RECORD", "PERSON", "COMPANY_CERTIFICATION"}
    Declared = {"DECLARED"}
    Values = {1, 2}
    Contents = {"a"}
    Citations <- MCCitations
    MaxRecords = 1
    MaxLinks = 1
    MaxSnapshots = 2
    MaxEdits = 1
    MaxReaders = 1
    Users = {"ana"}
    MaxFailed = 2
    Lockout = 1
    Ttl = 2
    MaxSessions = 2
    MaxAttempts = 4
    MaxTime = 4
    AdminBudget = 2
INVARIANTS
    ServicesTypeOK
    VersionsHaveFiles
    AssessmentsFollowDigests
    SupportedHasLink
    StaysPublished
    LockedByFailures
    BackupComplete
PROPERTIES
    AheadByRollback
CHECK_DEADLOCK FALSE
