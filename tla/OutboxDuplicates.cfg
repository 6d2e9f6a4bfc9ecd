SPECIFICATION AuditSpec
CONSTANTS
    m1 = m1
    m2 = m2
    m3 = m3
    m4 = m4
    w1 = w1
    w2 = w2
    w3 = w3
    d1 = d1
    Messages = {m1}
    NoMessage = NoMessage
    Destinations = {d1}
    DestinationOf <- MCOneMessage
    Unrenderable <- MCNone
    Webhooks <- MCWebhooks
    Workers = {w1, w2}
    MaxAttempts = 2
    StaleAfter = 0
    RetryDelays <- MCDelays
    QuietDelays <- MCNone
    Window = 0
    DestinationLimit = 2
    GlobalLimit = 2
    DryRun = FALSE
    ChannelEnabled = TRUE
    OperatorBudget = 1
    CrashBudget = 1
    RaiseBudget = 2
INVARIANTS
    DeliveriesBounded
    AttemptsBounded
SYMMETRY WorkerSymmetry
CHECK_DEADLOCK FALSE
