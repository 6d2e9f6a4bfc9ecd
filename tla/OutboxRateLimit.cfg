SPECIFICATION Spec
CONSTANTS
    m1 = m1
    m2 = m2
    m3 = m3
    m4 = m4
    w1 = w1
    w2 = w2
    w3 = w3
    d1 = d1
    Messages = {m1, m2, m3, m4}
    NoMessage = NoMessage
    Destinations = {d1}
    DestinationOf <- MCFourMessages
    Unrenderable <- MCPoison4
    Webhooks <- MCNone
    Workers = {w1, w2}
    MaxAttempts = 1
    StaleAfter = 0
    RetryDelays <- MCDelays
    QuietDelays <- MCNone
    Window = 0
    DestinationLimit = 1
    GlobalLimit = 1
    DryRun = FALSE
    ChannelEnabled = TRUE
    OperatorBudget = 0
    CrashBudget = 0
INVARIANT RateLimitOvershoot
SYMMETRY OutboxSymmetry
CHECK_DEADLOCK FALSE
