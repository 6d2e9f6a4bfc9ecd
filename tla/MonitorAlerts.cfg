SPECIFICATION Spec
CONSTANTS
    m1 = m1
    m2 = m2
    k1 = k1
    k2 = k2
    d1 = d1
    d2 = d2
    w1 = w1
    w2 = w2
    Monitors = {m1}
    Snapshots = {k1, k2}
    Outcomes = {"OPORTUNIDAD_POTENCIAL", "DESCARTAR"}
    Relevant = {"OPORTUNIDAD_POTENCIAL"}
    Absent = "not seen"
    Schedulers = {d1}
    Workers = {w1, w2}
    Interval = 1
    Weekdays = TRUE
    FirstWeekday = 3
    ShiftAt = 0
    Shift = 0
    Threshold = 2
    MaxActiveRuns = 2
    AlertOnInitial = FALSE
    MaxClock = 2
    MaxRuns = 4
    UserBudget = 2
    CrashBudget = 1
INVARIANT
    FailuresCounted
PROPERTY
    ChangeNeverSilent
CHECK_DEADLOCK FALSE
