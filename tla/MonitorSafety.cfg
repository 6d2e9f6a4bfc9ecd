SPECIFICATION FairSpec
CONSTANTS
    m1 = m1
    m2 = m2
    k1 = k1
    k2 = k2
    d1 = d1
    d2 = d2
    w1 = w1
    w2 = w2
    Monitors = {m1, m2}
    Snapshots = {k1}
    Outcomes = {"OPORTUNIDAD_POTENCIAL"}
    Relevant = {"OPORTUNIDAD_POTENCIAL"}
    Absent = "not seen"
    Schedulers = {d1}
    Workers = {w1}
    Interval = 1
    Weekdays = FALSE
    FirstWeekday = 0
    ShiftAt = 2
    Shift = 1
    Threshold = 2
    MaxActiveRuns = 2
    AlertOnInitial = FALSE
    MaxClock = 3
    MaxRuns = 3
    UserBudget = 1
    CrashBudget = 1
INVARIANTS
    OneRecovery
CHECK_DEADLOCK FALSE
PROPERTY
    RunsEnd
