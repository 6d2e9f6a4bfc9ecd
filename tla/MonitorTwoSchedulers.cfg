SPECIFICATION Spec
CONSTANTS
    m1 = m1
    m2 = m2
    k1 = k1
    k2 = k2
    d1 = d1
    d2 = d2
    w1 = w1
    w2 = w2
    Monitors = {m1, m2}
    Snapshots = {k1}
    Outcomes = {"OPORTUNIDAD_POTENCIAL", "DESCARTAR"}
    Relevant = {"OPORTUNIDAD_POTENCIAL"}
    Absent = "not seen"
    Schedulers = {d1, d2}
    Workers = {w1}
    Interval = 1
    Weekdays = FALSE
    FirstWeekday = 0
    ShiftAt = 0
    Shift = 0
    Threshold = 2
    MaxActiveRuns = 2
    AlertOnInitial = FALSE
    MaxClock = 3
    MaxRuns = 5
    UserBudget = 0
    CrashBudget = 0
INVARIANT
    OneRecovery
CHECK_DEADLOCK FALSE
