-------------------------- MODULE OpportunityMonitor --------------------------
(***************************************************************************)
(* Periodic monitors: the scheduler that queues a run for every due        *)
(* monitor, the workers that process the runs and raise alerts, and the    *)
(* users who pause, resume, edit and run monitors by hand.                 *)
(*                                                                         *)
(* A monitor watches one candidate, of which one compared field (outcome)  *)
(* is kept. Time is a clock of a few instants, and the zone of the monitors *)
(* moves its wall clock once at most. Sessions keep the rows they          *)
(* loaded across their commits (expire_on_commit=False) and a query does   *)
(* not see their unflushed changes (autoflush=False).                      *)
(***************************************************************************)
EXTENDS Integers, Sequences, FiniteSets

CONSTANTS
    Monitors,
    Snapshots,      \* company snapshots a monitor may be bound to
    Outcomes,       \* outcomes an assessment may give the candidate
    Relevant,       \* outcomes that raise an alert when the candidate is new
    Absent,         \* the candidate has not been seen, or was not found
    Schedulers,
    Workers,
    Interval,       \* the time between two slots, the day for WEEKDAYS
    Weekdays,       \* whether the frequency is WEEKDAYS
    FirstWeekday,   \* the weekday of the first day, Monday is 0
    ShiftAt,        \* the instant at which the zone of the monitors moves its clock
    Shift,          \* by how much: forward when positive
    Threshold,      \* monitor_failure_alert_threshold
    MaxActiveRuns,  \* monitor_max_active_runs
    AlertOnInitial, \* alert_rules.alert_on_initial_results
    MaxClock,       \* bound on time
    MaxRuns,        \* bound on the runs of all monitors
    UserBudget,     \* bound on user requests
    CrashBudget     \* bound on crashes of schedulers and workers

ASSUME MonitorAssumption ==
    /\ Relevant \subseteq Outcomes
    /\ Absent \notin Outcomes
    /\ {Interval, Threshold, MaxActiveRuns} \subseteq Nat \ {0}
    /\ Weekdays \in BOOLEAN /\ FirstWeekday \in 0 .. 6
    /\ ShiftAt \in Nat /\ Shift \in Int
    /\ AlertOnInitial \in BOOLEAN
    /\ {MaxClock, MaxRuns, UserBudget, CrashBudget} \subseteq Nat
    /\ IsFiniteSet(Monitors)

VARIABLES
    clock,
    monitor,    \* [Monitors -> MonitorRow]
    runs,       \* opportunity_monitor_runs in the order of creation
    state,      \* [Monitors -> outcome in the candidate state, or Absent]
    alerts,     \* fingerprints of opportunity_alerts
    scheduler,  \* [Schedulers -> what its tick has loaded and not done yet]
    worker,     \* [Workers -> the run it processes and the monitor it loaded]
    spent       \* user requests and crashes so far

vars == <<clock, monitor, runs, state, alerts, scheduler, worker, spent>>

\* baseline is a position in runs, or 0 for NULL. Of a run, snapshot is the one in
\* its digest, used the one of its discovery run and queued the instant of its INSERT.
MonitorRow == [status : {"ACTIVE", "PAUSED", "ERROR"}, next : Nat, failures : Nat,
               baseline : Nat, snapshot : Snapshots]
Run == [monitor : Monitors, trigger : {"SCHEDULED", "MANUAL", "RETRY", "BASELINE"},
        status : {"PENDING", "PROCESSING", "COMPLETED", "FAILED"}, slot : Nat,
        snapshot : Snapshots, used : Snapshots, queued : Nat, byScheduler : BOOLEAN]
Alert == [monitor : Monitors, snapshot : Snapshots,
          type : {"NEW", "OUTCOME_CHANGED", "MONITOR_FAILURE", "MONITOR_RECOVERED"},
          old : Outcomes \cup {Absent}, new : Outcomes \cup {Absent}, number : Nat]

IdleScheduler == [todo |-> {}, locked |-> FALSE, expired |-> FALSE, now |-> 0,
                  rows |-> <<>>, found |-> "nothing looked up"]
IdleWorker == [run |-> 0]

Init ==
    /\ clock = 0
    /\ \E s \in Snapshots : monitor = [m \in Monitors |->
          [status |-> "ACTIVE", next |-> 0, failures |-> 0, baseline |-> 0, snapshot |-> s]]
    /\ runs = <<>>
    /\ state = [m \in Monitors |-> Absent]
    /\ alerts = {}
    /\ scheduler = [s \in Schedulers |-> IdleScheduler]
    /\ worker = [w \in Workers |-> IdleWorker]
    /\ spent = [requests |-> 0, crashes |-> 0]

-----------------------------------------------------------------------------
Active(m) == \E x \in DOMAIN runs :
                runs[x].monitor = m /\ runs[x].status \in {"PENDING", "PROCESSING"}

\* FOR UPDATE locks of a tick, held until its first commit or rollback. Writers
\* of the monitor, and the foreign key of a new run, wait for them.
Locked(m) == \E s \in Schedulers : scheduler[s].locked /\ m \in scheduler[s].todo
LockedByOther(s, m) ==
    \E t \in Schedulers \ {s} : scheduler[t].locked /\ m \in scheduler[t].todo

\* Runs that the bound still leaves, after those that begun ticks may queue.
Room == MaxRuns - Len(runs) - Cardinality({p \in Schedulers \X Monitors : p[2] \in scheduler[p[1]].todo})

\* Mutant of NextSlot: missed slots are caught up one by one.
NextSlotCatchUp(slot, now) == slot + Interval

\* astimezone(zone): the wall clock at an instant of UTC
Local(u) == IF u < ShiftAt THEN u ELSE u + Shift

\* astimezone(UTC) of a wall clock that was reckoned: its fold is 0, so that what
\* the zone skips, or shows twice, has the offset from before the change.
Instant(l) == IF l < ShiftAt + (IF Shift > 0 THEN Shift ELSE 0) THEN l ELSE l - Shift

\* The wall clock of the slot, k intervals later.
Later(slot, k) == Instant(Local(slot) + Interval * k)

\* candidate.weekday() < 5
Workday(slot, k) == (FirstWeekday + ((Local(slot) + Interval * k) \div Interval)) % 7 < 5

\* The loop for WEEKDAYS ends after so many days.
Days(now) == 1 .. (now + (IF Shift > 0 THEN Shift ELSE -Shift) + 3)

\* next_run_at. The intervals that were missed are counted in UTC and added to
\* the wall clock.
NextSlot(slot, now) ==
    LET future == {k \in Days(now) : Workday(slot, k) /\ Later(slot, k) > now} IN
    IF Weekdays THEN Later(slot, CHOOSE k \in future : \A j \in future : k <= j)
    ELSE IF Later(slot, 1) > now THEN Later(slot, 1)
    ELSE Later(slot, (now - Later(slot, 1)) \div Interval + 2)

NewRun(m, row, trigger, slot, now, byScheduler) ==
    [monitor |-> m, status |-> "PENDING", slot |-> slot, snapshot |-> row.snapshot,
     used |-> row.snapshot, trigger |-> IF row.baseline = 0 /\ trigger # "RETRY" THEN "BASELINE" ELSE trigger,
     queued |-> now, byScheduler |-> byScheduler]

\* Mutant of Requested: no look for an active run, and no index behind it.
RequestedAlways(m, trigger, slot) ==
    Append(runs, NewRun(m, monitor[m], trigger, slot, clock, FALSE))

\* The runs after request_run of a user or a worker. Its query reads what is
\* committed, not what the session has assigned and not yet flushed.
Requested(m, trigger, slot) ==
    IF Active(m) THEN runs
    ELSE Append(runs, NewRun(m, monitor[m], trigger, slot, clock, FALSE))

Advance ==
    /\ clock < MaxClock
    /\ clock' = clock + 1
    /\ UNCHANGED <<monitor, runs, state, alerts, scheduler, worker, spent>>

-----------------------------------------------------------------------------
\* scheduler_tick: the earliest due active monitors nobody has locked.
BeginTick(s) ==
    LET due == {m \in Monitors : /\ monitor[m].status = "ACTIVE" /\ monitor[m].next <= clock
                                 /\ ~Locked(m)} IN
    /\ scheduler[s].todo = {}
    /\ due # {}
    /\ \E picked \in SUBSET due :
          /\ \/ picked = due /\ Cardinality(due) <= MaxActiveRuns
             \/ Cardinality(picked) = MaxActiveRuns
          /\ Cardinality(picked) <= Room
          /\ \A m \in picked, n \in due \ picked : monitor[m].next <= monitor[n].next
          /\ scheduler' = [scheduler EXCEPT ![s] =
                [IdleScheduler EXCEPT !.todo = picked, !.locked = TRUE, !.now = clock,
                                      !.rows = [m \in picked |-> monitor[m]]]]
    /\ UNCHANGED <<clock, monitor, runs, state, alerts, worker, spent>>

\* The monitor whose turn it is, in the order of the query.
Turn(s, m) ==
    /\ m \in scheduler[s].todo
    /\ \A n \in scheduler[s].todo : scheduler[s].rows[m].next <= scheduler[s].rows[n].next

\* request_run of the tick, its query. A rollback before has expired the rows.
LookUp(s, m) ==
    /\ Turn(s, m)
    /\ scheduler[s].found = "nothing looked up"
    /\ scheduler' = [scheduler EXCEPT
          ![s].found = IF Active(m) THEN "active run" ELSE "no active run",
          ![s].rows[m] = IF scheduler[s].expired THEN monitor[m] ELSE @]
    /\ UNCHANGED <<clock, monitor, runs, state, alerts, worker, spent>>

Done(s, m, rolledBack) ==
    IF scheduler[s].todo = {m} THEN IdleScheduler
    ELSE [scheduler[s] EXCEPT !.todo = @ \ {m}, !.locked = FALSE,
                              !.rows = [n \in scheduler[s].todo \ {m} |-> @[n]],
                              !.expired = @ \/ rolledBack, !.found = "nothing looked up"]

\* uq_opportunity_monitor_active_run and uq_opportunity_monitor_run_digest. Runs
\* that users ask for are at instants of their own.
Refused(m, run) ==
    \/ Active(m)
    \/ \E x \in DOMAIN runs :
          /\ runs[x].byScheduler
          /\ \A c \in {"monitor", "slot", "trigger", "snapshot"} : runs[x][c] = run[c]

\* The rest of the loop body, up to its commit or rollback.
Schedule(s, m) ==
    LET row == scheduler[s].rows[m]
        now == scheduler[s].now
        run == NewRun(m, row, "SCHEDULED", row.next, now, TRUE)
        advanced == [monitor EXCEPT ![m].next = NextSlot(row.next, now)] IN
    /\ Turn(s, m)
    /\ ~LockedByOther(s, m)
    /\ \/ /\ scheduler[s].found = "active run"
          /\ monitor' = advanced
          /\ scheduler' = [scheduler EXCEPT ![s] = Done(s, m, FALSE)]
          /\ UNCHANGED runs
       \/ /\ scheduler[s].found = "no active run"
          /\ ~Refused(m, run)
          /\ runs' = Append(runs, run)
          /\ monitor' = advanced
          /\ scheduler' = [scheduler EXCEPT ![s] = Done(s, m, FALSE)]
       \/ /\ scheduler[s].found = "no active run"
          /\ Refused(m, run)
          /\ scheduler' = [scheduler EXCEPT ![s] = Done(s, m, TRUE)]
          /\ UNCHANGED <<runs, monitor>>
    /\ UNCHANGED <<clock, state, alerts, worker, spent>>

-----------------------------------------------------------------------------
\* process_next_monitor_run up to its first commit, and the load of the monitor.
Claim(w) ==
    LET waiting == {x \in DOMAIN runs : runs[x].status = "PENDING" /\ runs[x].slot <= clock} IN
    /\ worker[w].run = 0
    /\ \E x \in waiting :
          /\ \A y \in waiting : x <= y
          /\ runs' = [runs EXCEPT ![x].status = "PROCESSING",
                                  ![x].used = monitor[runs[x].monitor].snapshot]
          /\ worker' = [worker EXCEPT ![w] = [run |-> x, row |-> monitor[runs[x].monitor]]]
    /\ UNCHANGED <<clock, monitor, state, alerts, scheduler, spent>>

AlertOf(m, snapshot, type, old, new, number) ==
    [monitor |-> m, snapshot |-> snapshot, type |-> type, old |-> old, new |-> new,
     number |-> number]

\* initial_alerts and changed_alerts, for the outcome seen by a worker that
\* loaded the row.
Decided(m, row, seen) ==
    IF seen \in {Absent, state[m]} THEN {}
    ELSE IF state[m] # Absent
      THEN {AlertOf(m, row.snapshot, "OUTCOME_CHANGED", state[m], seen, 0)}
    ELSE IF seen \in Relevant /\ (row.baseline # 0 \/ AlertOnInitial)
      THEN {AlertOf(m, row.snapshot, "NEW", Absent, seen, 0)}
    ELSE {}

\* Mutant of CompletedMonitor: failures are not consecutive any more.
CompletedMonitorStillFailing(current, loaded, x) ==
    [current EXCEPT !.status = IF loaded.status = "ERROR" THEN "ACTIVE" ELSE @,
                    !.baseline = IF loaded.baseline = 0 THEN x ELSE @]

\* What the end of _process makes of the monitor: the columns that differ from
\* the row the worker loaded are written.
CompletedMonitor(current, loaded, x) ==
    [current EXCEPT !.failures = IF loaded.failures = 0 THEN @ ELSE 0,
                    !.status = IF loaded.status = "ERROR" THEN "ACTIVE" ELSE @,
                    !.baseline = IF loaded.baseline = 0 THEN x ELSE @]

\* _process: states, alerts, the run and the monitor in one transaction.
Complete(w, seen) ==
    LET x == worker[w].run
        row == worker[w].row
        m == runs[x].monitor IN
    /\ x # 0
    /\ ~Locked(m)
    /\ state' = [state EXCEPT ![m] = IF seen = Absent THEN @ ELSE seen]
    /\ alerts' = alerts \cup Decided(m, row, seen) \cup
          (IF row.failures = 0 THEN {}
           ELSE {AlertOf(m, row.snapshot, "MONITOR_RECOVERED", Absent, Absent, x)})
    /\ runs' = [runs EXCEPT ![x].status = "COMPLETED"]
    /\ monitor' = [monitor EXCEPT ![m] = CompletedMonitor(@, row, x)]
    /\ worker' = [worker EXCEPT ![w] = IdleWorker]
    /\ UNCHANGED <<clock, scheduler, spent>>

\* Mutant of FailedMonitor: the status of the run is given to the monitor.
FailedMonitorLikeRun(current) ==
    [current EXCEPT !.failures = @ + 1,
                    !.status = IF current.failures + 1 >= Threshold THEN "FAILED" ELSE @]

FailedMonitor(current) ==
    [current EXCEPT !.failures = @ + 1,
                    !.status = IF current.failures + 1 >= Threshold THEN "ERROR" ELSE @]

\* Mutant of Fail: the rollback spares the candidate states.
FailKeepingStates(w) ==
    LET x == worker[w].run
        m == runs[x].monitor IN
    /\ x # 0
    /\ ~Locked(m)
    /\ monitor' = [monitor EXCEPT ![m] = FailedMonitor(@)]
    /\ \E seen \in Outcomes : state' = [state EXCEPT ![m] = seen]
    /\ runs' = [runs EXCEPT ![x].status = "FAILED"]
    /\ worker' = [worker EXCEPT ![w] = IdleWorker]
    /\ UNCHANGED <<clock, alerts, scheduler, spent>>

\* Mutant of Fail: the run goes back to the queue.
FailRequeued(w) ==
    /\ worker[w].run # 0
    /\ runs' = [runs EXCEPT ![worker[w].run].status = "PENDING"]
    /\ worker' = [worker EXCEPT ![w] = IdleWorker]
    /\ UNCHANGED <<clock, monitor, state, alerts, scheduler, spent>>

\* An exception in _process: everything is rolled back, then the run has failed
\* and a retry is asked for, while the run is still PROCESSING for the query.
Fail(w) ==
    LET x == worker[w].run
        m == runs[x].monitor
        failures == monitor[m].failures + 1 IN
    /\ x # 0
    /\ ~Locked(m)
    /\ monitor' = [monitor EXCEPT ![m] = FailedMonitor(@)]
    /\ \/ /\ failures >= Threshold
          /\ alerts' = alerts \cup {AlertOf(m, monitor[m].snapshot, "MONITOR_FAILURE",
                                            Absent, Absent, failures \div Threshold)}
          /\ runs' = [runs EXCEPT ![x].status = "FAILED"]
       \/ /\ failures < Threshold
          /\ runs' = [Requested(m, "RETRY", clock + 1) EXCEPT ![x].status = "FAILED"]
          /\ UNCHANGED alerts
    /\ worker' = [worker EXCEPT ![w] = IdleWorker]
    /\ UNCHANGED <<clock, state, scheduler, spent>>

\* A process dies. Its session is rolled back, what it claimed stays PROCESSING.
CrashWorker(w) ==
    /\ worker[w].run # 0
    /\ spent.crashes < CrashBudget
    /\ worker' = [worker EXCEPT ![w] = IdleWorker]
    /\ spent' = [spent EXCEPT !.crashes = @ + 1]
    /\ UNCHANGED <<clock, monitor, runs, state, alerts, scheduler>>

CrashScheduler(s) ==
    /\ scheduler[s].todo # {}
    /\ spent.crashes < CrashBudget
    /\ scheduler' = [scheduler EXCEPT ![s] = IdleScheduler]
    /\ spent' = [spent EXCEPT !.crashes = @ + 1]
    /\ UNCHANGED <<clock, monitor, runs, state, alerts, worker>>

-----------------------------------------------------------------------------
Request ==
    /\ spent.requests < UserBudget
    /\ spent' = [spent EXCEPT !.requests = @ + 1]
    /\ UNCHANGED <<state, alerts, scheduler, worker>>

\* set_monitor_status
Pause(m) ==
    /\ ~Locked(m)
    /\ monitor' = [monitor EXCEPT ![m].status = "PAUSED"]
    /\ Request
    /\ UNCHANGED <<clock, runs>>

\* The instant of a resumption is after everything that happened before.
Resume(m) ==
    /\ ~Locked(m)
    /\ clock < MaxClock
    /\ clock' = clock + 1
    /\ monitor' = [monitor EXCEPT ![m].status = "ACTIVE", ![m].next = clock + 1]
    /\ Request
    /\ UNCHANGED runs

\* update_monitor with another company snapshot
Rebind(m, s) ==
    /\ ~Locked(m)
    /\ s # monitor[m].snapshot
    /\ monitor' = [monitor EXCEPT ![m].snapshot = s, ![m].baseline = 0]
    /\ Request
    /\ UNCHANGED <<clock, runs>>

\* request_run of the manual_run endpoint. A request that loses the race for the
\* index fails and changes nothing.
Manual(m) ==
    /\ ~Locked(m)
    /\ Room > 0
    /\ runs' = Requested(m, "MANUAL", clock)
    /\ Request
    /\ UNCHANGED <<clock, monitor>>

SchedulerStep(s) == BeginTick(s) \/ \E m \in Monitors : LookUp(s, m) \/ Schedule(s, m)
WorkerStep(w) == Claim(w) \/ (\E seen \in Outcomes \cup {Absent} : Complete(w, seen)) \/ Fail(w)
UserStep == \E m \in Monitors : \/ Pause(m) \/ Resume(m) \/ Manual(m)
                                \/ \E s \in Snapshots : Rebind(m, s)

Next ==
    \/ Advance
    \/ \E s \in Schedulers : SchedulerStep(s) \/ CrashScheduler(s)
    \/ \E w \in Workers : WorkerStep(w) \/ CrashWorker(w)
    \/ UserStep

Spec == Init /\ [][Next]_vars

\* The two commands run again and again. Nothing is assumed of users and clocks.
FairSpec ==
    /\ Spec
    /\ \A s \in Schedulers : WF_vars(SchedulerStep(s))
    /\ \A w \in Workers : WF_vars(WorkerStep(w))

-----------------------------------------------------------------------------
TypeOK ==
    /\ clock \in 0 .. MaxClock
    /\ monitor \in [Monitors -> MonitorRow]
    /\ \A m \in Monitors : monitor[m].baseline \in 0 .. Len(runs)
    /\ runs \in Seq(Run) /\ Len(runs) <= MaxRuns
    /\ state \in [Monitors -> Outcomes \cup {Absent}]
    /\ alerts \subseteq Alert
    /\ \A s \in Schedulers :
          /\ scheduler[s].todo \subseteq Monitors
          /\ \A m \in scheduler[s].todo : scheduler[s].rows[m] \in MonitorRow
    /\ \A w \in Workers :
          /\ worker[w].run \in 0 .. Len(runs)
          /\ worker[w].run # 0 => worker[w].row \in MonitorRow

\* The scheduler, users and retries never put two runs of a monitor under way.
OneActiveRun ==
    \A x, y \in DOMAIN runs :
        (/\ runs[x].monitor = runs[y].monitor
         /\ {runs[x].status, runs[y].status} \subseteq {"PENDING", "PROCESSING"}) => x = y

\* consecutive_failures is the number of runs that failed since the last one
\* that completed, whoever pauses, resumes or edits the monitor in between.
FailuresCounted ==
    \A m \in Monitors :
        LET finished(status) == {x \in DOMAIN runs : runs[x].monitor = m /\ runs[x].status = status}
        IN monitor[m].failures =
             Cardinality({x \in finished("FAILED") : \A y \in finished("COMPLETED") : y < x})

\* A change of the candidate is never swallowed by a failure or a crash: the
\* stored state moves only together with an alert about exactly that move.
ChangeNeverSilent ==
    [][\A m \in Monitors : (state[m] # Absent /\ state'[m] # state[m]) =>
          \E a \in alerts' : /\ a.monitor = m /\ a.type = "OUTCOME_CHANGED"
                             /\ a.old = state[m] /\ a.new = state'[m]]_vars

\* Two slots with the hour between them that the zone skips.
AcrossGap(early, late) == Shift > 0 /\ ~Weekdays /\ early < ShiftAt /\ ShiftAt <= late

\* Neither of two scheduled runs of one monitor was for a slot still to come when
\* the other was queued: both recover missed slots.
BothRecover(x, y) ==
    /\ x # y /\ runs[x].monitor = runs[y].monitor /\ runs[x].byScheduler /\ runs[y].byScheduler
    /\ runs[x].slot <= runs[y].queued /\ runs[y].slot <= runs[x].queued

\* docs/opportunity-monitor-scheduling.md: late intervals collapse, so there is at
\* most one immediate recovery, and one more when the clock was moved forward
\* between the slots, since next_run_at reckons the missed ones without it.
OneRecovery ==
    \A x, y \in DOMAIN runs : BothRecover(x, y) =>
        AcrossGap(runs[x].slot, runs[y].slot) \/ AcrossGap(runs[y].slot, runs[x].slot)

\* The same sentence as it stands: DST is respected, there is one recovery.
OneRecoveryAcrossGap == \A x, y \in DOMAIN runs : ~BothRecover(x, y)

\* A queued run is processed to an end, unless its worker crashed.
Ended(x) ==
    \/ runs[x].status \in {"COMPLETED", "FAILED"}
    \/ runs[x].status = "PROCESSING" /\ \A w \in Workers : worker[w].run # x
RunsEnd ==
    \A x \in 1 .. MaxRuns :
        (x \in DOMAIN runs /\ runs[x].slot <= clock) ~> (x \in DOMAIN runs /\ Ended(x))

\* docs/opportunity-alerts.md: failed runs schedule retries below the threshold.
FailedRunRetried ==
    [][\A m \in Monitors :
          (monitor'[m].failures > monitor[m].failures /\ monitor'[m].failures < Threshold)
              => Active(m)']_vars

\* docs/opportunity-alerts.md: at the threshold the monitor goes to ERROR and a
\* critical internal alert is raised.
ErrorAlerted ==
    [][\A m \in Monitors :
          (monitor[m].status # "ERROR" /\ monitor'[m].status = "ERROR") => alerts' # alerts]_vars

\* docs/opportunity-alert-deduplication.md: a new transition has an identity of its
\* own, so it raises an alert of its own.
TransitionAlerted ==
    [][\A m \in Monitors :
          (state[m] # Absent /\ state'[m] # state[m]) => alerts' # alerts]_vars

\* docs/opportunity-monitors.md: a baseline stores what there is without alerts.
BaselineQuiet ==
    [][\A x \in DOMAIN runs :
          (/\ runs[x].trigger = "BASELINE" /\ ~AlertOnInitial
           /\ runs[x].status = "PROCESSING" /\ runs'[x].status = "COMPLETED")
              => \A a \in alerts' \ alerts : a.type = "MONITOR_RECOVERED"]_vars

\* docs/opportunity-monitors.md: a new snapshot makes a new baseline. The baseline
\* of a monitor is a run with the snapshot the monitor is bound to.
BaselineOfSnapshot ==
    \A m \in Monitors : monitor[m].baseline # 0 =>
        runs[monitor[m].baseline].used = monitor[m].snapshot

\* docs/opportunity-monitor-scheduling.md: paused monitors are not claimed.
PausedNotScheduled ==
    [][\A x \in DOMAIN runs' \ DOMAIN runs :
          runs'[x].byScheduler => monitor[runs'[x].monitor].status = "ACTIVE"]_vars
=============================================================================
