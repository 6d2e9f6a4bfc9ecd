----------------------- MODULE OpportunityMonitorProofs -----------------------
(***************************************************************************)
(* The monitors, for every number of monitors, workers, users, runs and    *)
(* instants: one run of a monitor is under way, no change of the candidate *)
(* is stored without its alert, and, where there is one scheduler, missed  *)
(* slots collapse into one recovery, and into two at most when the zone    *)
(* moved its clock forward. With two schedulers the last one is false:     *)
(* MonitorTwoSchedulers.cfg shows how.                                     *)
(*                                                                         *)
(* A tick gives up its locks at its first commit and goes on with rows it  *)
(* loaded before, so next_run_at may have moved. What saves the recovery   *)
(* is that whoever moves it, moves it past the present or over the hour    *)
(* the zone skips, and that nobody else queues scheduled runs: a row that  *)
(* is loaded stays later than every scheduled run of its monitor was       *)
(* queued, but for the ones on the other side of that hour.                *)
(***************************************************************************)
EXTENDS OpportunityMonitor, SequenceTheorems, FiniteSetTheorems, TLAPS

UnderWay == {"PENDING", "PROCESSING"}
RunFields == {"monitor", "trigger", "status", "slot", "snapshot", "used", "queued", "byScheduler"}
IsSequence(s) == \E S : s \in Seq(S)

RunsOK ==
    /\ IsSequence(runs)
    /\ \A x \in DOMAIN runs : DOMAIN runs[x] = RunFields

\* What a worker holds is under way, and nobody else holds it.
HeldOK ==
    /\ DOMAIN worker = Workers
    /\ \A w \in Workers : worker[w].run # 0 =>
          worker[w].run \in DOMAIN runs /\ runs[worker[w].run].status = "PROCESSING"
    /\ \A v, w \in Workers : (worker[v].run # 0 /\ worker[v].run = worker[w].run) => v = w

QueueInv == RunsOK /\ HeldOK /\ OneActiveRun

-----------------------------------------------------------------------------
LEMMA Appended ==
    ASSUME NEW s, IsSequence(s), NEW e
    PROVE  LET t == Append(s, e) IN
           /\ IsSequence(t)
           /\ Len(s) \in Nat
           /\ DOMAIN s = 1 .. Len(s)
           /\ DOMAIN t = 1 .. (Len(s) + 1)
           /\ t[Len(s) + 1] = e
           /\ \A n \in 1 .. Len(s) : t[n] = s[n]
  <1>1. PICK S : s \in Seq(S)
    BY DEF IsSequence
  <1>2. s \in Seq(S \cup {e}) /\ e \in S \cup {e}
    BY <1>1
  <1>3. Append(s, e) \in Seq(S \cup {e})
    BY <1>2
  <1>4. QED
    BY <1>2, <1>3 DEF IsSequence

LEMMA Replaced ==
    ASSUME NEW s, IsSequence(s), NEW n \in DOMAIN s, NEW e
    PROVE  LET t == [s EXCEPT ![n] = e] IN
           /\ IsSequence(t)
           /\ DOMAIN t = DOMAIN s
           /\ t[n] = e
           /\ \A m \in DOMAIN s \ {n} : t[m] = s[m]
  <1>1. PICK S : s \in Seq(S)
    BY DEF IsSequence
  <1>2. s \in Seq(S \cup {e}) /\ e \in S \cup {e} /\ n \in 1 .. Len(s)
    BY <1>1
  <1>3. [s EXCEPT ![n] = e] \in Seq(S \cup {e})
    BY <1>2, ExceptSeq
  <1>4. QED
    BY <1>3 DEF IsSequence

-----------------------------------------------------------------------------
\* What a step does to the runs: nothing, a new run of a monitor that has none under
\* way, or a new status of one that does not put it under way.
Queued(rs, run) ==
    /\ rs = Append(runs, run) /\ ~Active(run.monitor)
    /\ DOMAIN run = RunFields /\ run.status = "PENDING"
Moved(rs, x) ==
    /\ x \in DOMAIN runs /\ IsSequence(rs) /\ DOMAIN rs = DOMAIN runs
    /\ \A y \in DOMAIN runs \ {x} : rs[y] = runs[y]
    /\ DOMAIN rs[x] = RunFields
    /\ \A c \in {"monitor", "trigger", "slot", "snapshot", "queued", "byScheduler"} :
          rs[x][c] = runs[x][c]
    /\ rs[x].status \in UnderWay => runs[x].status \in UnderWay

LEMMA StatusMoves ==
    ASSUME RunsOK, NEW x \in DOMAIN runs, NEW status, NEW used,
           status \in UnderWay => runs[x].status \in UnderWay
    PROVE  Moved([runs EXCEPT ![x].status = status, ![x].used = used], x)
  <1> DEFINE e == [runs[x] EXCEPT !.status = status, !.used = used]
  <1>1. /\ DOMAIN e = RunFields /\ e.status = status
        /\ \A c \in {"monitor", "trigger", "slot", "snapshot", "queued", "byScheduler"} :
              e[c] = runs[x][c]
    BY DEF RunsOK, RunFields
  <1>2. [runs EXCEPT ![x].status = status, ![x].used = used] = [runs EXCEPT ![x] = e]
    OBVIOUS
  <1> HIDE DEF e
  <1>3. QED
    BY <1>1, <1>2, Replaced DEF RunsOK, Moved

\* The steps that move a run, with what they write.
LEMMA WorkersMove ==
    ASSUME QueueInv, NEW w \in Workers, WorkerStep(w)
    PROVE  \E x \in DOMAIN runs :
              /\ Moved(runs', x)
              /\ \/ /\ runs[x].status = "PENDING" /\ runs'[x].status = "PROCESSING"
                    /\ worker[w].run = 0
                    /\ \E row : worker' = [worker EXCEPT ![w] = [run |-> x, row |-> row]]
                 \/ x = worker[w].run /\ x # 0 /\ worker' = [worker EXCEPT ![w] = IdleWorker]
  <1> DEFINE held == worker[w].run
  <1>1. RunsOK /\ (held # 0 => held \in DOMAIN runs /\ runs[held].status = "PROCESSING")
    BY DEF QueueInv, HeldOK
  <1>2. ASSUME NEW x \in DOMAIN runs, NEW status \in {"COMPLETED", "FAILED"},
               runs' = [runs EXCEPT ![x].status = status]
        PROVE  Moved(runs', x)
    <2>1. runs' = [runs EXCEPT ![x].status = status, ![x].used = runs[x].used]
      BY <1>1, <1>2 DEF RunsOK, RunFields
    <2>2. QED
      BY <1>1, <2>1, StatusMoves DEF UnderWay
  <1>3. CASE Claim(w)
    <2>1. PICK x \in DOMAIN runs :
             /\ runs[x].status = "PENDING"
             /\ runs' = [runs EXCEPT ![x].status = "PROCESSING",
                                     ![x].used = monitor[runs[x].monitor].snapshot]
             /\ worker' = [worker EXCEPT ![w] = [run |-> x, row |-> monitor[runs[x].monitor]]]
      BY <1>3 DEF Claim
    <2>2. Moved(runs', x)
      BY <1>1, <2>1, StatusMoves DEF UnderWay
    <2>3. runs'[x].status = "PROCESSING"
      BY <1>1, <2>1 DEF RunsOK, RunFields
    <2>4. QED
      BY <1>3, <2>1, <2>2, <2>3 DEF Claim
  <1>4. ASSUME NEW seen \in Outcomes \cup {Absent}, Complete(w, seen)
        PROVE  /\ held # 0 /\ Moved(runs', held)
               /\ worker' = [worker EXCEPT ![w] = IdleWorker]
    BY <1>1, <1>2, <1>4 DEF Complete
  <1>5. CASE Fail(w)
    <2>1. held # 0 /\ worker' = [worker EXCEPT ![w] = IdleWorker]
      BY <1>5 DEF Fail
    <2>2. Active(runs[held].monitor)
      BY <1>1, <2>1 DEF Active
    <2>3. runs' = [runs EXCEPT ![held].status = "FAILED"]
      BY <1>5, <2>2 DEF Fail, Requested
    <2>4. QED
      BY <1>1, <1>2, <2>1, <2>3
  <1>6. QED
    BY <1>1, <1>3, <1>4, <1>5 DEF WorkerStep

LEMMA OthersQueue ==
    ASSUME NEW m \in Monitors,
           Manual(m) \/ \E s \in Schedulers : Schedule(s, m)
    PROVE  /\ UNCHANGED worker
           /\ \/ UNCHANGED runs
              \/ \E run : Queued(runs', run)
  <1>1. CASE Manual(m)
    <2> DEFINE run == NewRun(m, monitor[m], "MANUAL", clock, clock, FALSE)
    <2>1. UNCHANGED worker /\ runs' = IF Active(m) THEN runs ELSE Append(runs, run)
      BY <1>1 DEF Manual, Request, Requested
    <2>2. DOMAIN run = RunFields /\ run.monitor = m /\ run.status = "PENDING"
      BY DEF NewRun, RunFields
    <2> HIDE DEF run
    <2>3. QED
      BY <2>1, <2>2 DEF Queued
  <1>2. ASSUME NEW s \in Schedulers, Schedule(s, m)
        PROVE  UNCHANGED worker /\ (UNCHANGED runs \/ \E run : Queued(runs', run))
    <2> DEFINE row == scheduler[s].rows[m]
               run == NewRun(m, row, "SCHEDULED", row.next, scheduler[s].now, TRUE)
    <2>1. DOMAIN run = RunFields /\ run.monitor = m /\ run.status = "PENDING"
      BY DEF NewRun, RunFields
    <2>2. UNCHANGED worker /\ (UNCHANGED runs \/ (~Refused(m, run) /\ runs' = Append(runs, run)))
      BY <1>2 DEF Schedule
    <2> HIDE DEF run
    <2>3. QED
      BY <2>1, <2>2 DEF Queued, Refused
  <1>3. QED
    BY <1>1, <1>2

\* Everything else.
LEMMA RestKeepsRuns ==
    ASSUME [Next]_vars
    PROVE  \/ \E w \in Workers : WorkerStep(w)
           \/ \E m \in Monitors : Manual(m) \/ \E s \in Schedulers : Schedule(s, m)
           \/ UNCHANGED runs /\ (UNCHANGED worker \/ \E w \in Workers : CrashWorker(w))
  <1>1. CASE Advance
    BY <1>1 DEF Advance
  <1>2. ASSUME NEW s \in Schedulers, SchedulerStep(s) \/ CrashScheduler(s)
        PROVE  \/ \E m \in Monitors : Schedule(s, m)
               \/ UNCHANGED <<runs, worker>>
    BY <1>2 DEF SchedulerStep, BeginTick, LookUp, CrashScheduler
  <1>3. ASSUME NEW w \in Workers, WorkerStep(w) \/ CrashWorker(w)
        PROVE  WorkerStep(w) \/ (UNCHANGED runs /\ CrashWorker(w))
    BY <1>3 DEF CrashWorker
  <1>4. CASE UserStep
    <2>1. ASSUME NEW m \in Monitors, Pause(m) \/ Resume(m) \/ \E s \in Snapshots : Rebind(m, s)
          PROVE  UNCHANGED <<runs, worker>>
      BY <2>1 DEF Pause, Resume, Rebind, Request
    <2>2. QED
      BY <1>4, <2>1 DEF UserStep
  <1>5. CASE UNCHANGED vars
    BY <1>5 DEF vars
  <1>6. QED
    BY <1>1, <1>2, <1>3, <1>4, <1>5 DEF Next

-----------------------------------------------------------------------------
LEMMA InitQueueInv == Init => QueueInv
  BY DEF Init, QueueInv, RunsOK, HeldOK, OneActiveRun, IsSequence, IdleWorker

LEMMA NextQueueInv == QueueInv /\ [Next]_vars => QueueInv'
  <1> SUFFICES ASSUME QueueInv, [Next]_vars PROVE QueueInv'
    OBVIOUS
  <1>1. ASSUME NEW w \in Workers, WorkerStep(w) PROVE QueueInv'
    <2>1. PICK x \in DOMAIN runs :
             /\ Moved(runs', x)
             /\ \/ /\ runs[x].status = "PENDING" /\ runs'[x].status = "PROCESSING"
                   /\ worker[w].run = 0
                   /\ \E row : worker' = [worker EXCEPT ![w] = [run |-> x, row |-> row]]
                \/ x = worker[w].run /\ x # 0 /\ worker' = [worker EXCEPT ![w] = IdleWorker]
      BY <1>1, WorkersMove
    <2>2. RunsOK'
      BY <2>1 DEF QueueInv, RunsOK, Moved
    <2>3. OneActiveRun'
      BY <2>1 DEF QueueInv, OneActiveRun, Moved, UnderWay
    <2>4. CASE runs[x].status = "PENDING" /\ runs'[x].status = "PROCESSING" /\ worker[w].run = 0
      <3>1. PICK row : worker' = [worker EXCEPT ![w] = [run |-> x, row |-> row]]
        BY <2>1, <2>4
      <3>2. worker'[w].run = x /\ DOMAIN worker' = Workers
            /\ \A v \in Workers \ {w} : worker'[v] = worker[v]
        BY <3>1 DEF QueueInv, HeldOK
      <3>3. \A v \in Workers : worker[v].run # 0 => worker[v].run # x
        BY <2>4 DEF QueueInv, HeldOK
      <3>4. HeldOK'
        BY <2>1, <2>4, <3>2, <3>3 DEF QueueInv, HeldOK, Moved
      <3>5. QED
        BY <2>2, <2>3, <3>4 DEF QueueInv
    <2>5. CASE x = worker[w].run /\ x # 0 /\ worker' = [worker EXCEPT ![w] = IdleWorker]
      <3>1. worker'[w].run = 0 /\ DOMAIN worker' = Workers
            /\ \A v \in Workers \ {w} : worker'[v] = worker[v]
        BY <2>5 DEF QueueInv, HeldOK, IdleWorker
      <3>2. \A v \in Workers \ {w} : worker[v].run # 0 => worker[v].run # x
        BY <2>5 DEF QueueInv, HeldOK
      <3>3. HeldOK'
        BY <2>1, <3>1, <3>2 DEF QueueInv, HeldOK, Moved
      <3>4. QED
        BY <2>2, <2>3, <3>3 DEF QueueInv
    <2>6. QED
      BY <2>1, <2>4, <2>5
  <1>2. ASSUME UNCHANGED worker, NEW run, Queued(runs', run) PROVE QueueInv'
    <2>1. /\ IsSequence(runs') /\ Len(runs) \in Nat /\ DOMAIN runs = 1 .. Len(runs)
          /\ DOMAIN runs' = 1 .. (Len(runs) + 1) /\ runs'[Len(runs) + 1] = run
          /\ \A n \in 1 .. Len(runs) : runs'[n] = runs[n]
      BY <1>2, Appended DEF Queued, QueueInv, RunsOK
    <2>2. RunsOK'
      BY <1>2, <2>1 DEF QueueInv, RunsOK, Queued
    <2>3. HeldOK'
      BY <1>2, <2>1 DEF QueueInv, HeldOK
    <2>4. OneActiveRun'
      BY <1>2, <2>1 DEF QueueInv, OneActiveRun, Queued, Active
    <2>5. QED
      BY <2>2, <2>3, <2>4 DEF QueueInv
  <1>3. CASE UNCHANGED <<runs, worker>>
    BY <1>3 DEF QueueInv, RunsOK, HeldOK, OneActiveRun
  <1>4. ASSUME NEW w \in Workers, CrashWorker(w), UNCHANGED runs PROVE QueueInv'
    <2>1. worker'[w].run = 0 /\ DOMAIN worker' = Workers
          /\ \A v \in Workers \ {w} : worker'[v] = worker[v]
      BY <1>4 DEF CrashWorker, QueueInv, HeldOK, IdleWorker
    <2>2. QED
      BY <1>4, <2>1 DEF QueueInv, RunsOK, HeldOK, OneActiveRun
  <1>5. ASSUME NEW m \in Monitors, Manual(m) \/ \E s \in Schedulers : Schedule(s, m)
        PROVE  QueueInv'
    BY <1>2, <1>3, <1>5, OthersQueue
  <1>6. QED
    BY <1>1, <1>3, <1>4, <1>5, RestKeepsRuns

THEOREM MonitorQueueInvariant == Spec => []QueueInv
  BY InitQueueInv, NextQueueInv, PTL DEF Spec

\* Schedules, users and retries never put two runs of a monitor under way.
THEOREM MonitorOneActiveRun == Spec => []OneActiveRun
  <1>1. QueueInv => OneActiveRun
    BY DEF QueueInv
  <1>2. QED
    BY MonitorQueueInvariant, <1>1, PTL

-----------------------------------------------------------------------------
\* The stored state of a candidate moves only together with an alert about that move.
StateOK == DOMAIN state = Monitors

LEMMA InitStateOK == Init => StateOK
  BY DEF Init, StateOK

LEMMA StateKept ==
    ASSUME [Next]_vars
    PROVE  \/ UNCHANGED state
           \/ \E w \in Workers, seen \in Outcomes \cup {Absent} : Complete(w, seen)
  <1>1. ASSUME NEW s \in Schedulers, SchedulerStep(s) \/ CrashScheduler(s) PROVE UNCHANGED state
    BY <1>1 DEF SchedulerStep, BeginTick, LookUp, Schedule, CrashScheduler
  <1>2. ASSUME NEW w \in Workers, Claim(w) \/ Fail(w) \/ CrashWorker(w) PROVE UNCHANGED state
    BY <1>2 DEF Claim, Fail, CrashWorker
  <1>3. ASSUME UserStep PROVE UNCHANGED state
    BY <1>3 DEF UserStep, Pause, Resume, Rebind, Manual, Request
  <1>4. QED
    BY <1>1, <1>2, <1>3 DEF Next, WorkerStep, Advance, vars

LEMMA StateMoves ==
    ASSUME [Next]_vars, NEW m \in Monitors, state'[m] # state[m]
    PROVE  \E w \in Workers, seen \in Outcomes \cup {Absent} :
              Complete(w, seen) /\ runs[worker[w].run].monitor = m
  <1>1. PICK w \in Workers, seen \in Outcomes \cup {Absent} : Complete(w, seen)
    BY StateKept
  <1>2. runs[worker[w].run].monitor = m
    BY <1>1 DEF Complete
  <1>3. QED
    BY <1>1, <1>2

LEMMA NextStateOK == StateOK /\ [Next]_vars => StateOK'
  <1>1. ASSUME StateOK, NEW w \in Workers, NEW seen, Complete(w, seen) PROVE StateOK'
    BY <1>1 DEF Complete, StateOK
  <1>2. QED
    BY <1>1, StateKept DEF StateOK

THEOREM MonitorChangeNeverSilent == Spec => ChangeNeverSilent
  <1> DEFINE Told(m) == (state[m] # Absent /\ state'[m] # state[m]) =>
                 \E a \in alerts' : /\ a.monitor = m /\ a.type = "OUTCOME_CHANGED"
                                    /\ a.old = state[m] /\ a.new = state'[m]
  <1>1. StateOK /\ [Next]_vars => [\A m \in Monitors : Told(m)]_vars
    <2> SUFFICES ASSUME StateOK, [Next]_vars, NEW m \in Monitors,
                        state[m] # Absent, state'[m] # state[m]
                 PROVE  \E a \in alerts' : /\ a.monitor = m /\ a.type = "OUTCOME_CHANGED"
                                           /\ a.old = state[m] /\ a.new = state'[m]
      OBVIOUS
    <2>1. PICK w \in Workers, seen \in Outcomes \cup {Absent} :
             Complete(w, seen) /\ runs[worker[w].run].monitor = m
      BY StateMoves
    <2> DEFINE a == AlertOf(m, worker[w].row.snapshot, "OUTCOME_CHANGED", state[m], seen, 0)
    <2>2. seen # Absent /\ state'[m] = seen
      BY <2>1 DEF Complete, StateOK
    <2>3. a \in alerts'
      BY <2>1, <2>2 DEF Complete, Decided
    <2>4. a.monitor = m /\ a.type = "OUTCOME_CHANGED" /\ a.old = state[m] /\ a.new = state'[m]
      BY <2>2 DEF AlertOf
    <2> HIDE DEF a
    <2>5. QED
      BY <2>3, <2>4
  <1>2. QED
    BY InitStateOK, NextStateOK, <1>1, PTL DEF Spec, ChangeNeverSilent

-----------------------------------------------------------------------------
\* Missed slots, with one scheduler.
OneScheduler == \A s, t \in Schedulers : s = t

RowFields == {"status", "next", "failures", "baseline", "snapshot"}
TickFields == {"todo", "locked", "expired", "now", "rows", "found"}

\* The scheduled runs of m were queued before the slot n, or are for slots on the
\* other side of the skipped hour.
QueuedBefore(m, n) ==
    \A x \in DOMAIN runs :
        (runs[x].byScheduler = TRUE /\ runs[x].monitor = m) =>
            runs[x].queued < n \/ AcrossGap(runs[x].slot, n)

RowsOK ==
    /\ DOMAIN monitor = Monitors
    /\ \A m \in Monitors : /\ DOMAIN monitor[m] = RowFields
                           /\ monitor[m].next \in Nat
                           /\ QueuedBefore(m, monitor[m].next)

\* What a tick has loaded is from the past, and later than the runs that were queued.
\* Nobody else queues scheduled runs in the meantime.
TickOK(s) ==
    /\ DOMAIN scheduler[s] = TickFields
    /\ scheduler[s].todo # {} =>
          /\ scheduler[s].todo \subseteq Monitors /\ DOMAIN scheduler[s].rows = scheduler[s].todo
          /\ scheduler[s].now \in Nat /\ scheduler[s].now <= clock
          /\ \A x \in DOMAIN runs : runs[x].byScheduler = TRUE => runs[x].queued <= scheduler[s].now
          /\ \A m \in scheduler[s].todo : /\ scheduler[s].rows[m].next \in Nat
                                          /\ QueuedBefore(m, scheduler[s].rows[m].next)

ScheduledOK ==
    \A x \in DOMAIN runs : runs[x].byScheduler = TRUE =>
        runs[x].queued \in Nat /\ runs[x].slot \in Nat /\ runs[x].queued <= clock

RecoveryInv ==
    /\ clock \in Nat
    /\ RowsOK
    /\ DOMAIN scheduler = Schedulers
    /\ \A s \in Schedulers : TickOK(s)
    /\ ScheduledOK
    /\ OneRecovery

LEMMA LeastOfNats ==
    ASSUME NEW S \in SUBSET Nat, S # {}
    PROVE  \E n \in S : \A m \in S : n <= m
  <1>1. PICK R : R = {ss \in Nat \X Nat : ss[1] < ss[2]}
    OBVIOUS
  <1>2. IsWellFoundedOn(R, Nat)
    BY <1>1, NatLessThanWellFounded, Zenon DEF OpToRel
  <1>3. PICK x \in S : \A y \in S : ~(<<y, x>> \in R)
    BY <1>2, WFMin
  <1>4. ASSUME NEW y \in S PROVE x <= y
    <2>1. x \in Nat /\ y \in Nat /\ ~(<<y, x>> \in R)
      BY <1>3
    <2>2. <<y, x>> \in Nat \X Nat /\ <<y, x>>[1] = y /\ <<y, x>>[2] = x
      BY <2>1
    <2>3. ~(y < x)
      BY <1>1, <2>1, <2>2
    <2>4. QED
      BY <2>1, <2>3
  <1>5. QED
    BY <1>4

\* A wall clock read late enough is past now, and one day of three is a workday.
LEMMA SomeWorkday ==
    ASSUME NEW slot \in Nat, NEW now \in Nat
    PROVE  \E k \in Days(now) : Workday(slot, k) /\ Later(slot, k) > now
  <1> DEFINE first == now + (IF Shift > 0 THEN Shift ELSE -Shift) + 1
             day(k) == (FirstWeekday + ((Local(slot) + Interval * k) \div Interval)) % 7
             base == FirstWeekday + Local(slot) \div Interval
  <1>1. Interval \in Nat /\ Interval > 0 /\ FirstWeekday \in Nat /\ ShiftAt \in Nat /\ Shift \in Int
    BY MonitorAssumption
  <1>2. Local(slot) \in Int /\ first \in Nat /\ first >= 1
    BY <1>1 DEF Local
  <1>3. ASSUME NEW k \in Nat, k >= first PROVE Later(slot, k) > now
    <2>1. Interval * k \in Nat /\ Interval * k >= k
      BY <1>1
    <2>2. QED
      BY <1>1, <1>3, <2>1 DEF Later, Instant, Local
  <1>4. ASSUME NEW k \in Nat PROVE day(k) = (base + k) % 7
    <2>1. \A l \in Int : (l + Interval * k) \div Interval = l \div Interval + k
      BY <1>1
    <2>2. Local(slot) \div Interval \in Int
      BY <1>1, <1>2
    <2>3. FirstWeekday + (Local(slot) \div Interval + k) = base + k
      BY <1>1, <2>2
    <2>4. QED
      BY <1>2, <2>1, <2>3
  <1>5. base \in Int
    BY <1>1, <1>2
  <1>6. ASSUME NEW b \in Int
        PROVE  b % 7 < 5 \/ (b + 1) % 7 < 5 \/ (b + 2) % 7 < 5
    OBVIOUS
  <1>7. PICK k \in first .. (first + 2) : (base + k) % 7 < 5
    <2> HIDE DEF base, first
    <2>1. base + first \in Int /\ first \in Nat
      BY <1>2, <1>5
    <2>2. \/ (base + first) % 7 < 5 \/ (base + first + 1) % 7 < 5
          \/ (base + first + 2) % 7 < 5
      BY <1>6, <2>1
    <2>3. base + first + 1 = base + (first + 1) /\ base + first + 2 = base + (first + 2)
      BY <1>2, <1>5
    <2>4. /\ first \in first .. (first + 2) /\ first + 1 \in first .. (first + 2)
          /\ first + 2 \in first .. (first + 2)
      BY <2>1
    <2>5. QED
      BY <2>2, <2>3, <2>4
  <1>8. k \in Nat /\ k >= first /\ k \in Days(now)
    BY <1>1, <1>2 DEF Days
  <1>9. day(k) < 5
    BY <1>4, <1>7, <1>8
  <1> QED
    BY <1>3, <1>8, <1>9 DEF Workday

\* The next slot lies ahead, or the clock was moved forward on the way to it.
LEMMA NextSlotIsLater ==
    ASSUME NEW slot \in Nat, NEW now \in Nat
    PROVE  /\ NextSlot(slot, now) \in Nat
           /\ NextSlot(slot, now) > now \/ AcrossGap(slot, NextSlot(slot, now))
  <1>1. Interval \in Nat /\ Interval > 0 /\ ShiftAt \in Nat /\ Shift \in Int
    BY MonitorAssumption
  <1>2. ASSUME NEW k \in Nat PROVE Later(slot, k) \in Int /\ Interval * k \in Nat
    BY <1>1 DEF Later, Instant, Local
  <1>3. CASE Weekdays
    <2> DEFINE future == {k \in Days(now) : Workday(slot, k) /\ Later(slot, k) > now}
               k == CHOOSE n \in future : \A j \in future : n <= j
    <2>1. future \in SUBSET Nat /\ future # {}
      <3>1. Days(now) \subseteq Nat
        BY <1>1 DEF Days
      <3>2. QED
        BY <3>1, SomeWorkday
    <2>2. \E n \in future : \A j \in future : n <= j
      BY <2>1, LeastOfNats
    <2>3. k \in future
      BY <2>2
    <2>4. NextSlot(slot, now) = Later(slot, k)
      BY <1>3 DEF NextSlot
    <2>5. k \in Nat /\ Later(slot, k) > now
      BY <2>1, <2>3
    <2> HIDE DEF k
    <2> QED
      BY <1>2, <2>4, <2>5
  <1>4. CASE ~Weekdays /\ Later(slot, 1) > now
    BY <1>2, <1>4 DEF NextSlot
  <1>5. CASE ~Weekdays /\ ~(Later(slot, 1) > now)
    <2> DEFINE first == Later(slot, 1)
               missed == (now - first) \div Interval
    <2>1. first \in Int /\ now - first \in Nat
      BY <1>2, <1>5
    <2>2. \A a \in Nat : a \div Interval \in Nat /\ a < Interval * (a \div Interval + 1)
      BY <1>1
    <2>3. missed \in Nat /\ now - first < Interval * (missed + 1)
      BY <2>1, <2>2
    <2>4. NextSlot(slot, now) = Later(slot, missed + 2)
      BY <1>5 DEF NextSlot
    <2>5. PICK more : more = Interval * (missed + 1)
      OBVIOUS
    <2>6. more \in Nat /\ more > 0 /\ Interval * (missed + 2) = Interval + more
      BY <1>1, <2>3, <2>5
    <2>7. first = Instant(Local(slot) + Interval) /\ NextSlot(slot, now) = Instant(Local(slot) + Interval + more)
      <3>1. Interval * 1 = Interval /\ Local(slot) \in Int
        BY <1>1 DEF Local
      <3>2. Local(slot) + (Interval + more) = Local(slot) + Interval + more
        BY <1>1, <2>6, <3>1
      <3> QED
        BY <2>4, <2>6, <3>1, <3>2 DEF Later
    <2>8. PICK f, n : f = first /\ n = NextSlot(slot, now)
      OBVIOUS
    <2>9. /\ f = Instant(Local(slot) + Interval) /\ n = Instant(Local(slot) + Interval + more)
          /\ f \in Int /\ now - f < more /\ f <= now
      BY <2>1, <2>3, <2>5, <2>7, <2>8, <1>5
    <2>10. n \in Int
      BY <1>1, <2>6, <2>9 DEF Instant, Local
    <2>11. n > now \/ (Shift > 0 /\ slot < ShiftAt /\ ShiftAt <= n)
      BY <1>1, <2>6, <2>9 DEF Instant, Local
    <2> QED
      BY <1>1, <1>5, <2>8, <2>10, <2>11 DEF AcrossGap
  <1> QED
    BY <1>3, <1>4, <1>5

LEMMA IdleTick == DOMAIN IdleScheduler = TickFields /\ IdleScheduler.todo = {}
  BY DEF IdleScheduler, TickFields

LEMMA InitRecoveryInv == Init => RecoveryInv
  <1> SUFFICES ASSUME Init PROVE RecoveryInv
    OBVIOUS
  <1>1. \A s \in Schedulers : TickOK(s)
    BY IdleTick DEF Init, TickOK
  <1>2. RowsOK
    BY DEF Init, RowsOK, RowFields, QueuedBefore
  <1>3. QED
    BY <1>1, <1>2 DEF Init, RecoveryInv, ScheduledOK, OneRecovery, BothRecover

\* The scheduled runs stay the ones they are.
SameScheduled ==
    \A x \in DOMAIN runs' : runs'[x].byScheduler = TRUE =>
        /\ x \in DOMAIN runs /\ runs[x].byScheduler = TRUE
        /\ runs'[x].monitor = runs[x].monitor /\ runs'[x].slot = runs[x].slot
        /\ runs'[x].queued = runs[x].queued

\* A row is written, and its next slot is what it was or lies ahead.
RowsMove ==
    /\ DOMAIN monitor' = Monitors
    /\ \A m \in Monitors : /\ DOMAIN monitor'[m] = RowFields /\ monitor'[m].next \in Nat
                           /\ monitor'[m].next = monitor[m].next \/ monitor'[m].next > clock

LEMMA OneRecoveryKept == OneRecovery /\ SameScheduled => OneRecovery'
  BY DEF OneRecovery, BothRecover, SameScheduled

LEMMA OutsideTicks ==
    ASSUME RecoveryInv, SameScheduled, RowsMove, UNCHANGED scheduler,
           clock' \in Nat, clock' >= clock
    PROVE  RecoveryInv'
  <1>1. RowsOK'
    BY DEF RecoveryInv, RowsOK, RowsMove, QueuedBefore, SameScheduled, ScheduledOK
  <1>2. ASSUME NEW s \in Schedulers PROVE TickOK(s)'
    BY DEF RecoveryInv, TickOK, QueuedBefore, SameScheduled
  <1>3. ScheduledOK'
    BY DEF RecoveryInv, ScheduledOK, SameScheduled
  <1>4. QED
    BY <1>1, <1>2, <1>3, OneRecoveryKept DEF RecoveryInv

\* Ticks that begin, look up or die.
LEMMA InsideTicks ==
    ASSUME RecoveryInv, UNCHANGED <<clock, monitor, runs>>, DOMAIN scheduler' = Schedulers,
           \A s \in Schedulers : TickOK(s)'
    PROVE  RecoveryInv'
  <1>1. RowsOK' /\ ScheduledOK' /\ OneRecovery'
    BY DEF RecoveryInv, RowsOK, ScheduledOK, OneRecovery, BothRecover, QueuedBefore
  <1>2. QED
    BY <1>1 DEF RecoveryInv

LEMMA BeginKeepsRecovery ==
    ASSUME RecoveryInv, NEW s \in Schedulers, BeginTick(s)
    PROVE  RecoveryInv'
  <1>1. PICK picked \in SUBSET Monitors :
           scheduler' = [scheduler EXCEPT ![s] =
                [IdleScheduler EXCEPT !.todo = picked, !.locked = TRUE, !.now = clock,
                                      !.rows = [m \in picked |-> monitor[m]]]]
    BY DEF BeginTick
  <1> DEFINE tick == [IdleScheduler EXCEPT !.todo = picked, !.locked = TRUE, !.now = clock,
                                           !.rows = [m \in picked |-> monitor[m]]]
  <1>2. /\ DOMAIN tick = TickFields /\ tick.todo = picked /\ tick.now = clock
        /\ tick.rows = [m \in picked |-> monitor[m]]
    BY DEF IdleScheduler, TickFields
  <1>3. /\ DOMAIN scheduler' = Schedulers /\ scheduler'[s] = tick
        /\ \A t \in Schedulers \ {s} : scheduler'[t] = scheduler[t]
    BY <1>1 DEF RecoveryInv
  <1>4. UNCHANGED <<clock, monitor, runs>>
    BY DEF BeginTick
  <1> HIDE DEF tick
  <1>5. TickOK(s)'
    <2>1. \A x \in DOMAIN runs : runs[x].byScheduler = TRUE => runs[x].queued <= clock
      BY DEF RecoveryInv, ScheduledOK
    <2>2. \A m \in Monitors : monitor[m].next \in Nat /\ QueuedBefore(m, monitor[m].next)
      BY DEF RecoveryInv, RowsOK
    <2>3. QED
      BY <1>2, <1>3, <1>4, <2>1, <2>2 DEF RecoveryInv, TickOK, QueuedBefore
  <1>6. \A t \in Schedulers \ {s} : TickOK(t)'
    BY <1>3, <1>4 DEF RecoveryInv, TickOK, QueuedBefore
  <1>7. QED
    BY <1>3, <1>4, <1>5, <1>6, InsideTicks

LEMMA LookUpKeepsRecovery ==
    ASSUME RecoveryInv, NEW s \in Schedulers, NEW m \in Monitors, LookUp(s, m)
    PROVE  RecoveryInv'
  <1>1. UNCHANGED <<clock, monitor, runs>> /\ m \in scheduler[s].todo
    BY DEF LookUp, Turn
  <1>2. /\ DOMAIN scheduler' = Schedulers /\ DOMAIN scheduler'[s] = TickFields
        /\ \A t \in Schedulers \ {s} : scheduler'[t] = scheduler[t]
        /\ scheduler'[s].todo = scheduler[s].todo /\ scheduler'[s].now = scheduler[s].now
        /\ DOMAIN scheduler'[s].rows = DOMAIN scheduler[s].rows
        /\ \A n \in scheduler[s].todo :
              scheduler'[s].rows[n] = scheduler[s].rows[n] \/ scheduler'[s].rows[n] = monitor[n]
    <2>1. DOMAIN scheduler[s] = TickFields /\ m \in DOMAIN scheduler[s].rows
          /\ DOMAIN scheduler[s].rows = scheduler[s].todo /\ DOMAIN scheduler = Schedulers
      BY <1>1 DEF RecoveryInv, TickOK
    <2>2. PICK found, row :
             /\ row = scheduler[s].rows[m] \/ row = monitor[m]
             /\ scheduler' = [scheduler EXCEPT ![s].found = found, ![s].rows[m] = row]
      BY DEF LookUp
    <2>3. QED
      BY <2>1, <2>2 DEF TickFields
  <1>3. TickOK(s)'
    BY <1>1, <1>2 DEF RecoveryInv, TickOK, RowsOK, QueuedBefore
  <1>4. \A t \in Schedulers \ {s} : TickOK(t)'
    BY <1>1, <1>2 DEF RecoveryInv, TickOK, QueuedBefore
  <1>5. QED
    BY <1>1, <1>2, <1>3, <1>4, InsideTicks

LEMMA CrashKeepsRecovery ==
    ASSUME RecoveryInv, NEW s \in Schedulers, CrashScheduler(s)
    PROVE  RecoveryInv'
  <1>1. /\ DOMAIN scheduler' = Schedulers /\ scheduler'[s] = IdleScheduler
        /\ \A t \in Schedulers \ {s} : scheduler'[t] = scheduler[t]
        /\ UNCHANGED <<clock, monitor, runs>>
    BY DEF RecoveryInv, CrashScheduler
  <1>2. \A t \in Schedulers : TickOK(t)'
    BY <1>1, IdleTick DEF RecoveryInv, TickOK, QueuedBefore
  <1>3. QED
    BY <1>1, <1>2, InsideTicks

\* The one that queues. The row may be from before a resumption; it is still later than
\* the runs there are, and the slot that follows is later than this one.
LEMMA ScheduleKeepsRecovery ==
    ASSUME OneScheduler, RunsOK, RecoveryInv, NEW s \in Schedulers, NEW m \in Monitors, Schedule(s, m)
    PROVE  RecoveryInv'
  <1> DEFINE row == scheduler[s].rows[m]
             now == scheduler[s].now
  <1>1. /\ m \in scheduler[s].todo /\ row.next \in Nat /\ now \in Nat /\ now <= clock
        /\ QueuedBefore(m, row.next)
        /\ DOMAIN scheduler[s] = TickFields /\ DOMAIN scheduler[s].rows = scheduler[s].todo
        /\ scheduler[s].todo \subseteq Monitors
    BY DEF Schedule, Turn, RecoveryInv, TickOK
  <1>2. PICK rolledBack \in BOOLEAN :
           /\ scheduler' = [scheduler EXCEPT ![s] = Done(s, m, rolledBack)]
           /\ \/ UNCHANGED <<runs, monitor>>
              \/ UNCHANGED runs /\ monitor' = [monitor EXCEPT ![m].next = NextSlot(row.next, now)]
              \/ /\ runs' = Append(runs, NewRun(m, row, "SCHEDULED", row.next, now, TRUE))
                 /\ monitor' = [monitor EXCEPT ![m].next = NextSlot(row.next, now)]
    BY DEF Schedule
  <1>3. UNCHANGED clock
    BY DEF Schedule
  <1>4. /\ NextSlot(row.next, now) \in Nat
        /\ NextSlot(row.next, now) > now \/ AcrossGap(row.next, NextSlot(row.next, now))
    BY <1>1, NextSlotIsLater
  <1>5. PICK next : next = NextSlot(row.next, now)
    OBVIOUS
  <1>6. PICK slot, at : slot = row.next /\ at = now
    OBVIOUS
  <1>7. /\ DOMAIN scheduler' = Schedulers
        /\ DOMAIN scheduler'[s] = TickFields
        /\ scheduler'[s].todo # {} =>
              /\ scheduler'[s].todo = scheduler[s].todo \ {m} /\ scheduler'[s].now = at
              /\ DOMAIN scheduler'[s].rows = scheduler'[s].todo
              /\ \A n \in scheduler'[s].todo : scheduler'[s].rows[n] = scheduler[s].rows[n]
    <2>1. DOMAIN scheduler' = Schedulers /\ scheduler'[s] = Done(s, m, rolledBack)
      BY <1>2 DEF RecoveryInv
    <2>2. CASE scheduler[s].todo = {m}
      BY <2>1, <2>2, IdleTick DEF Done
    <2>3. CASE scheduler[s].todo # {m}
      BY <1>1, <1>6, <2>1, <2>3 DEF Done, TickFields
    <2>4. QED
      BY <2>2, <2>3
  <1>8. \A t \in Schedulers : t = s
    BY DEF OneScheduler
  <1>11. QueuedBefore(m, next)
    <2>1. ASSUME NEW x \in DOMAIN runs, runs[x].byScheduler = TRUE, runs[x].monitor = m
          PROVE  runs[x].queued < next \/ AcrossGap(runs[x].slot, next)
      <3>1. runs[x].queued \in Nat /\ runs[x].slot \in Nat /\ runs[x].queued <= at
        BY <1>1, <1>6, <2>1 DEF RecoveryInv, TickOK, ScheduledOK
      <3>2. runs[x].queued < slot \/ AcrossGap(runs[x].slot, slot)
        BY <1>1, <1>6, <2>1 DEF QueuedBefore
      <3>3. slot \in Nat /\ at \in Nat /\ next \in Nat /\ (next > at \/ AcrossGap(slot, next))
        BY <1>1, <1>4, <1>5, <1>6
      <3>4. ShiftAt \in Nat
        BY MonitorAssumption
      <3>5. QED
        BY <3>1, <3>2, <3>3, <3>4 DEF AcrossGap
    <2>2. QED
      BY <2>1 DEF QueuedBefore
  <1>9. CASE UNCHANGED runs
    <2>1. UNCHANGED monitor \/ monitor' = [monitor EXCEPT ![m].next = next]
      BY <1>2, <1>5, <1>9
    <2>2. RowsOK'
      <3>1. CASE UNCHANGED monitor
        BY <1>9, <3>1 DEF RecoveryInv, RowsOK, QueuedBefore
      <3>2. CASE monitor' = [monitor EXCEPT ![m].next = next]
        <4>1. /\ DOMAIN monitor' = Monitors /\ DOMAIN monitor'[m] = RowFields
              /\ monitor'[m].next = next
              /\ \A n \in Monitors \ {m} : monitor'[n] = monitor[n]
          BY <3>2 DEF RecoveryInv, RowsOK, RowFields
        <4>2. QueuedBefore(m, next)'
          BY <1>9, <1>11 DEF QueuedBefore
        <4>3. QED
          BY <1>4, <1>5, <1>9, <4>1, <4>2 DEF RecoveryInv, RowsOK, QueuedBefore
      <3>3. QED
        BY <2>1, <3>1, <3>2
    <2>3. TickOK(s)'
      BY <1>1, <1>3, <1>6, <1>7, <1>9 DEF RecoveryInv, TickOK, QueuedBefore
    <2>4. QED
      BY <1>3, <1>7, <1>8, <1>9, <2>2, <2>3 DEF RecoveryInv, ScheduledOK, OneRecovery, BothRecover
  <1>10. ASSUME runs' = Append(runs, NewRun(m, row, "SCHEDULED", row.next, now, TRUE)),
                monitor' = [monitor EXCEPT ![m].next = NextSlot(row.next, now)]
         PROVE  RecoveryInv'
    <2> DEFINE run == NewRun(m, row, "SCHEDULED", row.next, now, TRUE)
    <2>1. run.monitor = m /\ run.byScheduler = TRUE /\ run.slot = slot /\ run.queued = at
      BY <1>6 DEF NewRun
    <2> HIDE DEF run
    <2>2. PICK e : e = run
      OBVIOUS
    <2>3. /\ Len(runs) \in Nat /\ DOMAIN runs = 1 .. Len(runs)
          /\ DOMAIN runs' = 1 .. (Len(runs) + 1) /\ runs'[Len(runs) + 1] = e
          /\ \A x \in 1 .. Len(runs) : runs'[x] = runs[x]
      <3>1. runs' = Append(runs, e) /\ IsSequence(runs)
        BY <1>10, <2>2 DEF run, RunsOK
      <3>2. QED
        BY <3>1, Appended
    <2>4. \A x \in DOMAIN runs' : x \in DOMAIN runs \/ x = Len(runs) + 1
      BY <2>3
    <2>5. /\ DOMAIN monitor' = Monitors /\ DOMAIN monitor'[m] = RowFields
          /\ monitor'[m].next = next
          /\ \A n \in Monitors \ {m} : monitor'[n] = monitor[n]
      BY <1>5, <1>10 DEF RecoveryInv, RowsOK, RowFields
    <2>6. /\ e.monitor = m /\ e.byScheduler = TRUE /\ e.slot = slot /\ e.queued = at
          /\ slot \in Nat /\ at \in Nat /\ at <= clock /\ next \in Nat
          /\ next > at \/ AcrossGap(slot, next)
          /\ QueuedBefore(m, slot)
      BY <1>1, <1>4, <1>5, <1>6, <2>1, <2>2
    <2>7. RowsOK'
      <3>1. \A x \in DOMAIN runs' :
               (runs'[x].byScheduler = TRUE /\ runs'[x].monitor = m) =>
                   runs'[x].queued < next \/ AcrossGap(runs'[x].slot, next)
        BY <1>11, <2>3, <2>4, <2>6 DEF QueuedBefore
      <3>2. \A n \in Monitors \ {m} : \A x \in DOMAIN runs' :
               (runs'[x].byScheduler = TRUE /\ runs'[x].monitor = n) =>
                   \/ runs'[x].queued < monitor[n].next
                   \/ AcrossGap(runs'[x].slot, monitor[n].next)
        BY <2>3, <2>4, <2>6 DEF RecoveryInv, RowsOK, QueuedBefore
      <3>3. QED
        BY <2>5, <2>6, <3>1, <3>2 DEF RecoveryInv, RowsOK, QueuedBefore
    <2>8. TickOK(s)'
      <3>1. \A n \in scheduler[s].todo :
               /\ scheduler[s].rows[n].next \in Nat
               /\ QueuedBefore(n, scheduler[s].rows[n].next)
        BY <1>1 DEF RecoveryInv, TickOK
      <3>2. ASSUME NEW n \in scheduler[s].todo \ {m}, NEW x \in DOMAIN runs',
                   runs'[x].byScheduler = TRUE, runs'[x].monitor = n
            PROVE  \/ runs'[x].queued < scheduler[s].rows[n].next
                   \/ AcrossGap(runs'[x].slot, scheduler[s].rows[n].next)
        BY <2>3, <2>4, <2>6, <3>1, <3>2 DEF QueuedBefore
      <3>3. \A x \in DOMAIN runs : runs[x].byScheduler = TRUE => runs[x].queued <= at
        BY <1>1, <1>6 DEF RecoveryInv, TickOK
      <3>4. \A x \in DOMAIN runs' : runs'[x].byScheduler = TRUE => runs'[x].queued <= at
        BY <2>3, <2>4, <2>6, <3>3
      <3>5. CASE scheduler'[s].todo # {}
        <4>1. \A n \in scheduler'[s].todo :
                 /\ n \in scheduler[s].todo \ {m}
                 /\ scheduler'[s].rows[n] = scheduler[s].rows[n]
          BY <1>7, <3>5
        <4>2. \A n \in scheduler'[s].todo : QueuedBefore(n, scheduler[s].rows[n].next)'
          BY <3>2, <4>1 DEF QueuedBefore
        <4>3. /\ DOMAIN scheduler'[s] = TickFields
              /\ scheduler'[s].todo \subseteq Monitors
              /\ DOMAIN scheduler'[s].rows = scheduler'[s].todo
              /\ scheduler'[s].now \in Nat /\ scheduler'[s].now <= clock'
              /\ scheduler'[s].now = at
          BY <1>1, <1>3, <1>7, <2>6, <3>5
        <4>4. \A n \in scheduler'[s].todo :
                 /\ scheduler'[s].rows[n].next \in Nat
                 /\ QueuedBefore(n, scheduler[s].rows[n].next)'
          BY <3>1, <4>1, <4>2
        <4>5. QED
          BY <3>4, <4>1, <4>3, <4>4 DEF TickOK, QueuedBefore
      <3>6. QED
        BY <1>7, <3>5 DEF TickOK
    <2>9. ScheduledOK'
      BY <1>3, <2>3, <2>4, <2>6 DEF RecoveryInv, ScheduledOK
    <2>10. OneRecovery'
      <3>1. \A x \in DOMAIN runs :
               (runs[x].byScheduler = TRUE /\ runs[x].monitor = m) =>
                   runs[x].queued < slot \/ AcrossGap(runs[x].slot, slot)
        BY <2>6 DEF QueuedBefore
      <3>2. \A x \in DOMAIN runs : runs[x].byScheduler = TRUE => runs[x].queued \in Nat
        BY DEF RecoveryInv, ScheduledOK
      <3>3. ASSUME NEW x \in DOMAIN runs, NEW y \in DOMAIN runs, BothRecover(x, y)'
            PROVE  AcrossGap(runs[x].slot, runs[y].slot) \/ AcrossGap(runs[y].slot, runs[x].slot)
        <4>1. BothRecover(x, y)
          BY <2>3, <3>3 DEF BothRecover
        <4>2. QED
          BY <4>1 DEF RecoveryInv, OneRecovery
      <3>4. ASSUME NEW x \in DOMAIN runs, runs[x].byScheduler = TRUE, runs[x].monitor = m,
                   slot <= runs[x].queued
            PROVE  AcrossGap(runs[x].slot, slot)
        BY <2>6, <3>1, <3>2, <3>4
      <3>5. ASSUME NEW x \in DOMAIN runs', NEW y \in DOMAIN runs', BothRecover(x, y)'
            PROVE  AcrossGap(runs'[x].slot, runs'[y].slot) \/ AcrossGap(runs'[y].slot, runs'[x].slot)
        <4>1. CASE x \in DOMAIN runs /\ y \in DOMAIN runs
          BY <2>3, <3>3, <3>5, <4>1
        <4>2. CASE x \in DOMAIN runs /\ y = Len(runs) + 1
          <5>1. /\ runs'[x] = runs[x] /\ runs'[y] = e
                /\ runs'[x].byScheduler /\ runs'[x].monitor = runs'[y].monitor
                /\ runs'[y].slot <= runs'[x].queued
            BY <2>3, <3>5, <4>2 DEF BothRecover
          <5>2. AcrossGap(runs[x].slot, slot)
            BY <2>6, <3>4, <4>2, <5>1
          <5>3. QED
            BY <2>6, <5>1, <5>2
        <4>3. CASE x = Len(runs) + 1 /\ y \in DOMAIN runs
          <5>1. /\ runs'[y] = runs[y] /\ runs'[x] = e
                /\ runs'[y].byScheduler /\ runs'[x].monitor = runs'[y].monitor
                /\ runs'[x].slot <= runs'[y].queued
            BY <2>3, <3>5, <4>3 DEF BothRecover
          <5>2. AcrossGap(runs[y].slot, slot)
            BY <2>6, <3>4, <4>3, <5>1
          <5>3. QED
            BY <2>6, <5>1, <5>2
        <4>4. QED
          BY <2>4, <3>5, <4>1, <4>2, <4>3 DEF BothRecover
      <3>6. QED
        BY <3>5 DEF OneRecovery, AcrossGap, BothRecover
    <2>11. QED
      BY <1>3, <1>7, <1>8, <2>7, <2>8, <2>9, <2>10 DEF RecoveryInv
  <1>12. QED
    BY <1>2, <1>9, <1>10

LEMMA WorkersKeepRecovery ==
    ASSUME QueueInv, RecoveryInv, NEW w \in Workers, WorkerStep(w)
    PROVE  RecoveryInv'
  <1>1. SameScheduled
    BY WorkersMove DEF Moved, SameScheduled
  <1>2. UNCHANGED <<clock, scheduler>>
    BY DEF WorkerStep, Claim, Complete, Fail
  <1>3. RowsMove
    <2>1. ASSUME NEW m, NEW row, DOMAIN row = RowFields,
                 m \in Monitors => row.next = monitor[m].next,
                 monitor' = [monitor EXCEPT ![m] = row]
          PROVE  RowsMove
      BY <2>1 DEF RecoveryInv, RowsOK, RowsMove
    <2>2. CASE Claim(w)
      BY <2>2 DEF Claim, RecoveryInv, RowsOK, RowsMove
    <2>3. ASSUME NEW m, NEW row, monitor' = [monitor EXCEPT ![m] = row], m \notin Monitors
          PROVE  RowsMove
      BY <2>3 DEF RecoveryInv, RowsOK, RowsMove
    <2>4. ASSUME NEW seen, Complete(w, seen)
          PROVE  RowsMove
      <3>1. PICK m, x, loaded : monitor' = [monitor EXCEPT ![m] = CompletedMonitor(monitor[m], loaded, x)]
        BY <2>4 DEF Complete
      <3>2. CASE m \in Monitors
        <4> DEFINE row == CompletedMonitor(monitor[m], loaded, x)
        <4>1. DOMAIN row = RowFields /\ row.next = monitor[m].next
          BY <3>2 DEF CompletedMonitor, RecoveryInv, RowsOK, RowFields
        <4>2. PICK r : r = row
          OBVIOUS
        <4>3. QED
          BY <2>1, <3>1, <4>1, <4>2
      <3>3. QED
        BY <2>3, <3>1, <3>2
    <2>5. CASE Fail(w)
      <3>1. PICK m : monitor' = [monitor EXCEPT ![m] = FailedMonitor(monitor[m])]
        BY <2>5 DEF Fail
      <3>2. CASE m \in Monitors
        <4> DEFINE row == FailedMonitor(monitor[m])
        <4>1. DOMAIN row = RowFields /\ row.next = monitor[m].next
          BY <3>2 DEF FailedMonitor, RecoveryInv, RowsOK, RowFields
        <4>2. PICK r : r = row
          OBVIOUS
        <4>3. QED
          BY <2>1, <3>1, <4>1, <4>2
      <3>3. QED
        BY <2>3, <3>1, <3>2
    <2>6. QED
      BY <2>2, <2>4, <2>5 DEF WorkerStep
  <1>4. QED
    BY <1>1, <1>2, <1>3, OutsideTicks DEF RecoveryInv

LEMMA UsersKeepRecovery ==
    ASSUME QueueInv, RecoveryInv, NEW m \in Monitors,
           Pause(m) \/ Resume(m) \/ Manual(m) \/ \E s \in Snapshots : Rebind(m, s)
    PROVE  RecoveryInv'
  <1>1. UNCHANGED scheduler /\ clock' \in Nat /\ clock' >= clock
    <2>1. clock \in Nat
      BY DEF RecoveryInv
    <2>2. CASE Resume(m)
      BY <2>1, <2>2 DEF Resume, Request
    <2>3. CASE Pause(m) \/ Manual(m) \/ \E s \in Snapshots : Rebind(m, s)
      <3>1. UNCHANGED <<scheduler, clock>>
        BY <2>3 DEF Pause, Manual, Rebind, Request
      <3>2. QED
        BY <2>1, <3>1
    <2>4. QED
      BY <2>2, <2>3
  <1>2. SameScheduled
    <2>1. CASE UNCHANGED runs
      BY <2>1 DEF SameScheduled
    <2>2. CASE Manual(m) /\ ~UNCHANGED runs
      <3> DEFINE run == NewRun(m, monitor[m], "MANUAL", clock, clock, FALSE)
      <3>1. runs' = Append(runs, run)
        BY <2>2 DEF Manual, Requested
      <3>2. run.byScheduler = FALSE
        BY DEF NewRun
      <3> HIDE DEF run
      <3>3. /\ Len(runs) \in Nat /\ DOMAIN runs = 1 .. Len(runs)
            /\ DOMAIN runs' = 1 .. (Len(runs) + 1) /\ runs'[Len(runs) + 1] = run
            /\ \A x \in 1 .. Len(runs) : runs'[x] = runs[x]
        BY <3>1, Appended DEF QueueInv, RunsOK
      <3>4. \A x \in DOMAIN runs' : x \in DOMAIN runs \/ x = Len(runs) + 1
        BY <3>3
      <3>5. QED
        BY <3>2, <3>3, <3>4 DEF SameScheduled
    <2>3. QED
      BY <2>1, <2>2 DEF Pause, Resume, Rebind
  <1>3. RowsMove
    <2>1. CASE Manual(m)
      BY <2>1 DEF Manual, RowsMove, RecoveryInv, RowsOK
    <2>2. CASE Pause(m)
      BY <2>2 DEF Pause, RowsMove, RecoveryInv, RowsOK, RowFields
    <2>3. CASE Resume(m)
      BY <2>3 DEF Resume, RowsMove, RecoveryInv, RowsOK, RowFields
    <2>4. ASSUME NEW s \in Snapshots, Rebind(m, s) PROVE RowsMove
      BY <2>4 DEF Rebind, RowsMove, RecoveryInv, RowsOK, RowFields
    <2>5. QED
      BY <2>1, <2>2, <2>3, <2>4
  <1>4. QED
    BY <1>1, <1>2, <1>3, OutsideTicks

LEMMA NextRecoveryInv == OneScheduler /\ QueueInv /\ RecoveryInv /\ [Next]_vars => RecoveryInv'
  <1> SUFFICES ASSUME OneScheduler, QueueInv, RecoveryInv, [Next]_vars PROVE RecoveryInv'
    OBVIOUS
  <1>1. ASSUME UNCHANGED <<monitor, runs, scheduler>>, clock' \in Nat, clock' >= clock
        PROVE  RecoveryInv'
    <2>1. SameScheduled /\ RowsMove
      BY <1>1 DEF SameScheduled, RowsMove, RecoveryInv, RowsOK
    <2>2. QED
      BY <1>1, <2>1, OutsideTicks
  <1>2. CASE Advance
    BY <1>1, <1>2 DEF Advance, RecoveryInv
  <1>3. ASSUME NEW s \in Schedulers, SchedulerStep(s) \/ CrashScheduler(s) PROVE RecoveryInv'
    BY <1>3, BeginKeepsRecovery, LookUpKeepsRecovery, CrashKeepsRecovery, ScheduleKeepsRecovery
       DEF SchedulerStep, QueueInv
  <1>4. ASSUME NEW w \in Workers, WorkerStep(w) PROVE RecoveryInv'
    BY <1>4, WorkersKeepRecovery
  <1>5. ASSUME NEW w \in Workers, CrashWorker(w) PROVE RecoveryInv'
    BY <1>1, <1>5 DEF CrashWorker, RecoveryInv
  <1>6. CASE UserStep
    BY <1>6, UsersKeepRecovery DEF UserStep
  <1>7. CASE UNCHANGED vars
    BY <1>1, <1>7 DEF vars, RecoveryInv
  <1>8. QED
    BY <1>2, <1>3, <1>4, <1>5, <1>6, <1>7 DEF Next

\* With one scheduler, of two scheduled runs of a monitor one is for a slot that was still
\* to come when the other was queued, unless the zone moved its clock forward between
\* their slots: for every frequency, WEEKDAYS included, and either change of the clock,
\* however long the scheduler was away, whoever resumes the monitor in the middle of a
\* tick, and whichever ticks die.
THEOREM MonitorOneRecovery == OneScheduler => (Spec => []OneRecovery)
  <1> SUFFICES ASSUME OneScheduler PROVE Spec => []OneRecovery
    OBVIOUS
  <1>1. QueueInv /\ RecoveryInv /\ [Next]_vars => RecoveryInv'
    BY NextRecoveryInv
  <1>2. RecoveryInv => OneRecovery
    BY DEF RecoveryInv
  <1>3. QED
    BY InitQueueInv, NextQueueInv, InitRecoveryInv, <1>1, <1>2, PTL DEF Spec
-----------------------------------------------------------------------------
\* The failures that are counted. RowFields is what a monitor has.
Ends == {"COMPLETED", "FAILED"}
Finished(m, status) == {x \in DOMAIN runs : runs[x].monitor = m /\ runs[x].status = status}
Consecutive(m) == {x \in Finished(m, "FAILED") : \A y \in Finished(m, "COMPLETED") : y < x}
Counted(m) == monitor[m].failures = Cardinality(Consecutive(m))

RowsWhole == DOMAIN monitor = Monitors /\ \A m \in Monitors : DOMAIN monitor[m] = RowFields

\* The run of a monitor that is under way is the last one it got.
LatestActive ==
    \A x, y \in DOMAIN runs :
        (runs[x].monitor = runs[y].monitor /\ runs[x].status \in UnderWay) => y <= x

\* A worker has loaded the count that is still there.
LoadedOK ==
    \A w \in Workers : \A m \in Monitors :
        (worker[w].run # 0 /\ runs[worker[w].run].monitor = m)
            => worker[w].row.failures = monitor[m].failures

CountInv == RowsWhole /\ LatestActive /\ LoadedOK /\ \A m \in Monitors : Counted(m)

LEMMA InitCountInv == Init => CountInv
  <1> SUFFICES ASSUME Init PROVE CountInv
    OBVIOUS
  <1>1. RowsWhole
    BY DEF Init, RowsWhole, RowFields
  <1>2. LatestActive
    BY DEF Init, LatestActive
  <1>3. LoadedOK
    BY DEF Init, LoadedOK, IdleWorker
  <1>4. ASSUME NEW m \in Monitors PROVE Counted(m)
    <2>1. Consecutive(m) = {} /\ monitor[m].failures = 0
      BY DEF Init, Consecutive, Finished
    <2>2. QED
      BY <2>1, FS_EmptySet DEF Counted
  <1>5. QED
    BY <1>1, <1>2, <1>3, <1>4 DEF CountInv

\* Steps that finish no run.
LEMMA NothingFinished ==
    ASSUME NEW m \in Monitors,
           \A x \in DOMAIN runs : /\ x \in DOMAIN runs' /\ runs'[x].monitor = runs[x].monitor
                                  /\ runs[x].status \in Ends => runs'[x].status = runs[x].status,
           \A x \in DOMAIN runs' : runs'[x].status \in Ends =>
               x \in DOMAIN runs /\ runs[x].status = runs'[x].status,
           monitor'[m].failures = monitor[m].failures,
           Counted(m)
    PROVE  Counted(m)'
  <1>1. ASSUME NEW status \in Ends PROVE Finished(m, status)' = Finished(m, status)
    BY <1>1 DEF Finished
  <1>2. Finished(m, "COMPLETED")' = Finished(m, "COMPLETED")
        /\ Finished(m, "FAILED")' = Finished(m, "FAILED")
    BY <1>1 DEF Ends
  <1>3. Consecutive(m)' = Consecutive(m)
    BY <1>2 DEF Consecutive
  <1>4. QED
    BY <1>3 DEF Counted

\* Everybody but the workers leaves the counts alone.
LEMMA OthersKeepCounts ==
    ASSUME RowsWhole, [Next]_vars, \A w \in Workers : ~WorkerStep(w)
    PROVE  RowsWhole' /\ \A m \in Monitors : monitor'[m].failures = monitor[m].failures
  <1>1. CASE UNCHANGED monitor
    BY <1>1 DEF RowsWhole
  <1>2. ASSUME NEW m \in Monitors, NEW row, monitor' = [monitor EXCEPT ![m] = row],
               DOMAIN row = RowFields, row.failures = monitor[m].failures
        PROVE  RowsWhole' /\ \A n \in Monitors : monitor'[n].failures = monitor[n].failures
    BY <1>2 DEF RowsWhole
  <1>3. ASSUME NEW m \in Monitors, Pause(m) \/ Resume(m) \/ \E s \in Snapshots : Rebind(m, s)
        PROVE  RowsWhole' /\ \A n \in Monitors : monitor'[n].failures = monitor[n].failures
    <2>1. PICK status, next, baseline, snapshot :
             \/ monitor' = [monitor EXCEPT ![m].status = status]
             \/ monitor' = [monitor EXCEPT ![m].status = status, ![m].next = next]
             \/ monitor' = [monitor EXCEPT ![m].snapshot = snapshot, ![m].baseline = baseline]
      BY <1>3 DEF Pause, Resume, Rebind
    <2>2. QED
      BY <2>1 DEF RowsWhole, RowFields
  <1>4. ASSUME NEW m \in Monitors, NEW s \in Schedulers, Schedule(s, m)
        PROVE  RowsWhole' /\ \A n \in Monitors : monitor'[n].failures = monitor[n].failures
    <2>1. PICK next : UNCHANGED monitor \/ monitor' = [monitor EXCEPT ![m].next = next]
      BY <1>4 DEF Schedule
    <2>2. QED
      BY <1>1, <2>1 DEF RowsWhole, RowFields
  <1>5. ASSUME NEW s \in Schedulers, SchedulerStep(s) \/ CrashScheduler(s)
        PROVE  UNCHANGED monitor \/ \E m \in Monitors : Schedule(s, m)
    BY <1>5 DEF SchedulerStep, BeginTick, LookUp, CrashScheduler
  <1>6. CASE UserStep
    <2>1. ASSUME NEW m \in Monitors, Manual(m) PROVE UNCHANGED monitor
      BY <2>1 DEF Manual
    <2>2. QED
      BY <1>1, <1>3, <1>6, <2>1 DEF UserStep
  <1>7. CASE Advance \/ (\E w \in Workers : CrashWorker(w)) \/ UNCHANGED vars
    BY <1>1, <1>7 DEF Advance, CrashWorker, vars
  <1>8. QED
    BY <1>1, <1>4, <1>5, <1>6, <1>7 DEF Next

\* A run that is moved keeps its place, so the last one of its monitor stays the last.
LEMMA MovedKeepsLatest ==
    ASSUME LatestActive, NEW x, Moved(runs', x)
    PROVE  LatestActive'
  BY DEF LatestActive, Moved

LEMMA ClaimKeepsCount ==
    ASSUME QueueInv, CountInv, NEW w \in Workers, Claim(w)
    PROVE  CountInv'
  <1>1. PICK x \in DOMAIN runs :
           /\ runs[x].status = "PENDING"
           /\ runs' = [runs EXCEPT ![x].status = "PROCESSING",
                                   ![x].used = monitor[runs[x].monitor].snapshot]
           /\ worker' = [worker EXCEPT ![w] = [run |-> x, row |-> monitor[runs[x].monitor]]]
    BY DEF Claim
  <1>2. Moved(runs', x) /\ runs'[x].status = "PROCESSING"
    <2>1. Moved(runs', x)
      BY <1>1, StatusMoves DEF UnderWay, QueueInv
    <2>2. QED
      BY <1>1, <2>1 DEF QueueInv, RunsOK, RunFields
  <1>3. UNCHANGED monitor
    BY DEF Claim
  <1>4. LoadedOK'
    <2>1. PICK loaded : loaded = monitor[runs[x].monitor]
      OBVIOUS
    <2>2. /\ worker'[w].run = x /\ worker'[w].row = loaded
          /\ \A v \in Workers \ {w} : worker'[v] = worker[v]
      BY <1>1, <2>1 DEF QueueInv, HeldOK
    <2>3. \A y \in DOMAIN runs : runs'[y].monitor = runs[y].monitor
      BY <1>2 DEF Moved
    <2>4. \A v \in Workers : worker[v].run # 0 => worker[v].run \in DOMAIN runs
      BY DEF QueueInv, HeldOK
    <2>5. QED
      BY <1>3, <2>1, <2>2, <2>3, <2>4 DEF CountInv, LoadedOK
  <1>5. ASSUME NEW m \in Monitors PROVE Counted(m)'
    <2>1. \A y \in DOMAIN runs : /\ y \in DOMAIN runs' /\ runs'[y].monitor = runs[y].monitor
                                 /\ runs[y].status \in Ends => runs'[y].status = runs[y].status
      BY <1>1, <1>2 DEF Moved, Ends
    <2>2. \A y \in DOMAIN runs' : runs'[y].status \in Ends =>
              y \in DOMAIN runs /\ runs[y].status = runs'[y].status
      BY <1>1, <1>2 DEF Moved, Ends
    <2>3. Counted(m) /\ monitor'[m].failures = monitor[m].failures
      BY <1>3 DEF CountInv
    <2>4. QED
      BY <2>1, <2>2, <2>3, NothingFinished
  <1>6. QED
    BY <1>2, <1>3, <1>4, <1>5, MovedKeepsLatest DEF CountInv, RowsWhole

\* A run ends. It is the last one of its monitor, so that no completed one is after it:
\* a failure is one more in a row, a success leaves none.
LEMMA EndKeepsCount ==
    ASSUME QueueInv, CountInv, NEW w \in Workers, worker[w].run # 0,
           NEW status \in Ends,
           runs' = [runs EXCEPT ![worker[w].run].status = status],
           worker' = [worker EXCEPT ![w] = IdleWorker],
           NEW row, monitor' = [monitor EXCEPT ![runs[worker[w].run].monitor] = row],
           runs[worker[w].run].monitor \in Monitors =>
               /\ DOMAIN row = RowFields
               /\ row.failures = IF status = "COMPLETED" THEN 0
                                 ELSE monitor[runs[worker[w].run].monitor].failures + 1
    PROVE  CountInv'
  <1>1. PICK x : x = worker[w].run
    OBVIOUS
  <1>2. PICK k : k = runs[x].monitor
    OBVIOUS
  <1>3. /\ x \in DOMAIN runs /\ runs[x].status = "PROCESSING" /\ RunsOK
        /\ DOMAIN monitor = Monitors /\ DOMAIN worker = Workers
    BY <1>1 DEF QueueInv, HeldOK, CountInv, RowsWhole
  <1>4. Moved(runs', x) /\ runs'[x].status = status
    <2>1. runs' = [runs EXCEPT ![x].status = status, ![x].used = runs[x].used]
      BY <1>1, <1>3 DEF RunsOK, RunFields
    <2>2. status \in UnderWay => runs[x].status \in UnderWay
      BY DEF UnderWay, Ends
    <2>3. PICK used : used = runs[x].used
      OBVIOUS
    <2>4. Moved([runs EXCEPT ![x].status = status, ![x].used = used], x)
      BY <1>3, <2>2, StatusMoves
    <2>5. Moved(runs', x)
      BY <2>1, <2>3, <2>4
    <2>6. QED
      BY <1>1, <1>3, <2>5 DEF RunsOK, RunFields
  <1>5. /\ DOMAIN runs' = DOMAIN runs
        /\ \A y \in DOMAIN runs : runs'[y].monitor = runs[y].monitor
        /\ \A y \in DOMAIN runs \ {x} : runs'[y] = runs[y]
    BY <1>4 DEF Moved
  <1>6. /\ \A n \in Monitors \ {k} : monitor'[n] = monitor[n]
        /\ k \in Monitors => monitor'[k] = row
        /\ DOMAIN monitor' = Monitors
    BY <1>1, <1>2, <1>3
  <1>7. RowsWhole'
    BY <1>1, <1>2, <1>6 DEF CountInv, RowsWhole
  <1>8. LoadedOK'
    <2>1. worker'[w].run = 0 /\ \A v \in Workers \ {w} : worker'[v] = worker[v]
      BY <1>3 DEF IdleWorker
    <2>2. ASSUME NEW v \in Workers \ {w}, worker[v].run # 0 PROVE runs[worker[v].run].monitor # k
      <3>1. worker[v].run \in DOMAIN runs /\ runs[worker[v].run].status = "PROCESSING"
        BY <2>2 DEF QueueInv, HeldOK
      <3>2. worker[v].run # x
        BY <1>1, <2>2 DEF QueueInv, HeldOK
      <3>3. QED
        BY <1>2, <1>3, <3>1, <3>2 DEF QueueInv, OneActiveRun
    <2>3. \A v \in Workers : worker[v].run # 0 => worker[v].run \in DOMAIN runs
      BY DEF QueueInv, HeldOK
    <2>4. QED
      BY <1>5, <1>6, <2>1, <2>2, <2>3 DEF CountInv, LoadedOK
  <1>9. ASSUME NEW m \in Monitors, m # k PROVE Counted(m)'
    <2>1. ASSUME NEW s PROVE Finished(m, s)' = Finished(m, s)
      BY <1>2, <1>3, <1>5, <1>9 DEF Finished
    <2>2. Consecutive(m)' = Consecutive(m)
      BY <2>1 DEF Consecutive
    <2>3. QED
      BY <1>6, <1>9, <2>2 DEF CountInv, Counted
  <1>10. ASSUME k \in Monitors PROVE Counted(k)'
    <2>1. Len(runs) \in Nat /\ DOMAIN runs = 1 .. Len(runs)
      BY <1>3, Appended DEF RunsOK
    <2>2. \A y \in DOMAIN runs : (runs[y].monitor = k /\ y # x) => y < x
      BY <1>2, <1>3, <2>1 DEF CountInv, LatestActive, UnderWay
    <2>3. CASE status = "COMPLETED"
      <3>1. x \in Finished(k, "COMPLETED")'
        BY <1>2, <1>3, <1>4, <1>5, <2>3 DEF Finished
      <3>2. \A y \in Finished(k, "FAILED")' : y < x
        BY <1>2, <1>3, <1>4, <1>5, <2>2, <2>3 DEF Finished
      <3>3. Consecutive(k)' = {}
        BY <1>3, <2>1, <1>5, <3>1, <3>2 DEF Consecutive, Finished
      <3>4. monitor'[k].failures = 0
        BY <1>1, <1>2, <1>6, <1>10, <2>3
      <3>5. QED
        BY <3>3, <3>4, FS_EmptySet DEF Counted
    <2>4. CASE status = "FAILED"
      <3>1. Finished(k, "COMPLETED")' = Finished(k, "COMPLETED")
        BY <1>2, <1>3, <1>4, <1>5, <2>4 DEF Finished
      <3>2. Finished(k, "FAILED")' = Finished(k, "FAILED") \cup {x}
        BY <1>2, <1>3, <1>4, <1>5, <2>4 DEF Finished
      <3>3. \A y \in Finished(k, "COMPLETED") : y < x
        BY <1>3, <2>2 DEF Finished
      <3>4. Consecutive(k)' = Consecutive(k) \cup {x} /\ x \notin Consecutive(k)
        BY <1>3, <3>1, <3>2, <3>3 DEF Consecutive, Finished
      <3>5. IsFiniteSet(Consecutive(k))
        <4>1. PICK last \in Int : last = Len(runs)
          BY <2>1
        <4>2. IsFiniteSet(1 .. last)
          BY FS_Interval
        <4>3. Consecutive(k) \subseteq 1 .. last
          BY <2>1, <4>1 DEF Consecutive, Finished
        <4>4. QED
          BY <4>2, <4>3, FS_Subset
      <3>6. Cardinality(Consecutive(k) \cup {x}) = Cardinality(Consecutive(k)) + 1
        BY <3>4, <3>5, FS_AddElement
      <3>7. monitor'[k].failures = monitor[k].failures + 1
        BY <1>1, <1>2, <1>6, <1>10, <2>4
      <3>8. QED
        BY <1>10, <3>4, <3>6, <3>7 DEF CountInv, Counted
    <2>5. QED
      BY <2>3, <2>4 DEF Ends
  <1>11. QED
    BY <1>4, <1>7, <1>8, <1>9, <1>10, MovedKeepsLatest DEF CountInv

LEMMA WorkersKeepCount ==
    ASSUME QueueInv, CountInv, NEW w \in Workers, WorkerStep(w)
    PROVE  CountInv'
  <1>1. PICK x, m : x = worker[w].run /\ m = runs[x].monitor
    OBVIOUS
  <1>2. ASSUME NEW seen, Complete(w, seen) PROVE CountInv'
    <2>1. /\ x # 0 /\ runs' = [runs EXCEPT ![x].status = "COMPLETED"]
          /\ worker' = [worker EXCEPT ![w] = IdleWorker]
      BY <1>1, <1>2 DEF Complete
    <2>2. PICK loaded : loaded = worker[w].row
      OBVIOUS
    <2>3. PICK row : row = CompletedMonitor(monitor[m], loaded, x)
      OBVIOUS
    <2>4. monitor' = [monitor EXCEPT ![m] = row]
      BY <1>1, <1>2, <2>2, <2>3 DEF Complete
    <2>5. ASSUME m \in Monitors PROVE DOMAIN row = RowFields /\ row.failures = 0
      <3>1. loaded.failures = monitor[m].failures
        BY <1>1, <2>1, <2>2, <2>5 DEF CountInv, LoadedOK
      <3>2. DOMAIN monitor[m] = RowFields
        BY <2>5 DEF CountInv, RowsWhole
      <3>3. QED
        BY <2>3, <3>1, <3>2 DEF CompletedMonitor, RowFields
    <2>6. QED
      BY <1>1, <2>1, <2>4, <2>5, EndKeepsCount DEF Ends
  <1>3. CASE Fail(w)
    <2>1. x # 0 /\ worker' = [worker EXCEPT ![w] = IdleWorker]
      BY <1>1, <1>3 DEF Fail
    <2>2. Active(m)
      BY <1>1, <2>1 DEF Active, QueueInv, HeldOK
    <2>3. runs' = [runs EXCEPT ![x].status = "FAILED"]
      BY <1>1, <1>3, <2>2 DEF Fail, Requested
    <2>4. PICK row : row = FailedMonitor(monitor[m])
      OBVIOUS
    <2>5. monitor' = [monitor EXCEPT ![m] = row]
      BY <1>1, <1>3, <2>4 DEF Fail
    <2>6. ASSUME m \in Monitors
          PROVE  DOMAIN row = RowFields /\ row.failures = monitor[m].failures + 1
      <3>1. DOMAIN monitor[m] = RowFields
        BY <2>6 DEF CountInv, RowsWhole
      <3>2. QED
        BY <2>4, <3>1 DEF FailedMonitor, RowFields
    <2>7. QED
      BY <1>1, <2>1, <2>3, <2>5, <2>6, EndKeepsCount DEF Ends
  <1>4. QED
    BY <1>2, <1>3, ClaimKeepsCount DEF WorkerStep

LEMMA NextCountInv == QueueInv /\ CountInv /\ [Next]_vars => CountInv'
  <1> SUFFICES ASSUME QueueInv, CountInv, [Next]_vars, \A w \in Workers : ~WorkerStep(w)
               PROVE  CountInv'
    BY WorkersKeepCount
  <1>1. RowsWhole' /\ \A m \in Monitors : monitor'[m].failures = monitor[m].failures
    BY OthersKeepCounts DEF CountInv
  <1>2. CASE UNCHANGED runs /\ (UNCHANGED worker \/ \E w \in Workers : CrashWorker(w))
    <2>1. \A v \in Workers : worker'[v].run # 0 => worker'[v] = worker[v]
      BY <1>2 DEF CrashWorker, IdleWorker, QueueInv, HeldOK
    <2>2. LoadedOK'
      BY <1>1, <1>2, <2>1 DEF CountInv, LoadedOK
    <2>3. ASSUME NEW m \in Monitors PROVE Counted(m)'
      <3>1. Counted(m) /\ runs' = runs
        BY <1>2, <2>3 DEF CountInv
      <3>2. QED
        BY <1>1, <2>3, <3>1, NothingFinished
    <2>4. QED
      BY <1>1, <1>2, <2>2, <2>3 DEF CountInv, LatestActive
  <1>3. ASSUME UNCHANGED worker, NEW run, Queued(runs', run) PROVE CountInv'
    <2>1. /\ Len(runs) \in Nat /\ DOMAIN runs = 1 .. Len(runs)
          /\ DOMAIN runs' = 1 .. (Len(runs) + 1) /\ runs'[Len(runs) + 1] = run
          /\ \A n \in 1 .. Len(runs) : runs'[n] = runs[n]
      BY <1>3, Appended DEF Queued, QueueInv, RunsOK
    <2>2. \A x \in DOMAIN runs' : x \in DOMAIN runs \/ x = Len(runs) + 1
      BY <2>1
    <2>3. LatestActive'
      <3>1. \A x \in DOMAIN runs : runs[x].monitor = run.monitor => runs[x].status \notin UnderWay
        BY <1>3 DEF Queued, Active, UnderWay
      <3>2. QED
        BY <2>1, <2>2, <3>1 DEF CountInv, LatestActive
    <2>4. LoadedOK'
      <3>1. \A v \in Workers : worker[v].run # 0 => worker[v].run \in DOMAIN runs
        BY DEF QueueInv, HeldOK
      <3>2. QED
        BY <1>1, <1>3, <2>1, <3>1 DEF CountInv, LoadedOK
    <2>5. ASSUME NEW m \in Monitors PROVE Counted(m)'
      <3>1. \A y \in DOMAIN runs : /\ y \in DOMAIN runs' /\ runs'[y].monitor = runs[y].monitor
                                   /\ runs[y].status \in Ends => runs'[y].status = runs[y].status
        BY <2>1
      <3>2. \A y \in DOMAIN runs' : runs'[y].status \in Ends =>
                y \in DOMAIN runs /\ runs[y].status = runs'[y].status
        BY <1>3, <2>1, <2>2 DEF Ends, Queued
      <3>3. QED
        BY <1>1, <3>1, <3>2, NothingFinished DEF CountInv
    <2>6. QED
      BY <1>1, <2>3, <2>4, <2>5 DEF CountInv
  <1>4. CASE \E m \in Monitors : Manual(m) \/ \E s \in Schedulers : Schedule(s, m)
    BY <1>2, <1>3, <1>4, OthersQueue
  <1>5. QED
    BY <1>2, <1>4, RestKeepsRuns

\* consecutive_failures is the number of failures since the last success, whatever users
\* do to the monitor, workers crash, and however many runs were queued.
THEOREM MonitorFailuresCounted == Spec => []FailuresCounted
  <1>1. CountInv => FailuresCounted
    BY DEF CountInv, Counted, Consecutive, Finished, FailuresCounted
  <1>2. QED
    BY InitQueueInv, NextQueueInv, InitCountInv, NextCountInv, <1>1, PTL DEF Spec
=============================================================================
