---------------------- MODULE NotificationOutboxProofs ----------------------
(***************************************************************************)
(* Type correctness of the outbox and the gapless attempt ledger, for any  *)
(* number of messages, destinations and workers; then how often a          *)
(* recipient can get a message, and how far attempt_count can run past     *)
(* max_attempts: each message keeps a book (NotificationAudit) of what was *)
(* delivered and tried, and of what the workers holding it and the next    *)
(* claim may still add. Last, that statuses are backed by attempts         *)
(* (BackedInv), and that the hourly limit of a destination is passed by no *)
(* more than the other workers (RateInv).                                  *)
(***************************************************************************)
EXTENDS NotificationAudit, FiniteSetTheorems, TLAPS

\* What a worker read after its claim can only have been overtaken: the row's
\* count and budget never fall behind the snapshot a worker writes from.
JobOK ==
    \A w \in Workers :
        /\ job[w].stage = "idle" <=> job[w].message = NoMessage
        /\ job[w].stage \in {"sending", "sent"} =>
              /\ job[w].count <= row[job[w].message].attemptCount
              /\ job[w].max <= row[job[w].message].maxAttempts

LedgerInv == TypeOK /\ JobOK /\ LedgerGapless

-----------------------------------------------------------------------------
LEMMA StatusTypes ==
    /\ Claimable \subseteq Statuses /\ Settled \subseteq Statuses
    /\ "ABSENT" \in Statuses /\ "PROCESSING" \in Statuses
    /\ Idle \in Job
BY DEF Claimable, Settled, Statuses, Idle, Job, Stages, Answers

LEMMA TypeInit == Init => TypeOK /\ JobOK
<1> SUFFICES ASSUME Init PROVE TypeOK /\ JobOK
    OBVIOUS
<1>1. row \in [Messages -> Row]
    BY OutboxAssumption DEF Init, Row, Statuses, DeliveredCap
<1>2. job \in [Workers -> Job]
    BY StatusTypes DEF Init
<1>3. JobOK
    BY DEF Init, JobOK, Idle
<1> QED
    BY <1>1, <1>2, <1>3 DEF Init, TypeOK

LEMMA Arithmetic ==
    /\ \A a, b \in Nat : Greater(a, b) \in Nat /\ Greater(a, b) >= a /\ Greater(a, b) >= b
    /\ \A a, b \in Nat : Lesser(a, b) \in Nat
    /\ \A a, b \in Nat : Monus(a, b) \in Nat
    /\ \A t \in Nat : \A cap : Aged(t, cap) \in Nat
    /\ AgeCap \in Nat /\ DeliveredCap \in Nat
BY OutboxAssumption DEF Greater, Lesser, Monus, Aged, AgeCap, DeliveredCap

\* Verdict and Concluded keep to the columns' types.
LEMMA ConcludedType ==
    ASSUME NEW r \in Row, NEW j \in Job, NEW delay \in RetryDelays
    PROVE  /\ Concluded(r, j, delay) \in Row
           /\ Concluded(r, j, delay).attemptCount = j.count + 1
           /\ Concluded(r, j, delay).maxAttempts = r.maxAttempts
<1>1. Verdict(j) \in Statuses
    BY DEF Verdict, Statuses, Settled, Claimable
<1>2. /\ Lesser(j.elapsed, AgeCap) \in Nat
      /\ Lesser(j.elapsed, DeliveredCap) \in Nat
      /\ Monus(delay, j.elapsed) \in Nat
    BY Arithmetic, OutboxAssumption DEF Job
<1> DEFINE st == IF Verdict(j) = j.seen THEN r.status ELSE Verdict(j)
           wt == IF Verdict(j) = "FAILED_RETRYABLE" THEN Monus(delay, j.elapsed) ELSE r.wait
           da == IF Verdict(j) \in {"DELIVERED", "DRY_RUN"}
                   THEN Lesser(j.elapsed, DeliveredCap) ELSE r.deliveredAge
           ag == Lesser(j.elapsed, AgeCap)
<1>3. st \in Statuses /\ wt \in Nat /\ da \in Nat /\ ag \in Nat /\ j.count + 1 \in Nat
    BY <1>1, <1>2 DEF Row, Job
<1>4. Concluded(r, j, delay) =
        [r EXCEPT !.attemptCount = j.count + 1, !.status = st, !.age = ag,
                  !.wait = wt, !.deliveredAge = da]
    BY DEF Concluded
<1> QED
    <2> HIDE DEF st, wt, da, ag
    <2> QED
        BY <1>3, <1>4 DEF Row

\* Every worker action moves one row at most, and no row's count or budget back.
LEMMA TypeStep == TypeOK /\ JobOK /\ LedgerGapless /\ [Next]_vars => TypeOK' /\ JobOK'
<1> SUFFICES ASSUME TypeOK, JobOK, LedgerGapless, [Next]_vars
             PROVE  TypeOK' /\ JobOK'
    OBVIOUS
<1> USE DEF TypeOK
<1>0. NoMessage \notin Messages
    BY OutboxAssumption
<1>1. ASSUME NEW m \in Messages, CreateOutbox(m) PROVE TypeOK' /\ JobOK'
    <2>1. PICK quiet \in QuietDelays \cup {0} :
            row' = [row EXCEPT ![m].status = "PENDING", ![m].wait = quiet, ![m].age = 0]
        BY <1>1 DEF CreateOutbox
    <2>2. quiet \in Nat
        BY OutboxAssumption
    <2>3. row' \in [Messages -> Row]
        <3>1. row[m] \in Row
            OBVIOUS
        <3>2. [row[m] EXCEPT !.status = "PENDING", !.wait = quiet, !.age = 0] \in Row
            BY <3>1, <2>2, StatusTypes DEF Row, Claimable
        <3>3. row' = [row EXCEPT ![m] =
                        [row[m] EXCEPT !.status = "PENDING", !.wait = quiet, !.age = 0]]
            BY <2>1
        <3> QED
            BY <3>2, <3>3
    <2>4. JobOK'
        BY <2>1, <1>1, <1>0 DEF JobOK, CreateOutbox, Row, Job
    <2> QED
        BY <1>1, <2>3, <2>4 DEF CreateOutbox
<1>2. ASSUME NEW w \in Workers, NEW m \in Messages, ClaimNext(w, m)
      PROVE  TypeOK' /\ JobOK'
    <2>1. row' \in [Messages -> Row]
        BY <1>2, StatusTypes DEF ClaimNext, Row
    <2>2. job' \in [Workers -> Job]
        <3>1. PICK j \in Job : j = job[w]
            OBVIOUS
        <3>2. [j EXCEPT !.stage = "claimed", !.message = m] \in Job
            BY DEF Job, Stages
        <3>3. job' = [job EXCEPT ![w] = [j EXCEPT !.stage = "claimed", !.message = m]]
            BY <1>2, <3>1 DEF ClaimNext
        <3> QED
            BY <3>2, <3>3
    <2>3. JobOK'
        <3>1. /\ job'[w].stage = "claimed" /\ job'[w].message = m
              /\ \A v \in Workers \ {w} : job'[v] = job[v]
            BY <1>2 DEF ClaimNext, Job
        <3>2. \A x \in Messages : /\ row'[x].attemptCount = row[x].attemptCount
                                  /\ row'[x].maxAttempts = row[x].maxAttempts
            BY <1>2 DEF ClaimNext, Row
        <3>3. \A v \in Workers : job[v].stage \in {"sending", "sent"} => job[v].message \in Messages
            BY DEF JobOK, Job
        <3> QED
            BY <1>0, <3>1, <3>2, <3>3 DEF JobOK
    <2> QED
        BY <1>2, <2>1, <2>2, <2>3 DEF ClaimNext
<1>3. ASSUME NEW w \in Workers, Suppress(w) PROVE TypeOK' /\ JobOK'
    <2>1. row' \in [Messages -> Row]
        BY <1>3, StatusTypes DEF Suppress, Row, Settled
    <2>2. job' \in [Workers -> Job]
        BY <1>3, StatusTypes DEF Suppress
    <2>3. JobOK'
        <3>1. /\ job'[w].stage = "idle" /\ job'[w].message = NoMessage
              /\ \A v \in Workers \ {w} : job'[v] = job[v]
            BY <1>3 DEF Suppress, Idle
        <3>2. \A x \in Messages : /\ row'[x].attemptCount = row[x].attemptCount
                                  /\ row'[x].maxAttempts = row[x].maxAttempts
            BY <1>3 DEF Suppress, Row
        <3>3. \A v \in Workers : job[v].stage \in {"sending", "sent"} => job[v].message \in Messages
            BY DEF JobOK, Job
        <3> QED
            BY <3>1, <3>2, <3>3 DEF JobOK
    <2> QED
        BY <1>3, <2>1, <2>2, <2>3 DEF Suppress
<1>4. ASSUME NEW w \in Workers, BeginDelivery(w) PROVE TypeOK' /\ JobOK'
    <2>1. job[w].message \in Messages
        BY <1>4 DEF BeginDelivery, JobOK, Job
    <2> DEFINE r == row[job[w].message]
               j == [job[w] EXCEPT !.stage = "sending", !.elapsed = 0, !.seen = r.status,
                                   !.count = r.attemptCount, !.max = r.maxAttempts]
    <2>a. /\ r.status \in Statuses /\ r.attemptCount \in Nat /\ r.maxAttempts \in Nat
          /\ job[w] \in Job
        BY <2>1 DEF Row
    <2>b. /\ j \in Job /\ j.stage = "sending" /\ j.message = job[w].message
          /\ j.count = r.attemptCount /\ j.max = r.maxAttempts
        <3> HIDE DEF r
        <3> QED
            BY <2>a DEF Job, Stages
    <2>c. job' = [job EXCEPT ![w] = j]
        BY <1>4 DEF BeginDelivery
    <2> HIDE DEF j
    <2>2. job' \in [Workers -> Job]
        BY <2>b, <2>c
    <2>3. JobOK'
        <3>1. row' = row
            BY <1>4 DEF BeginDelivery
        <3> QED
            BY <2>a, <2>b, <2>c, <2>1, <1>0, <3>1 DEF JobOK
    <2> QED
        BY <1>4, <2>2, <2>3 DEF BeginDelivery
<1>5. ASSUME NEW w \in Workers, NEW reply \in Answers, Deliver(w, reply)
      PROVE  TypeOK' /\ JobOK'
    <2>1. job' \in [Workers -> Job]
        <3>1. PICK j \in Job : j = job[w]
            OBVIOUS
        <3>2. [j EXCEPT !.stage = "sent", !.answer = reply] \in Job
            BY DEF Job, Stages
        <3>3. job' = [job EXCEPT ![w] = [j EXCEPT !.stage = "sent", !.answer = reply]]
            BY <1>5, <3>1 DEF Deliver
        <3> QED
            BY <3>2, <3>3
    <2>2. JobOK'
        BY <1>5 DEF Deliver, JobOK, Job
    <2> QED
        BY <1>5, <2>1, <2>2 DEF Deliver
<1>6. ASSUME NEW w \in Workers,
             DeliverRaises(w) \/ RecordAttemptFails(w) \/ Crash(w)
      PROVE  TypeOK' /\ JobOK'
    <2>1. job' = [job EXCEPT ![w] = Idle] /\ UNCHANGED <<row, attempts, active, operations>>
        BY <1>6 DEF DeliverRaises, RecordAttemptFails, Crash
    <2>2. crashes' \in Nat
        BY <1>6 DEF DeliverRaises, RecordAttemptFails, Crash
    <2>3. job' \in [Workers -> Job]
        BY <2>1, StatusTypes
    <2>4. JobOK'
        BY <2>1 DEF JobOK, Idle
    <2> QED
        BY <2>1, <2>2, <2>3, <2>4
<1>7. ASSUME NEW w \in Workers, NEW delay \in RetryDelays, RecordAttempt(w, delay)
      PROVE  TypeOK' /\ JobOK'
    <2> DEFINE j == job[w]
               m == job[w].message
    <2>1. m \in Messages /\ j \in Job
        BY <1>7 DEF RecordAttempt, JobOK, Job
    <2>2. row' = [row EXCEPT ![m] = Concluded(row[m], j, delay)]
        BY <1>7, <2>1 DEF RecordAttempt
    <2>3. /\ Concluded(row[m], j, delay) \in Row
          /\ Concluded(row[m], j, delay).attemptCount = j.count + 1
          /\ Concluded(row[m], j, delay).maxAttempts = row[m].maxAttempts
        BY <2>1, ConcludedType
    <2>4. row' \in [Messages -> Row] /\ job' \in [Workers -> Job]
        BY <1>7, <2>2, <2>3, StatusTypes DEF RecordAttempt
    <2>5. attempts' \in [Messages -> SUBSET Attempt]
        BY <1>7, <2>1 DEF RecordAttempt, Attempt, Job
    <2>6. j.count = row[m].attemptCount
        <3>1. j.count <= row[m].attemptCount /\ j.count \in Nat /\ row[m].attemptCount \in Nat
            BY <1>7, <2>1 DEF RecordAttempt, JobOK, Job, Row
        <3>2. j.count + 1 \notin {a.number : a \in attempts[m]}
            BY <1>7 DEF RecordAttempt, Recorded
        <3>3. j.count + 1 \notin 1 .. row[m].attemptCount
            BY <2>1, <3>2 DEF LedgerGapless
        <3> QED
            BY <3>1, <3>3
    <2>7. JobOK'
        <3> SUFFICES ASSUME NEW v \in Workers
                     PROVE  /\ job'[v].stage = "idle" <=> job'[v].message = NoMessage
                            /\ job'[v].stage \in {"sending", "sent"} =>
                                  /\ job'[v].count <= row'[job'[v].message].attemptCount
                                  /\ job'[v].max <= row'[job'[v].message].maxAttempts
            BY DEF JobOK
        <3>1. CASE v = w
            BY <1>7, <3>1 DEF RecordAttempt, Idle
        <3>2. CASE v # w
            <4>1. job'[v] = job[v] /\ job[v] \in Job
                BY <1>7, <3>2 DEF RecordAttempt
            <4>2. CASE job[v].stage \in {"sending", "sent"}
                <5>1. job[v].message \in Messages
                    BY <4>1, <4>2 DEF JobOK, Job
                <5> QED
                    BY <4>1, <4>2, <5>1, <2>1, <2>2, <2>3, <2>6 DEF JobOK, Job, Row
            <4> QED
                BY <4>1, <4>2 DEF JobOK
        <3> QED
            BY <3>1, <3>2
    <2> QED
        BY <1>7, <2>4, <2>5, <2>7 DEF RecordAttempt
<1>8. ASSUME NEW m \in Messages, ManualRetry(m) PROVE TypeOK' /\ JobOK'
    <2> DEFINE budget == Greater(row[m].maxAttempts, row[m].attemptCount + 1)
    <2>a. row[m].attemptCount \in Nat /\ row[m].maxAttempts \in Nat
        BY DEF Row
    <2>1. budget \in Nat /\ budget >= row[m].maxAttempts
        <3>1. row[m].attemptCount + 1 \in Nat
            BY <2>a
        <3> QED
            BY <2>a, <3>1, Arithmetic
    <2>b. row' = [row EXCEPT ![m] = [row[m] EXCEPT !.status = "PENDING", !.wait = 0, !.age = 0,
                                                   !.maxAttempts = budget]]
        BY <1>8 DEF ManualRetry
    <2>2. row' \in [Messages -> Row]
        <3> HIDE DEF budget
        <3> QED
            BY <2>b, <2>1, StatusTypes DEF Row, Claimable
    <2>3. /\ \A n \in Messages : row'[n].attemptCount = row[n].attemptCount
          /\ \A n \in Messages : row'[n].maxAttempts >= row[n].maxAttempts
        <3> HIDE DEF budget
        <3> QED
            BY <2>b, <2>1 DEF Row
    <2>4. JobOK'
        <3>1. job' = job
            BY <1>8 DEF ManualRetry
        <3>2. \A v \in Workers : job[v].stage \in {"sending", "sent"} => job[v].message \in Messages
            BY DEF JobOK, Job
        <3> QED
            BY <3>1, <3>2, <2>2, <2>3 DEF JobOK, Row, Job
    <2> QED
        BY <1>8, <2>2, <2>4 DEF ManualRetry
<1>9. ASSUME NEW m \in Messages, Cancel(m) PROVE TypeOK' /\ JobOK'
    <2>1. row' \in [Messages -> Row]
        BY <1>9, StatusTypes DEF Cancel, Row, Settled
    <2>2. JobOK'
        BY <1>9, <1>0 DEF Cancel, JobOK, Row, Job
    <2> QED
        BY <1>9, <2>1, <2>2 DEF Cancel
<1>10. ASSUME NEW d \in Destinations, SwitchDestination(d) PROVE TypeOK' /\ JobOK'
    BY <1>10 DEF SwitchDestination, JobOK
<1>11. CASE Tick
    <2>1. row' \in [Messages -> Row]
        <3> SUFFICES ASSUME NEW m \in Messages
                     PROVE  [row[m] EXCEPT !.wait = Monus(@, 1), !.age = Aged(@, AgeCap),
                                           !.deliveredAge = Aged(@, DeliveredCap)] \in Row
            BY <1>11 DEF Tick
        <3>1. /\ Monus(row[m].wait, 1) \in Nat
              /\ Aged(row[m].age, AgeCap) \in Nat
              /\ Aged(row[m].deliveredAge, DeliveredCap) \in Nat
            BY Arithmetic DEF Row
        <3> QED
            BY <3>1 DEF Row
    <2>2. job' \in [Workers -> Job]
        <3> SUFFICES ASSUME NEW w \in Workers
                     PROVE  [job[w] EXCEPT !.elapsed = Aged(@, ElapsedCap)] \in Job
            BY <1>11 DEF Tick
        <3>1. Aged(job[w].elapsed, ElapsedCap) \in Nat
            BY Arithmetic DEF Job
        <3> QED
            BY <3>1 DEF Job
    <2>3. JobOK'
        <3>1. \A v \in Workers : /\ job'[v].stage = job[v].stage
                                 /\ job'[v].message = job[v].message
                                 /\ job'[v].count = job[v].count
                                 /\ job'[v].max = job[v].max
            BY <1>11 DEF Tick, Job
        <3>2. \A n \in Messages : /\ row'[n].attemptCount = row[n].attemptCount
                                  /\ row'[n].maxAttempts = row[n].maxAttempts
            BY <1>11 DEF Tick, Row
        <3>3. \A v \in Workers : job[v].stage \in {"sending", "sent"} => job[v].message \in Messages
            BY DEF JobOK, Job
        <3> QED
            BY <3>1, <3>2, <3>3 DEF JobOK
    <2> QED
        BY <1>11, <2>1, <2>2, <2>3 DEF Tick
<1>12. CASE UNCHANGED vars
    BY <1>12 DEF vars, JobOK
<1> QED
    BY <1>1, <1>2, <1>3, <1>4, <1>5, <1>6, <1>7, <1>8, <1>9, <1>10, <1>11, <1>12
       DEF Next, WorkerStep, OperatorStep

\* Only the result of a delivery touches the ledger, and the constraint that
\* lets it in leaves one number it can have: the next.
LEMMA LedgerStep == LedgerInv /\ [Next]_vars => LedgerGapless'
<1> SUFFICES ASSUME TypeOK, JobOK, LedgerGapless, [Next]_vars
             PROVE  LedgerGapless'
    BY DEF LedgerInv
<1>0. row' \in [Messages -> Row]
    BY TypeStep DEF TypeOK
<1>1. ASSUME NEW w \in Workers, NEW delay \in RetryDelays, RecordAttempt(w, delay)
      PROVE  LedgerGapless'
    <2> DEFINE m == job[w].message
               n == job[w].count + 1
               a == [number |-> n, status |-> job[w].answer]
    <2>1. m \in Messages /\ job[w] \in Job /\ row[m] \in Row /\ n \in Nat
        BY <1>1 DEF RecordAttempt, JobOK, TypeOK, Job
    <2>2. row' = [row EXCEPT ![m] = Concluded(row[m], job[w], delay)]
        BY <1>1, <2>1 DEF RecordAttempt, TypeOK
    <2>3. Concluded(row[m], job[w], delay).attemptCount = n
        BY <2>1, ConcludedType
    <2>4. attempts' = [attempts EXCEPT ![m] = attempts[m] \cup {a}]
        BY <1>1 DEF RecordAttempt
    <2>5. \A x \in attempts[m] : x.number # n
        BY <1>1 DEF RecordAttempt, Recorded
    <2>6. n = row[m].attemptCount + 1
        <3>1. job[w].count <= row[m].attemptCount /\ job[w].count \in Nat
              /\ row[m].attemptCount \in Nat
            BY <1>1, <2>1 DEF RecordAttempt, JobOK, Job, Row
        <3>2. n \notin 1 .. row[m].attemptCount
            BY <2>1, <2>5 DEF LedgerGapless
        <3> QED
            BY <3>1, <3>2
    <2>7. ASSUME NEW k \in Messages
          PROVE  /\ {x.number : x \in attempts'[k]} = 1 .. row'[k].attemptCount
                 /\ \A x, y \in attempts'[k] : x.number = y.number => x = y
        <3>1. CASE k # m
            BY <2>2, <2>4, <3>1 DEF LedgerGapless, TypeOK
        <3>2. CASE k = m
            <4>1. attempts'[k] = attempts[m] \cup {a} /\ row'[k].attemptCount = n
                BY <2>1, <2>2, <2>3, <2>4, <3>2 DEF TypeOK
            <4>2. {x.number : x \in attempts[m] \cup {a}} = {x.number : x \in attempts[m]} \cup {n}
                <5>1. a.number = n
                    OBVIOUS
                <5> HIDE DEF a, n
                <5> QED
                    BY <5>1
            <4>3. {x.number : x \in attempts[m]} = 1 .. row[m].attemptCount
                BY <2>1 DEF LedgerGapless
            <4>4. (1 .. row[m].attemptCount) \cup {n} = 1 .. n
                BY <2>1, <2>6 DEF Row
            <4>5. \A x, y \in attempts[m] \cup {a} : x.number = y.number => x = y
                BY <2>1, <2>5 DEF LedgerGapless
            <4> QED
                BY <4>1, <4>2, <4>3, <4>4, <4>5
        <3> QED
            BY <3>1, <3>2
    <2> QED
        BY <2>7 DEF LedgerGapless
<1>2. ASSUME attempts' = attempts,
             \A k \in Messages : row'[k].attemptCount = row[k].attemptCount
      PROVE  LedgerGapless'
    BY <1>2 DEF LedgerGapless
<1>3. ASSUME NEW w \in Workers,
             \/ \E m \in Messages : ClaimNext(w, m)
             \/ Suppress(w) \/ BeginDelivery(w)
             \/ \E reply \in Answers : Deliver(w, reply)
             \/ DeliverRaises(w) \/ RecordAttemptFails(w) \/ Crash(w)
      PROVE  LedgerGapless'
    <2>1. attempts' = attempts
        BY <1>3 DEF ClaimNext, Suppress, BeginDelivery, Deliver, DeliverRaises,
                    RecordAttemptFails, Crash
    <2>2. \/ row' = row
          \/ \E n : row' = [row EXCEPT ![n].status = "PROCESSING", ![n].age = 0]
          \/ \E n : row' = [row EXCEPT ![n].status = "SUPPRESSED", ![n].age = 0]
        BY <1>3 DEF ClaimNext, Suppress, BeginDelivery, Deliver, DeliverRaises,
                    RecordAttemptFails, Crash
    <2>3. \A k \in Messages : row'[k].attemptCount = row[k].attemptCount
        <3>1. CASE row' = row
            BY <3>1
        <3>2. ASSUME NEW n, row' = [row EXCEPT ![n].status = "PROCESSING", ![n].age = 0]
              PROVE  \A k \in Messages : row'[k].attemptCount = row[k].attemptCount
            BY <3>2 DEF TypeOK, Row
        <3>3. ASSUME NEW n, row' = [row EXCEPT ![n].status = "SUPPRESSED", ![n].age = 0]
              PROVE  \A k \in Messages : row'[k].attemptCount = row[k].attemptCount
            BY <3>3 DEF TypeOK, Row
        <3> QED
            BY <2>2, <3>1, <3>2, <3>3
    <2> QED
        BY <1>2, <2>1, <2>3
<1>4. ASSUME NEW m \in Messages, CreateOutbox(m) \/ ManualRetry(m) \/ Cancel(m)
      PROVE  LedgerGapless'
    <2>1. attempts' = attempts
        BY <1>4 DEF CreateOutbox, ManualRetry, Cancel
    <2>2. \A k \in Messages : row'[k].attemptCount = row[k].attemptCount
        <3>1. CASE CreateOutbox(m)
            BY <3>1 DEF CreateOutbox, TypeOK, Row
        <3>2. CASE ManualRetry(m)
            BY <3>2 DEF ManualRetry, TypeOK, Row
        <3>3. CASE Cancel(m)
            BY <3>3 DEF Cancel, TypeOK, Row
        <3> QED
            BY <1>4, <3>1, <3>2, <3>3
    <2> QED
        BY <1>2, <2>1, <2>2
<1>5. ASSUME NEW d \in Destinations, SwitchDestination(d) PROVE LedgerGapless'
    BY <1>2, <1>5 DEF SwitchDestination
<1>6. CASE Tick
    BY <1>2, <1>6 DEF Tick, TypeOK, Row
<1>7. CASE UNCHANGED vars
    BY <1>2, <1>7 DEF vars
<1> QED
    BY <1>1, <1>3, <1>4, <1>5, <1>6, <1>7 DEF Next, WorkerStep, OperatorStep

-----------------------------------------------------------------------------
LEMMA LedgerInvariant == Spec => []LedgerInv
<1>1. Init => LedgerInv
    BY TypeInit DEF Init, LedgerInv, LedgerGapless
<1>2. LedgerInv /\ [Next]_vars => LedgerInv'
    BY TypeStep, LedgerStep DEF LedgerInv
<1> QED
    BY <1>1, <1>2, PTL DEF Spec

\* Every column, every attempt and every worker's snapshot stays in its type.
THEOREM SpecTypeOK == Spec => []TypeOK
<1>1. LedgerInv => TypeOK
    BY DEF LedgerInv
<1> QED
    BY <1>1, LedgerInvariant, PTL

\* process_next, with workers that stall, crash and overlap: the attempts of a
\* message are 1..attempt_count, each recorded once.
THEOREM SpecLedgerGapless == Spec => []LedgerGapless
<1>1. LedgerInv => LedgerGapless
    BY DEF LedgerInv
<1> QED
    BY <1>1, LedgerInvariant, PTL

\* claim_next, manual_retry, cancel: a settled message no worker is busy with
\* is moved by an operator only.
THEOREM SpecSettledStays == Spec => SettledStays
<1> DEFINE Stays(m) == (row[m].status \in Settled /\ Holders(m) = {}) =>
                          \/ row'[m].status = row[m].status
                          \/ ManualRetry(m) \/ Cancel(m)
<1>1. LedgerInv /\ [Next]_vars => [\A m \in Messages : Stays(m)]_vars
    <2> SUFFICES ASSUME TypeOK, JobOK, Next, NEW m \in Messages,
                        row[m].status \in Settled, Holders(m) = {},
                        ~ManualRetry(m), ~Cancel(m)
                 PROVE  row'[m].status = row[m].status
        BY DEF LedgerInv, vars
    <2>1. \A w \in Workers : job[w].message # m
        BY DEF Holders
    <2>2. ASSUME NEW w \in Workers, NEW n \in Messages, ClaimNext(w, n)
          PROVE  row'[m].status = row[m].status
        <3>1. row[n].status \in Claimable \cup {"PROCESSING"}
            BY <2>2 DEF ClaimNext, Due, StaleClaim
        <3>2. n # m
            BY <3>1 DEF Claimable, Settled
        <3> QED
            BY <2>2, <3>2 DEF ClaimNext, TypeOK
    <2>3. ASSUME NEW w \in Workers,
                 Suppress(w) \/ \E delay \in RetryDelays : RecordAttempt(w, delay)
          PROVE  row'[m].status = row[m].status
        BY <2>1, <2>3 DEF Suppress, RecordAttempt, TypeOK
    <2>4. ASSUME NEW n \in Messages, CreateOutbox(n)
          PROVE  row'[m].status = row[m].status
        BY <2>4 DEF CreateOutbox, TypeOK, Settled
    <2>5. ASSUME NEW n \in Messages, ManualRetry(n) \/ Cancel(n)
          PROVE  row'[m].status = row[m].status
        <3>1. n # m
            BY <2>5
        <3> QED
            BY <2>5, <3>1 DEF ManualRetry, Cancel, TypeOK
    <2>6. ASSUME NEW w \in Workers,
                 \/ BeginDelivery(w) \/ \E reply \in Answers : Deliver(w, reply)
                 \/ DeliverRaises(w) \/ RecordAttemptFails(w) \/ Crash(w)
          PROVE  row'[m].status = row[m].status
        BY <2>6 DEF BeginDelivery, Deliver, DeliverRaises, RecordAttemptFails, Crash
    <2>7. CASE \E d \in Destinations : SwitchDestination(d)
        BY <2>7 DEF SwitchDestination
    <2>8. CASE Tick
        BY <2>8 DEF Tick, TypeOK, Row
    <2> QED
        BY <2>2, <2>3, <2>4, <2>5, <2>6, <2>7, <2>8 DEF Next, WorkerStep, OperatorStep
<1> QED
    BY <1>1, LedgerInvariant, PTL DEF Spec, SettledStays

-----------------------------------------------------------------------------
(* The book of a message.                                                  *)

\* One more claim may come without a retry, a lease running out or a lost answer.
Open(m) == Flag(row[m].status \in Claimable \cup {"ABSENT"})

Books(m) ==
    /\ taken[m] + Cardinality(Live(m)) + Open(m) <= 1 + overlaps[m] + unheard[m]
    /\ Cardinality(Holders(m)) + Open(m) <= 1 + overlaps[m]
    /\ row[m].attemptCount + Cardinality(Holders(m)) + Open(m)
          <= row[m].maxAttempts + overlaps[m]

HistoryOK ==
    /\ taken \in [Messages -> Nat]
    /\ overlaps \in [Messages -> Nat]
    /\ unheard \in [Messages -> Nat]

AuditInv == LedgerInv /\ HistoryOK /\ \A m \in Messages : Books(m)

-----------------------------------------------------------------------------
\* Counting workers that come and go one at a time.
LEMMA WorkerCount ==
    ASSUME NEW S \in SUBSET Workers, NEW T \in SUBSET Workers, NEW w \in Workers
    PROVE  /\ Cardinality(S) \in Nat
           /\ T \subseteq S => Cardinality(T) <= Cardinality(S)
           /\ T \subseteq S \cup {w} => Cardinality(T) <= Cardinality(S) + 1
           /\ w \in S /\ T \subseteq S \ {w} => Cardinality(T) <= Cardinality(S) - 1
<1>1. IsFiniteSet(S) /\ IsFiniteSet(S \cup {w}) /\ IsFiniteSet(S \ {w})
    BY OutboxAssumption, FS_Subset, FS_AddElement, FS_RemoveElement
<1>2. Cardinality(S) \in Nat
    BY <1>1, FS_CardinalityType
<1>3. T \subseteq S => Cardinality(T) <= Cardinality(S)
    BY <1>1, FS_Subset
<1>4. T \subseteq S \cup {w} => Cardinality(T) <= Cardinality(S) + 1
    <2>1. Cardinality(S \cup {w}) = IF w \in S THEN Cardinality(S) ELSE Cardinality(S) + 1
        BY <1>1, FS_AddElement
    <2>2. T \subseteq S \cup {w} => Cardinality(T) <= Cardinality(S \cup {w})
        BY <1>1, FS_Subset
    <2>3. Cardinality(T) \in Nat
        BY OutboxAssumption, FS_Subset, FS_CardinalityType
    <2> QED
        BY <1>2, <2>1, <2>2, <2>3
<1>5. w \in S /\ T \subseteq S \ {w} => Cardinality(T) <= Cardinality(S) - 1
    <2>1. w \in S => Cardinality(S \ {w}) = Cardinality(S) - 1
        BY <1>1, FS_RemoveElement
    <2>2. T \subseteq S \ {w} => Cardinality(T) <= Cardinality(S \ {w})
        BY <1>1, FS_Subset
    <2> QED
        BY <2>1, <2>2
<1> QED
    BY <1>2, <1>3, <1>4, <1>5

LEMMA BookTypes ==
    ASSUME TypeOK, HistoryOK, NEW m \in Messages
    PROVE  /\ Holders(m) \in SUBSET Workers /\ Live(m) \in SUBSET Workers
           /\ Cardinality(Holders(m)) \in Nat /\ Cardinality(Live(m)) \in Nat
           /\ Open(m) \in 0 .. 1
           /\ taken[m] \in Nat /\ overlaps[m] \in Nat /\ unheard[m] \in Nat
           /\ row[m].attemptCount \in Nat /\ row[m].maxAttempts \in Nat
<1>1. Holders(m) \in SUBSET Workers /\ Live(m) \in SUBSET Workers
    BY DEF Holders, Live
<1>2. Cardinality(Holders(m)) \in Nat /\ Cardinality(Live(m)) \in Nat
    BY <1>1, OutboxAssumption, FS_Subset, FS_CardinalityType
<1> QED
    BY <1>1, <1>2 DEF Open, Flag, HistoryOK, TypeOK, Row

LEMMA BookTypesNext ==
    ASSUME TypeOK', HistoryOK', NEW m \in Messages
    PROVE  /\ Cardinality(Holders(m))' \in Nat /\ Cardinality(Live(m))' \in Nat
           /\ Open(m)' \in 0 .. 1
           /\ taken'[m] \in Nat /\ overlaps'[m] \in Nat /\ unheard'[m] \in Nat
           /\ row'[m].attemptCount \in Nat /\ row'[m].maxAttempts \in Nat
<1>1. Holders(m)' \in SUBSET Workers /\ Live(m)' \in SUBSET Workers
    BY DEF Holders, Live
<1>2. Cardinality(Holders(m)') \in Nat /\ Cardinality(Live(m)') \in Nat
    BY <1>1, OutboxAssumption, FS_Subset, FS_CardinalityType
<1> QED
    BY <1>1, <1>2 DEF Open, Flag, HistoryOK, TypeOK, Row

\* A step that only lets workers go and closes messages keeps the books.
LEMMA BooksShrink ==
    ASSUME TypeOK, TypeOK', HistoryOK, UNCHANGED history,
           NEW m \in Messages, Books(m),
           Holders(m)' \subseteq Holders(m), Live(m)' \subseteq Live(m),
           Open(m)' <= Open(m),
           row'[m].attemptCount = row[m].attemptCount,
           row'[m].maxAttempts = row[m].maxAttempts
    PROVE  Books(m)'
<1>0. HistoryOK'
    BY DEF HistoryOK, history
<1>1. /\ Cardinality(Holders(m)') <= Cardinality(Holders(m))
      /\ Cardinality(Live(m)') <= Cardinality(Live(m))
    <2>1. Holders(m) \in SUBSET Workers /\ Live(m) \in SUBSET Workers
        BY BookTypes
    <2>2. IsFiniteSet(Holders(m)) /\ IsFiniteSet(Live(m))
        BY <2>1, OutboxAssumption, FS_Subset
    <2> QED
        BY <2>2, FS_Subset
<1> QED
    BY <1>0, <1>1, BookTypes, BookTypesNext DEF Books, history

\* A worker that ends its job holds nothing.
LEMMA Released ==
    ASSUME TypeOK, NEW w \in Workers, job' = [job EXCEPT ![w] = Idle], NEW m \in Messages
    PROVE  Holders(m)' = Holders(m) \ {w} /\ Live(m)' = Live(m) \ {w}
<1>1. NoMessage # m
    BY OutboxAssumption
<1>2. job'[w].message = NoMessage
    BY DEF TypeOK, Idle
<1>3. \A v \in Workers \ {w} : job'[v] = job[v]
    BY DEF TypeOK
<1> QED
    BY <1>1, <1>2, <1>3 DEF Holders, Live

\* A status other than PENDING and FAILED_RETRYABLE closes a message that exists.
LEMMA OpenStatus ==
    ASSUME NEW m \in Messages
    PROVE  /\ row[m].status \in Claimable \cup {"ABSENT"} => Open(m) = 1
           /\ row[m].status \notin Claimable \cup {"ABSENT"} => Open(m) = 0
BY DEF Open, Flag

LEMMA ClaimBooks ==
    ASSUME AuditInv, TypeOK', NEW w \in Workers, NEW n \in Messages, AuditClaim(w, n),
           NEW m \in Messages
    PROVE  Books(m)'
<1> USE DEF AuditInv, LedgerInv
<1>0. /\ job[w].stage = "idle" /\ job[w].message = NoMessage /\ NoMessage \notin Messages
      /\ row' = [row EXCEPT ![n].status = "PROCESSING", ![n].age = 0]
      /\ job' = [job EXCEPT ![w].stage = "claimed", ![w].message = n]
      /\ UNCHANGED <<taken, unheard>>
      /\ overlaps' = [overlaps EXCEPT ![n] = IF StaleClaim(n) THEN @ + 1 ELSE @]
    BY OutboxAssumption DEF AuditClaim, ClaimNext, JobOK
<1>1. /\ job'[w].message = n /\ job'[w].stage = "claimed"
      /\ \A v \in Workers \ {w} : job'[v] = job[v]
    BY <1>0 DEF TypeOK, Job
<1>2. HistoryOK'
    BY <1>0 DEF HistoryOK
<1>3. /\ row'[m].attemptCount = row[m].attemptCount
      /\ row'[m].maxAttempts = row[m].maxAttempts
    BY <1>0 DEF TypeOK, Row
<1>4. CASE m # n
    <2>1. Holders(m)' = Holders(m) /\ Live(m)' = Live(m)
        BY <1>0, <1>1, <1>4 DEF Holders, Live
    <2>2. Open(m)' = Open(m)
        BY <1>0, <1>4 DEF Open, TypeOK
    <2>3. taken'[m] = taken[m] /\ unheard'[m] = unheard[m] /\ overlaps'[m] = overlaps[m]
        BY <1>0, <1>4 DEF HistoryOK
    <2> QED
        BY <1>3, <2>1, <2>2, <2>3 DEF Books
<1>5. CASE m = n
    <2>1. Holders(m)' \subseteq Holders(m) \cup {w} /\ Live(m)' \subseteq Live(m) \cup {w}
        BY <1>1, <1>5 DEF Holders, Live
    <2>2. /\ Cardinality(Holders(m))' <= Cardinality(Holders(m)) + 1
          /\ Cardinality(Live(m))' <= Cardinality(Live(m)) + 1
        <3>1. Holders(m)' \in SUBSET Workers /\ Live(m)' \in SUBSET Workers
            BY DEF Holders, Live
        <3> QED
            BY <2>1, <3>1, BookTypes, WorkerCount
    <2>3. Open(m)' = 0
        <3>1. row'[m].status = "PROCESSING"
            BY <1>0, <1>5 DEF TypeOK, Row
        <3> QED
            BY <3>1 DEF Open, Flag, Claimable
    <2>4. CASE StaleClaim(n)
        <3>1. overlaps'[m] = overlaps[m] + 1 /\ taken'[m] = taken[m] /\ unheard'[m] = unheard[m]
            BY <1>0, <1>5, <2>4 DEF HistoryOK
        <3>2. Open(m) = 0
            BY <1>5, <2>4 DEF StaleClaim, Open, Flag, Claimable
        <3> QED
            BY <1>2, <1>3, <2>2, <2>3, <3>1, <3>2, BookTypes, BookTypesNext DEF Books
    <2>5. CASE ~StaleClaim(n)
        <3>1. overlaps'[m] = overlaps[m] /\ taken'[m] = taken[m] /\ unheard'[m] = unheard[m]
            BY <1>0, <1>5, <2>5 DEF HistoryOK
        <3>2. row[n].status \in Claimable
            BY <2>5 DEF AuditClaim, ClaimNext, Due
        <3>3. Open(m) = 1
            BY <1>5, <3>2, OpenStatus
        <3> QED
            BY <1>2, <1>3, <2>2, <2>3, <3>1, <3>3, BookTypes, BookTypesNext DEF Books
    <2> QED
        BY <2>4, <2>5
<1> QED
    BY <1>4, <1>5

LEMMA DeliverBooks ==
    ASSUME AuditInv, TypeOK', NEW w \in Workers, NEW reply \in Answers,
           AuditDeliver(w, reply), NEW m \in Messages
    PROVE  Books(m)' /\ HistoryOK'
<1> USE DEF AuditInv, LedgerInv
<1> DEFINE n == job[w].message
<1>0. /\ job[w].stage = "sending" /\ row' = row /\ overlaps' = overlaps
      /\ job' = [job EXCEPT ![w].stage = "sent", ![w].answer = reply]
      /\ n \in Messages
    BY DEF AuditDeliver, Deliver, JobOK, TypeOK, Job
<1>1. /\ job'[w].message = n /\ job'[w].stage = "sent" /\ job'[w].answer = reply
      /\ \A v \in Workers \ {w} : job'[v] = job[v]
    BY <1>0 DEF TypeOK, Job
<1>2. \/ taken' = taken /\ unheard' = unheard
      \/ /\ reply \in {"DELIVERED", "RETRYABLE"}
         /\ taken' = [taken EXCEPT ![n] = taken[n] + 1]
         /\ unheard' = IF reply = "RETRYABLE" THEN [unheard EXCEPT ![n] = unheard[n] + 1]
                                              ELSE unheard
    <2>1. PICK accepted \in CASE reply = "DELIVERED" -> {TRUE}
                              [] reply = "RETRYABLE" -> BOOLEAN
                              [] OTHER -> {FALSE} :
            /\ taken' = [taken EXCEPT ![n] = IF accepted THEN @ + 1 ELSE @]
            /\ unheard' = [unheard EXCEPT ![n] =
                             IF accepted /\ reply = "RETRYABLE" THEN @ + 1 ELSE @]
        BY DEF AuditDeliver
    <2>2. CASE accepted
        BY <2>1, <2>2, <1>0 DEF HistoryOK
    <2>3. CASE ~accepted
        BY <2>1, <2>3, <1>0 DEF HistoryOK
    <2> QED
        BY <2>1, <2>2, <2>3
<1>3. HistoryOK'
    BY <1>0, <1>2 DEF HistoryOK
<1>4. Holders(m)' = Holders(m) /\ Open(m)' = Open(m)
    BY <1>0, <1>1, OutboxAssumption DEF Holders, Open
<1>5. Live(m)' \subseteq Live(m)
    BY <1>0, <1>1 DEF Holders, Live
<1>8. Live(m) \in SUBSET Workers /\ Live(m)' \in SUBSET Workers
    BY DEF Live, Holders
<1>9. Cardinality(Live(m))' <= Cardinality(Live(m))
    BY <1>5, <1>8, WorkerCount
<1>10. reply = "DELIVERED" /\ m = n => Cardinality(Live(m))' <= Cardinality(Live(m)) - 1
    <2> SUFFICES ASSUME reply = "DELIVERED", m = n
                 PROVE  Cardinality(Live(m))' <= Cardinality(Live(m)) - 1
        OBVIOUS
    <2>1. w \in Live(m) /\ Live(m)' \subseteq Live(m) \ {w}
        BY <1>0, <1>1 DEF Live, Holders
    <2> QED
        BY <2>1, <1>8, WorkerCount
<1>11. taken'[m] - unheard'[m] <=
         taken[m] - unheard[m] + (IF m = n /\ reply = "DELIVERED" THEN 1 ELSE 0)
    BY <1>2, <1>0 DEF HistoryOK
<1> QED
    BY <1>0, <1>3, <1>4, <1>9, <1>10, <1>11, BookTypes, BookTypesNext DEF Books

\* A delivery that raises may have been taken, and lets its worker go.
LEMMA RaisesBooks ==
    ASSUME AuditInv, TypeOK', NEW w \in Workers, AuditRaises(w), NEW m \in Messages
    PROVE  Books(m)' /\ HistoryOK'
<1> USE DEF AuditInv, LedgerInv
<1> DEFINE n == job[w].message
<1>0. /\ job[w].stage = "sending" /\ row' = row /\ n \in Messages
      /\ overlaps' = overlaps /\ unheard' = unheard
      /\ job' = [job EXCEPT ![w] = Idle]
    BY DEF AuditRaises, DeliverRaises, JobOK, TypeOK, Job
<1>1. taken' = taken \/ taken' = [taken EXCEPT ![n] = taken[n] + 1]
    <2>1. PICK accepted \in BOOLEAN :
            taken' = [taken EXCEPT ![n] = IF accepted THEN @ + 1 ELSE @]
        BY DEF AuditRaises
    <2> QED
        BY <2>1, <1>0 DEF HistoryOK
<1>2. HistoryOK'
    BY <1>0, <1>1 DEF HistoryOK
<1>3. Holders(m)' = Holders(m) \ {w} /\ Live(m)' = Live(m) \ {w}
    BY <1>0, Released
<1>4. /\ Cardinality(Holders(m))' <= Cardinality(Holders(m))
      /\ Cardinality(Live(m))' <= Cardinality(Live(m))
    BY <1>3, BookTypes, WorkerCount
<1>5. m = n => Cardinality(Live(m))' <= Cardinality(Live(m)) - 1
    <2>1. m = n => w \in Live(m)
        BY <1>0 DEF Live, Holders
    <2> QED
        BY <1>3, <2>1, BookTypes, WorkerCount
<1>6. taken'[m] <= taken[m] + (IF m = n THEN 1 ELSE 0)
    BY <1>0, <1>1 DEF HistoryOK
<1>7. Open(m)' = Open(m)
    BY <1>0 DEF Open
<1> QED
    BY <1>0, <1>2, <1>4, <1>5, <1>6, <1>7, BookTypes, BookTypesNext DEF Books

LEMMA RetryBooks ==
    ASSUME AuditInv, TypeOK', NEW n \in Messages, AuditRetry(n), NEW m \in Messages
    PROVE  Books(m)' /\ HistoryOK'
<1> USE DEF AuditInv, LedgerInv
<1>0. /\ job' = job /\ taken' = taken /\ unheard' = unheard
      /\ overlaps' = [overlaps EXCEPT ![n] = overlaps[n] + 1]
    BY DEF AuditRetry, ManualRetry
<1>1. HistoryOK'
    BY <1>0 DEF HistoryOK
<1>2. Holders(m)' = Holders(m) /\ Live(m)' = Live(m)
    BY <1>0 DEF Holders, Live
<1>3. /\ \A k \in Messages \ {n} : row'[k] = row[k]
      /\ row'[n].attemptCount = row[n].attemptCount
      /\ row'[n].maxAttempts = Greater(row[n].maxAttempts, row[n].attemptCount + 1)
    BY DEF AuditRetry, ManualRetry, TypeOK, Row
<1>4. CASE m # n
    <2>1. Open(m)' = Open(m) /\ overlaps'[m] = overlaps[m]
        BY <1>0, <1>3, <1>4 DEF Open, HistoryOK
    <2> QED
        <3>1. /\ row'[m].attemptCount = row[m].attemptCount
              /\ row'[m].maxAttempts = row[m].maxAttempts
              /\ taken'[m] = taken[m] /\ unheard'[m] = unheard[m]
            BY <1>0, <1>3, <1>4
        <3> QED
            BY <1>1, <1>2, <2>1, <3>1, BookTypes, BookTypesNext DEF Books
<1>5. CASE m = n
    <2>1. overlaps'[m] = overlaps[m] + 1
        BY <1>0, <1>5 DEF HistoryOK
    <2>2. row[m].attemptCount \in Nat /\ row[m].maxAttempts \in Nat
        BY BookTypes
    <2>3. row'[m].maxAttempts >= row[m].attemptCount + 1
        BY <1>3, <1>5, <2>2 DEF Greater
    <2> QED
        BY <1>0, <1>1, <1>2, <1>3, <1>5, <2>1, <2>3, BookTypes, BookTypesNext DEF Books
<1> QED
    BY <1>1, <1>4, <1>5

\* The result of a delivery: one attempt more and one worker less, and a retry
\* is scheduled only while it stays within the budget the worker read.
LEMMA RecordBooks ==
    ASSUME AuditInv, TypeOK', NEW w \in Workers, NEW delay \in RetryDelays,
           RecordAttempt(w, delay), UNCHANGED history, NEW m \in Messages
    PROVE  Books(m)'
<1> USE DEF AuditInv, LedgerInv
<1> DEFINE j == job[w]
           n == job[w].message
<1>0. /\ n \in Messages /\ j \in Job /\ j.stage = "sent" /\ row[n] \in Row
      /\ job' = [job EXCEPT ![w] = Idle]
      /\ row' = [row EXCEPT ![n] = Concluded(row[n], j, delay)]
    BY DEF RecordAttempt, JobOK, TypeOK, Job
<1>1. HistoryOK'
    BY DEF HistoryOK, history
<1>2. Holders(m)' = Holders(m) \ {w} /\ Live(m)' = Live(m) \ {w}
    BY <1>0, Released
<1>3. CASE m # n
    <2>1. row'[m] = row[m]
        BY <1>0, <1>3 DEF TypeOK
    <2>2. Open(m)' = Open(m)
        BY <2>1 DEF Open
    <2>3. Open(m)' <= Open(m)
        BY <2>2, BookTypes
    <2> QED
        BY <1>2, <2>1, <2>3, BooksShrink
<1>4. CASE m = n
    <2>1. /\ row'[m].attemptCount = j.count + 1
          /\ row'[m].maxAttempts = row[m].maxAttempts
        BY <1>0, <1>4, ConcludedType DEF TypeOK
    <2>2. j.count = row[m].attemptCount
        <3>1. j.count <= row[m].attemptCount /\ j.count \in Nat /\ row[m].attemptCount \in Nat
            BY <1>0, <1>4 DEF JobOK, Job, Row
        <3>2. j.count + 1 \notin {a.number : a \in attempts[m]}
            BY <1>4 DEF RecordAttempt, Recorded
        <3>3. j.count + 1 \notin 1 .. row[m].attemptCount
            BY <3>2 DEF LedgerGapless
        <3> QED
            BY <3>1, <3>3
    <2>3. j.max <= row[m].maxAttempts /\ j.max \in Nat
        BY <1>0, <1>4 DEF JobOK, Job
    <2>4. w \in Holders(m)
        BY <1>4 DEF Holders
    <2>5. Cardinality(Holders(m))' <= Cardinality(Holders(m)) - 1
        BY <1>2, <2>4, BookTypes, WorkerCount
    <2>6. Cardinality(Live(m))' <= Cardinality(Live(m))
        BY <1>2, BookTypes, WorkerCount
    <2>7. taken' = taken /\ overlaps' = overlaps /\ unheard' = unheard
        BY DEF history
    <2>8. row'[m].status = IF Verdict(j) = j.seen THEN row[m].status ELSE Verdict(j)
        BY <1>0, <1>4 DEF Concluded, TypeOK, Row
    <2>9. CASE Verdict(j) = "FAILED_RETRYABLE"
        <3>1. j.answer = "RETRYABLE" /\ j.count + 1 < j.max
            BY <2>9 DEF Verdict
        <3>2. w \in Live(m)
            BY <2>4, <3>1 DEF Live
        <3>3. Cardinality(Live(m))' <= Cardinality(Live(m)) - 1
            BY <1>2, <3>2, BookTypes, WorkerCount
        <3> QED
            BY <1>1, <2>1, <2>2, <2>3, <2>5, <2>7, <3>1, <3>3, BookTypes, BookTypesNext
               DEF Books
    <2>10. CASE Verdict(j) # "FAILED_RETRYABLE"
        <3>1. Verdict(j) \notin Claimable \cup {"ABSENT"}
            BY <2>10 DEF Verdict, Claimable
        <3>2. Open(m)' <= Open(m)
            BY <2>8, <3>1 DEF Open, Flag
        <3> QED
            BY <1>1, <2>1, <2>2, <2>5, <2>6, <2>7, <3>2, BookTypes, BookTypesNext DEF Books
    <2> QED
        BY <2>9, <2>10
<1> QED
    BY <1>3, <1>4

LEMMA SilentBooks ==
    ASSUME AuditInv, TypeOK', SilentStep, NEW m \in Messages
    PROVE  Books(m)'
<1> USE DEF AuditInv, LedgerInv
<1>0. UNCHANGED history
    BY DEF SilentStep
<1>1. ASSUME Holders(m)' \subseteq Holders(m), Live(m)' \subseteq Live(m),
             Open(m)' <= Open(m),
             row'[m].attemptCount = row[m].attemptCount,
             row'[m].maxAttempts = row[m].maxAttempts
      PROVE  Books(m)'
    BY <1>0, <1>1, BooksShrink
<1>3. Open(m) \in 0 .. 1
    BY BookTypes
<1>4. row'[m].status = row[m].status => Open(m)' <= Open(m)
    BY <1>3 DEF Open
<1>5. row'[m].status \notin Claimable \cup {"ABSENT"} => Open(m)' <= Open(m)
    BY <1>3 DEF Open, Flag
<1>6. job' = job => Holders(m)' \subseteq Holders(m) /\ Live(m)' \subseteq Live(m)
    BY DEF Holders, Live
<1>7. ASSUME NEW n \in Messages, CreateOutbox(n) PROVE Books(m)'
    <2>1. /\ job' = job /\ row'[m].attemptCount = row[m].attemptCount
          /\ row'[m].maxAttempts = row[m].maxAttempts
        BY <1>7 DEF CreateOutbox, TypeOK, Row
    <2>2. m # n => row'[m].status = row[m].status
        BY <1>7 DEF CreateOutbox, TypeOK
    <2>3. m = n => Open(m)' <= Open(m)
        BY <1>7 DEF CreateOutbox, Open, Flag
    <2> QED
        BY <1>1, <1>4, <1>6, <2>1, <2>2, <2>3
<1>8. ASSUME NEW n \in Messages, Cancel(n) PROVE Books(m)'
    <2>1. /\ job' = job /\ row'[m].attemptCount = row[m].attemptCount
          /\ row'[m].maxAttempts = row[m].maxAttempts
        BY <1>8 DEF Cancel, TypeOK, Row
    <2>2. row'[m].status = row[m].status \/ row'[m].status = "CANCELLED"
        BY <1>8 DEF Cancel, TypeOK, Row
    <2> QED
        BY <1>1, <1>4, <1>5, <1>6, <2>1, <2>2 DEF Claimable
<1>9. ASSUME NEW d \in Destinations, SwitchDestination(d) PROVE Books(m)'
    <2>1. row' = row /\ job' = job
        BY <1>9 DEF SwitchDestination
    <2> QED
        BY <1>1, <1>4, <1>6, <2>1
<1>10. ASSUME NEW w \in Workers, Suppress(w) PROVE Books(m)'
    <2>1. /\ row'[m].attemptCount = row[m].attemptCount
          /\ row'[m].maxAttempts = row[m].maxAttempts
        BY <1>10 DEF Suppress, TypeOK, Row
    <2>2. row'[m].status = row[m].status \/ row'[m].status = "SUPPRESSED"
        BY <1>10 DEF Suppress, TypeOK, Row
    <2>3. Holders(m)' = Holders(m) \ {w} /\ Live(m)' = Live(m) \ {w}
        BY <1>10, Released DEF Suppress
    <2> QED
        BY <1>1, <1>4, <1>5, <2>1, <2>2, <2>3 DEF Claimable
<1>11. ASSUME NEW w \in Workers, BeginDelivery(w) PROVE Books(m)'
    <2>1. row' = row
        BY <1>11 DEF BeginDelivery
    <2>2. /\ job[w].stage = "claimed" /\ job'[w].message = job[w].message
          /\ \A v \in Workers \ {w} : job'[v] = job[v]
        BY <1>11 DEF BeginDelivery, TypeOK, Job
    <2>3. Holders(m)' \subseteq Holders(m) /\ Live(m)' \subseteq Live(m)
        BY <2>2 DEF Holders, Live
    <2> QED
        BY <1>1, <1>4, <2>1, <2>3
<1>12. ASSUME NEW w \in Workers, RecordAttemptFails(w) \/ Crash(w)
       PROVE  Books(m)'
    <2>1. row' = row /\ job' = [job EXCEPT ![w] = Idle]
        BY <1>12 DEF RecordAttemptFails, Crash
    <2>2. Holders(m)' = Holders(m) \ {w} /\ Live(m)' = Live(m) \ {w}
        BY <2>1, Released
    <2> QED
        BY <1>1, <1>4, <2>1, <2>2
<1>13. ASSUME NEW w \in Workers, NEW delay \in RetryDelays, RecordAttempt(w, delay)
       PROVE  Books(m)'
    BY <1>0, <1>13, RecordBooks
<1>14. CASE Tick
    <2>1. /\ row'[m].attemptCount = row[m].attemptCount
          /\ row'[m].maxAttempts = row[m].maxAttempts
          /\ row'[m].status = row[m].status
        BY <1>14 DEF Tick, TypeOK, Row
    <2>2. \A v \in Workers : /\ job'[v].message = job[v].message
                             /\ job'[v].stage = job[v].stage
                             /\ job'[v].answer = job[v].answer
        BY <1>14 DEF Tick, TypeOK, Job
    <2>3. Holders(m)' \subseteq Holders(m) /\ Live(m)' \subseteq Live(m)
        BY <2>2 DEF Holders, Live
    <2> QED
        BY <1>1, <1>4, <2>1, <2>3
<1> QED
    BY <1>7, <1>8, <1>9, <1>10, <1>11, <1>12, <1>13, <1>14 DEF SilentStep

-----------------------------------------------------------------------------
\* Every step of the audited outbox is a step of the outbox.
LEMMA AuditIsOutbox == [AuditNext]_auditVars => [Next]_vars
BY DEF AuditNext, AuditClaim, AuditDeliver, AuditRaises, AuditRetry, SilentStep, auditVars, Next,
       WorkerStep, OperatorStep

LEMMA AuditInitial == AuditInit => AuditInv
<1> SUFFICES ASSUME AuditInit PROVE AuditInv
    OBVIOUS
<1>1. LedgerInv
    BY TypeInit DEF AuditInit, Init, LedgerInv, LedgerGapless
<1>2. HistoryOK
    BY DEF AuditInit, HistoryOK
<1>3. ASSUME NEW m \in Messages PROVE Books(m)
    <2>1. Holders(m) = {} /\ Live(m) = {}
        BY OutboxAssumption DEF AuditInit, Init, Idle, Holders, Live
    <2>2. Cardinality(Holders(m)) = 0 /\ Cardinality(Live(m)) = 0
        BY <2>1, FS_EmptySet
    <2>3. row[m].attemptCount = 0 /\ row[m].maxAttempts = MaxAttempts /\ Open(m) = 1
        BY OpenStatus DEF AuditInit, Init
    <2>4. taken[m] = 0 /\ overlaps[m] = 0 /\ unheard[m] = 0
        BY DEF AuditInit
    <2> QED
        BY <2>2, <2>3, <2>4, OutboxAssumption DEF Books
<1> QED
    BY <1>1, <1>2, <1>3 DEF AuditInv

LEMMA AuditStep == AuditInv /\ [AuditNext]_auditVars => AuditInv'
<1> SUFFICES ASSUME AuditInv, [AuditNext]_auditVars PROVE AuditInv'
    OBVIOUS
<1>1. LedgerInv'
    BY AuditIsOutbox, TypeStep, LedgerStep DEF AuditInv, LedgerInv
<1>2. TypeOK'
    BY <1>1 DEF LedgerInv
<1>3. ASSUME NEW w \in Workers, NEW n \in Messages, AuditClaim(w, n)
      PROVE  HistoryOK' /\ \A m \in Messages : Books(m)'
    <2>1. HistoryOK'
        BY <1>3 DEF AuditClaim, AuditInv, HistoryOK
    <2> QED
        BY <1>2, <1>3, <2>1, ClaimBooks
<1>4. ASSUME NEW w \in Workers, NEW reply \in Answers, AuditDeliver(w, reply)
      PROVE  HistoryOK' /\ \A m \in Messages : Books(m)'
    <2>1. \A m \in Messages : Books(m)' /\ HistoryOK'
        BY <1>2, <1>4, DeliverBooks
    <2>2. job[w].message \in Messages
        BY <1>4, OutboxAssumption
           DEF AuditDeliver, Deliver, AuditInv, LedgerInv, TypeOK, JobOK, Job
    <2> QED
        BY <2>1, <2>2
<1>5. ASSUME NEW n \in Messages, AuditRetry(n)
      PROVE  HistoryOK' /\ \A m \in Messages : Books(m)'
    BY <1>2, <1>5, RetryBooks
<1>6. CASE SilentStep
    <2>1. HistoryOK'
        BY <1>6 DEF SilentStep, history, AuditInv, HistoryOK
    <2> QED
        BY <1>1, <1>2, <1>6, <2>1, SilentBooks DEF AuditInv
<1>7. CASE UNCHANGED auditVars
    BY <1>1, <1>7 DEF auditVars, vars, history, AuditInv, HistoryOK, Books, Holders, Live, Open
<1>8. ASSUME NEW w \in Workers, AuditRaises(w)
      PROVE  HistoryOK' /\ \A m \in Messages : Books(m)'
    <2>1. \A m \in Messages : Books(m)' /\ HistoryOK'
        BY <1>2, <1>8, RaisesBooks
    <2>2. job[w].message \in Messages
        BY <1>8, OutboxAssumption
           DEF AuditRaises, DeliverRaises, AuditInv, LedgerInv, TypeOK, JobOK, Job
    <2> QED
        BY <2>1, <2>2
<1> QED
    BY <1>1, <1>3, <1>4, <1>5, <1>6, <1>7, <1>8 DEF AuditNext, AuditInv

LEMMA AuditInvariant == AuditSpec => []AuditInv
BY AuditInitial, AuditStep, PTL DEF AuditSpec

\* process_next sends without a lock and claim_next takes over what looks
\* stale: duplicates are counted by the retries, overtaken claims and lost
\* answers that caused them, with any number of workers and crashes.
THEOREM AuditDeliveriesBounded == AuditSpec => []DeliveriesBounded
<1>1. AuditInv => DeliveriesBounded
    <2> SUFFICES ASSUME AuditInv, NEW m \in Messages
                 PROVE  taken[m] <= 1 + overlaps[m] + unheard[m]
        BY DEF DeliveriesBounded
    <2> QED
        BY BookTypes DEF AuditInv, LedgerInv, Books
<1> QED
    BY <1>1, AuditInvariant, PTL

\* process_next compares the count it read with the budget it read: attempt_count
\* can pass max_attempts only once for each overlapping claim.
THEOREM AuditAttemptsBounded == AuditSpec => []AttemptsBounded
<1>1. AuditInv => AttemptsBounded
    <2> SUFFICES ASSUME AuditInv, NEW m \in Messages
                 PROVE  row[m].attemptCount <= row[m].maxAttempts + overlaps[m]
        BY DEF AttemptsBounded
    <2> QED
        BY BookTypes DEF AuditInv, LedgerInv, Books
<1> QED
    BY <1>1, AuditInvariant, PTL

-----------------------------------------------------------------------------
(* The status of a message and the ledger behind it.                       *)

Sending == {"sending", "sent"}
Delivered == {"DELIVERED", "DRY_RUN"}

\* A result that is written over a message waiting for a retry is of a worker that read it
\* waiting, unless an attempt was recorded in between.
SeenOK ==
    \A w \in Workers :
        (/\ job[w].stage \in Sending /\ row[job[w].message].status = "FAILED_RETRYABLE"
         /\ job[w].count = row[job[w].message].attemptCount) => job[w].seen = "FAILED_RETRYABLE"

BackedInv == LedgerInv /\ LedgerBacksStatus /\ SeenOK

\* A step that records no attempt gives no message a status that needs one, and what a
\* worker holds it has held before, or has just read.
LEMMA UnrecordedKeepsBacked ==
    ASSUME BackedInv, UNCHANGED attempts,
           \A m \in Messages :
              /\ row'[m].attemptCount = row[m].attemptCount
              /\ \/ row'[m].status = row[m].status
                 \/ row'[m].status \notin Delivered \cup {"FAILED_RETRYABLE"},
           \A w \in Workers : job'[w].stage \in Sending =>
              /\ job'[w].message \in Messages
              /\ \/ /\ job[w].stage \in Sending /\ job'[w].message = job[w].message
                    /\ job'[w].count = job[w].count /\ job'[w].seen = job[w].seen
                 \/ job'[w].seen = row'[job'[w].message].status
    PROVE  LedgerBacksStatus' /\ SeenOK'
<1>1. LedgerBacksStatus'
    BY DEF BackedInv, LedgerBacksStatus, Delivered
<1>2. SeenOK'
    <2> SUFFICES ASSUME NEW w \in Workers, job'[w].stage \in Sending,
                        row'[job'[w].message].status = "FAILED_RETRYABLE",
                        job'[w].count = row'[job'[w].message].attemptCount
                 PROVE  job'[w].seen = "FAILED_RETRYABLE"
        BY DEF SeenOK
    <2>1. PICK m \in Messages : m = job'[w].message
        OBVIOUS
    <2>2. row[m].status = "FAILED_RETRYABLE" /\ row'[m].attemptCount = row[m].attemptCount
        BY <2>1 DEF Delivered
    <2> QED
        BY <2>1, <2>2 DEF BackedInv, SeenOK
<1> QED
    BY <1>1, <1>2

\* The attempt that is recorded is the next one, and backs the status it gives.
LEMMA RecordKeepsBacked ==
    ASSUME BackedInv, NEW w \in Workers, NEW delay \in RetryDelays, RecordAttempt(w, delay)
    PROVE  LedgerBacksStatus' /\ SeenOK'
<1>1. PICK j \in Job, m \in Messages, r \in Row : j = job[w] /\ m = j.message /\ r = row[m]
    BY DEF RecordAttempt, BackedInv, LedgerInv, TypeOK, JobOK, Job
<1>2. PICK next \in Row : next = Concluded(r, j, delay)
    BY ConcludedType
<1>3. /\ row' = [row EXCEPT ![m] = next]
      /\ attempts' = [attempts EXCEPT ![m] = attempts[m] \cup {[number |-> j.count + 1, status |-> j.answer]}]
      /\ job' = [job EXCEPT ![w] = Idle]
      /\ j.stage = "sent" /\ ~Recorded(m, j.count + 1)
    BY <1>1, <1>2 DEF RecordAttempt
<1>4. next.attemptCount = j.count + 1
    BY <1>2, ConcludedType
<1>5. next.status = IF Verdict(j) = j.seen THEN r.status ELSE Verdict(j)
    <2> DEFINE st == IF Verdict(j) = j.seen THEN r.status ELSE Verdict(j)
               wt == IF Verdict(j) = "FAILED_RETRYABLE" THEN Monus(delay, j.elapsed) ELSE r.wait
               da == IF Verdict(j) \in {"DELIVERED", "DRY_RUN"}
                       THEN Lesser(j.elapsed, DeliveredCap) ELSE r.deliveredAge
               ag == Lesser(j.elapsed, AgeCap)
               n == j.count + 1
    <2>1. next = [r EXCEPT !.attemptCount = n, !.status = st, !.age = ag, !.wait = wt,
                           !.deliveredAge = da]
        BY <1>2 DEF Concluded
    <2> HIDE DEF st, wt, da, ag, n
    <2>2. next.status = st
        BY <2>1 DEF Row
    <2> QED
        BY <2>2 DEF st
<1>6. j.count = r.attemptCount
    <2>1. j.count <= r.attemptCount /\ j.count \in Nat /\ r.attemptCount \in Nat
        BY <1>1, <1>3 DEF BackedInv, LedgerInv, JobOK, Job, Row
    <2>2. j.count + 1 \notin 1 .. r.attemptCount
        BY <1>1, <1>3 DEF BackedInv, LedgerInv, LedgerGapless, Recorded
    <2> QED
        BY <2>1, <2>2
<1>7. /\ DOMAIN row' = Messages /\ row'[m] = next
      /\ \A n \in Messages \ {m} : row'[n] = row[n] /\ attempts'[n] = attempts[n]
      /\ attempts'[m] = attempts[m] \cup {[number |-> j.count + 1, status |-> j.answer]}
      /\ job'[w] = Idle /\ \A v \in Workers \ {w} : job'[v] = job[v]
    BY <1>3 DEF BackedInv, LedgerInv, TypeOK
<1>0. PICK a : a = [number |-> j.count + 1, status |-> j.answer]
    OBVIOUS
<1>8. a = [number |-> j.count + 1, status |-> j.answer] /\ a.status = j.answer
    BY <1>0
<1>9. /\ next.status \in Delivered => \E b \in attempts'[m] : b.status = next.status
      /\ next.status = "FAILED_RETRYABLE" => a \in attempts'[m] /\ a.status = "RETRYABLE"
    <2>1. CASE Verdict(j) # j.seen
        BY <1>5, <1>7, <1>8, <2>1 DEF Verdict, Delivered
    <2>2. CASE Verdict(j) = j.seen
        <3>1. next.status = r.status
            BY <1>5, <2>2
        <3>2. next.status \in Delivered => \E b \in attempts[m] : b.status = next.status
            BY <1>1, <3>1 DEF BackedInv, LedgerBacksStatus, Delivered
        <3>3. next.status = "FAILED_RETRYABLE" => Verdict(j) = "FAILED_RETRYABLE"
            BY <1>1, <1>3, <1>6, <2>2, <3>1 DEF BackedInv, SeenOK, Sending
        <3> QED
            BY <1>7, <1>8, <3>2, <3>3 DEF Verdict
    <2> QED
        BY <2>1, <2>2
<1>10. LedgerBacksStatus'
    <2> SUFFICES ASSUME NEW n \in Messages
                 PROVE  /\ row'[n].status \in Delivered =>
                             \E b \in attempts'[n] : b.status = row'[n].status
                        /\ row'[n].status = "FAILED_RETRYABLE" =>
                             [number |-> row'[n].attemptCount, status |-> "RETRYABLE"] \in attempts'[n]
        BY DEF LedgerBacksStatus, Delivered
    <2>1. CASE n = m
        BY <1>4, <1>7, <1>8, <1>9, <2>1
    <2>2. CASE n # m
        BY <1>7, <2>2 DEF BackedInv, LedgerBacksStatus, Delivered
    <2> QED
        BY <2>1, <2>2
<1>11. SeenOK'
    <2> SUFFICES ASSUME NEW v \in Workers, job'[v].stage \in Sending,
                        row'[job'[v].message].status = "FAILED_RETRYABLE",
                        job'[v].count = row'[job'[v].message].attemptCount
                 PROVE  job'[v].seen = "FAILED_RETRYABLE"
        BY DEF SeenOK
    <2>1. v # w /\ job'[v] = job[v]
        BY <1>7 DEF Idle, Sending
    <2>2. job[v].message \in Messages /\ job[v].count <= row[job[v].message].attemptCount
        BY <2>1 DEF BackedInv, LedgerInv, TypeOK, JobOK, Job, Sending
    <2>3. job[v].message # m
        <3>1. job[v].count \in Nat /\ r.attemptCount \in Nat
            BY DEF BackedInv, LedgerInv, TypeOK, Job, Row
        <3> QED
            BY <1>1, <1>4, <1>6, <1>7, <2>1, <2>2, <3>1
    <2> QED
        BY <1>7, <2>1, <2>2, <2>3 DEF BackedInv, SeenOK
<1> QED
    BY <1>10, <1>11

LEMMA BackedStep == BackedInv /\ [Next]_vars => BackedInv'
<1> SUFFICES ASSUME BackedInv, [Next]_vars PROVE LedgerBacksStatus' /\ SeenOK'
    BY TypeStep, LedgerStep DEF BackedInv, LedgerInv
<1>a. /\ row \in [Messages -> Row] /\ job \in [Workers -> Job]
      /\ \A v \in Workers : job[v].stage # "idle" => job[v].message \in Messages
    BY DEF BackedInv, LedgerInv, TypeOK, JobOK, Job
<1>1. ASSUME NEW m \in Messages, CreateOutbox(m) \/ ManualRetry(m) \/ Cancel(m)
      PROVE  LedgerBacksStatus' /\ SeenOK'
    <2>1. UNCHANGED <<attempts, job>>
        BY <1>1 DEF CreateOutbox, ManualRetry, Cancel
    <2>2. \A n \in Messages : /\ row'[n].attemptCount = row[n].attemptCount
                              /\ \/ row'[n].status = row[n].status
                                 \/ row'[n].status \in {"PENDING", "CANCELLED"}
        <3>1. CASE CreateOutbox(m)
            <4>1. PICK quiet : row' = [row EXCEPT ![m].status = "PENDING", ![m].wait = quiet,
                                                  ![m].age = 0]
                BY <3>1 DEF CreateOutbox
            <4> QED
                BY <1>a, <4>1 DEF Row
        <3>3. CASE Cancel(m)
            BY <3>3, <1>a DEF Cancel, Row
        <3>2. CASE ManualRetry(m)
            <4>1. PICK budget : budget = Greater(row[m].maxAttempts, row[m].attemptCount + 1)
                OBVIOUS
            <4>2. row' = [row EXCEPT ![m] = [row[m] EXCEPT !.status = "PENDING", !.wait = 0, !.age = 0,
                                                           !.maxAttempts = budget]]
                BY <3>2, <4>1 DEF ManualRetry
            <4> QED
                BY <1>a, <4>2 DEF Row
        <3> QED
            BY <1>1, <3>1, <3>2, <3>3
    <2> QED
        BY <1>a, <2>1, <2>2, UnrecordedKeepsBacked DEF Delivered, Sending
<1>2. ASSUME NEW w \in Workers, NEW m \in Messages, ClaimNext(w, m)
      PROVE  LedgerBacksStatus' /\ SeenOK'
    <2>1. /\ UNCHANGED attempts
          /\ \A n \in Messages : /\ row'[n].attemptCount = row[n].attemptCount
                                 /\ row'[n].status = row[n].status \/ row'[n].status = "PROCESSING"
          /\ job'[w].stage = "claimed" /\ \A v \in Workers \ {w} : job'[v] = job[v]
        BY <1>2, <1>a DEF ClaimNext, Row, Job
    <2> QED
        BY <1>a, <2>1, UnrecordedKeepsBacked DEF Delivered, Sending
<1>3. ASSUME NEW w \in Workers,
             Suppress(w) \/ DeliverRaises(w) \/ RecordAttemptFails(w) \/ Crash(w)
      PROVE  LedgerBacksStatus' /\ SeenOK'
    <2>1. /\ UNCHANGED attempts
          /\ \A n \in Messages : /\ row'[n].attemptCount = row[n].attemptCount
                                 /\ row'[n].status = row[n].status \/ row'[n].status = "SUPPRESSED"
          /\ job'[w].stage = "idle" /\ \A v \in Workers \ {w} : job'[v] = job[v]
        BY <1>3, <1>a DEF Suppress, DeliverRaises, RecordAttemptFails, Crash, Row, Idle
    <2> QED
        BY <1>a, <2>1, UnrecordedKeepsBacked DEF Delivered, Sending
<1>4. ASSUME NEW w \in Workers, BeginDelivery(w) PROVE LedgerBacksStatus' /\ SeenOK'
    <2>1. PICK m \in Messages : m = job[w].message
        BY <1>4, <1>a DEF BeginDelivery
    <2>2. PICK old \in Job, r \in Row : old = job[w] /\ r = row[m]
        BY <1>a
    <2>3. PICK new : new = [old EXCEPT !.stage = "sending", !.elapsed = 0, !.seen = r.status,
                                       !.count = r.attemptCount, !.max = r.maxAttempts]
        OBVIOUS
    <2>4. new.message = m /\ new.seen = r.status
        BY <2>1, <2>2, <2>3 DEF Job
    <2>5. job' = [job EXCEPT ![w] = new] /\ UNCHANGED <<row, attempts>>
        BY <1>4, <2>1, <2>2, <2>3 DEF BeginDelivery
    <2>6. /\ job'[w].message = m /\ job'[w].seen = row'[m].status
          /\ \A v \in Workers \ {w} : job'[v] = job[v]
        BY <1>a, <2>2, <2>4, <2>5
    <2> QED
        BY <1>a, <2>5, <2>6, UnrecordedKeepsBacked DEF Sending
<1>5. ASSUME NEW w \in Workers, NEW reply \in Answers, Deliver(w, reply)
      PROVE  LedgerBacksStatus' /\ SeenOK'
    <2>1. /\ UNCHANGED <<row, attempts>> /\ job[w].stage = "sending"
          /\ job'[w].message = job[w].message /\ job'[w].count = job[w].count
          /\ job'[w].seen = job[w].seen /\ \A v \in Workers \ {w} : job'[v] = job[v]
        BY <1>5, <1>a DEF Deliver, Job
    <2> QED
        BY <1>a, <2>1, UnrecordedKeepsBacked DEF Sending
<1>6. ASSUME NEW w \in Workers, NEW delay \in RetryDelays, RecordAttempt(w, delay)
      PROVE  LedgerBacksStatus' /\ SeenOK'
    BY <1>6, RecordKeepsBacked
<1>7. CASE Tick
    <2>1. /\ UNCHANGED attempts
          /\ \A n \in Messages : /\ row'[n].attemptCount = row[n].attemptCount
                                 /\ row'[n].status = row[n].status
          /\ \A v \in Workers : /\ job'[v].stage = job[v].stage /\ job'[v].message = job[v].message
                                /\ job'[v].count = job[v].count /\ job'[v].seen = job[v].seen
        BY <1>7, <1>a DEF Tick, Row, Job
    <2> QED
        BY <1>a, <2>1, UnrecordedKeepsBacked DEF Sending
<1>8. CASE UNCHANGED <<row, attempts, job>>
    BY <1>8, <1>a, UnrecordedKeepsBacked DEF Sending
<1> QED
    BY <1>1, <1>2, <1>3, <1>4, <1>5, <1>6, <1>7, <1>8
       DEF Next, WorkerStep, OperatorStep, SwitchDestination, vars

\* A message that stands as delivered has an attempt that says so, and one that waits for
\* a retry was refused for a transient reason last, though process_next writes a verdict
\* without looking at the status again.
THEOREM SpecLedgerBacksStatus == Spec => []LedgerBacksStatus
<1>1. Init => BackedInv
    BY TypeInit DEF Init, BackedInv, LedgerInv, LedgerGapless, LedgerBacksStatus, SeenOK, Idle, Sending
<1>2. BackedInv => LedgerBacksStatus
    BY DEF BackedInv
<1> QED
    BY <1>1, <1>2, BackedStep, PTL DEF Spec

-----------------------------------------------------------------------------
(* The hourly limit of a destination: what was delivered there in the last *)
(* hour, and the workers that have passed the test and not yet reported.   *)

RecentOf(d) == {m \in Recent : DestinationOf[m] = d}
Senders(d) == {w \in Workers : job[w].stage \in Sending /\ DestinationOf[job[w].message] = d}

RateInv ==
    /\ IsFiniteSet(Recent)
    /\ \A d \in Destinations :
          Cardinality(RecentOf(d)) + Cardinality(Senders(d))
              < DestinationLimit + Cardinality(Workers)

LEMMA PartsAreFewer ==
    ASSUME NEW R, NEW S, IsFiniteSet(R), IsFiniteSet(S), NEW A \in SUBSET R, NEW B \in SUBSET S
    PROVE  /\ IsFiniteSet(A) /\ IsFiniteSet(B)
           /\ Cardinality(A) \in Nat /\ Cardinality(B) \in Nat
           /\ Cardinality(R) \in Nat /\ Cardinality(S) \in Nat
           /\ Cardinality(A) <= Cardinality(R) /\ Cardinality(B) <= Cardinality(S)
<1>1. IsFiniteSet(A) /\ Cardinality(A) <= Cardinality(R)
    BY FS_Subset
<1>2. IsFiniteSet(B) /\ Cardinality(B) <= Cardinality(S)
    BY FS_Subset
<1> QED
    BY <1>1, <1>2, FS_CardinalityType

LEMMA RateSetsFinite ==
    ASSUME RateInv, NEW d
    PROVE  IsFiniteSet(RecentOf(d)) /\ IsFiniteSet(Senders(d))
<1>1. RecentOf(d) \in SUBSET Recent /\ Senders(d) \in SUBSET Workers
    BY DEF RecentOf, Senders
<1> QED
    BY <1>1, FS_Subset, OutboxAssumption DEF RateInv

\* What delivers nothing and sends nothing keeps the limit.
LEMMA ShrinkKeepsRate ==
    ASSUME RateInv, Recent' \subseteq Recent,
           \A w \in Workers : job'[w].stage \in Sending =>
              job[w].stage \in Sending /\ job'[w].message = job[w].message
    PROVE  RateInv'
<1>1. IsFiniteSet(Recent')
    BY FS_Subset DEF RateInv
<1> SUFFICES ASSUME NEW d \in Destinations
             PROVE  Cardinality(RecentOf(d)') + Cardinality(Senders(d)')
                        < DestinationLimit + Cardinality(Workers)
    BY <1>1 DEF RateInv
<1>2. RecentOf(d)' \in SUBSET RecentOf(d)
    BY DEF RecentOf
<1>3. Senders(d)' \in SUBSET Senders(d)
    BY DEF Senders
<1>4. /\ Cardinality(RecentOf(d)') \in Nat /\ Cardinality(Senders(d)') \in Nat
      /\ Cardinality(RecentOf(d)) \in Nat /\ Cardinality(Senders(d)) \in Nat
      /\ Cardinality(RecentOf(d)') <= Cardinality(RecentOf(d))
      /\ Cardinality(Senders(d)') <= Cardinality(Senders(d))
    BY <1>2, <1>3, RateSetsFinite, PartsAreFewer
<1>5. /\ DestinationLimit \in Nat /\ Cardinality(Workers) \in Nat
      /\ Cardinality(RecentOf(d)) + Cardinality(Senders(d)) < DestinationLimit + Cardinality(Workers)
    BY OutboxAssumption, FS_CardinalityType DEF RateInv
<1> QED
    BY <1>4, <1>5

\* A worker starts to send only below the limit, and no more workers send than there are.
LEMMA BeginKeepsRate ==
    ASSUME LedgerInv, RateInv, NEW w \in Workers, BeginDelivery(w)
    PROVE  RateInv'
<1>1. PICK m : m = job[w].message
    OBVIOUS
<1>2. /\ UNCHANGED row /\ ~Suppressed(m)
      /\ \A v \in Workers \ {w} : job'[v] = job[v]
      /\ job'[w].message = m
    BY <1>1 DEF BeginDelivery, LedgerInv, TypeOK, Job
<1>3. Recent' = Recent
    BY <1>2 DEF Recent
<1> SUFFICES ASSUME NEW d \in Destinations
             PROVE  Cardinality(RecentOf(d)') + Cardinality(Senders(d)')
                        < DestinationLimit + Cardinality(Workers)
    BY <1>3 DEF RateInv
<1>4. RecentOf(d)' = RecentOf(d)
    BY <1>3 DEF RecentOf
<1>5. /\ DestinationLimit \in Nat /\ Cardinality(Workers) \in Nat
      /\ Cardinality(RecentOf(d)) \in Nat /\ Cardinality(Senders(d)) \in Nat
      /\ Cardinality(RecentOf(d)) + Cardinality(Senders(d)) < DestinationLimit + Cardinality(Workers)
    BY OutboxAssumption, RateSetsFinite, FS_CardinalityType DEF RateInv
<1>6. CASE DestinationOf[m] = d
    <2>1. ~(Cardinality(RecentOf(d)) >= DestinationLimit)
        BY <1>2, <1>6 DEF Suppressed, RecentOf
    <2>2. Senders(d)' \in SUBSET Workers
        BY DEF Senders
    <2>3. Cardinality(Senders(d)') \in Nat /\ Cardinality(Senders(d)') <= Cardinality(Workers)
        BY <2>2, FS_Subset, FS_CardinalityType, OutboxAssumption
    <2> QED
        BY <1>4, <1>5, <2>1, <2>3
<1>7. CASE DestinationOf[m] # d
    <2>1. Senders(d)' \in SUBSET Senders(d)
        BY <1>2, <1>7 DEF Senders
    <2>2. Cardinality(Senders(d)') \in Nat /\ Cardinality(Senders(d)') <= Cardinality(Senders(d))
        BY <2>1, RateSetsFinite, FS_Subset, FS_CardinalityType
    <2> QED
        BY <1>4, <1>5, <2>2
<1> QED
    BY <1>6, <1>7

\* A delivery that is recorded was counted among the senders before.
LEMMA RecordKeepsRate ==
    ASSUME LedgerInv, RateInv, NEW w \in Workers, NEW delay \in RetryDelays, RecordAttempt(w, delay)
    PROVE  RateInv'
<1>1. PICK m : m = job[w].message
    OBVIOUS
<1>2. /\ \A n \in Messages \ {m} : row'[n] = row[n]
      /\ job'[w] = Idle /\ \A v \in Workers \ {w} : job'[v] = job[v]
      /\ job[w].stage \in Sending
    BY <1>1 DEF RecordAttempt, LedgerInv, TypeOK, Sending
<1>3. Recent' \in SUBSET (Recent \cup {m})
    BY <1>2 DEF Recent
<1>4. IsFiniteSet(Recent')
    BY <1>3, FS_AddElement, FS_Subset DEF RateInv
<1> SUFFICES ASSUME NEW d \in Destinations
             PROVE  Cardinality(RecentOf(d)') + Cardinality(Senders(d)')
                        < DestinationLimit + Cardinality(Workers)
    BY <1>4 DEF RateInv
<1>5. /\ DestinationLimit \in Nat /\ Cardinality(Workers) \in Nat
      /\ Cardinality(RecentOf(d)) \in Nat /\ Cardinality(Senders(d)) \in Nat
      /\ Cardinality(RecentOf(d)) + Cardinality(Senders(d)) < DestinationLimit + Cardinality(Workers)
    BY OutboxAssumption, RateSetsFinite, FS_CardinalityType DEF RateInv
<1>6. CASE DestinationOf[m] = d
    <2>1. RecentOf(d)' \in SUBSET (RecentOf(d) \cup {m})
        BY <1>3 DEF RecentOf
    <2>2. /\ IsFiniteSet(RecentOf(d) \cup {m})
          /\ Cardinality(RecentOf(d) \cup {m}) <= Cardinality(RecentOf(d)) + 1
        <3>1. PICK R : R = RecentOf(d)
            OBVIOUS
        <3>2. IsFiniteSet(R) /\ Cardinality(R) \in Nat
            BY <1>5, <3>1, RateSetsFinite
        <3>3. /\ IsFiniteSet(R \cup {m})
              /\ \/ Cardinality(R \cup {m}) = Cardinality(R)
                 \/ Cardinality(R \cup {m}) = Cardinality(R) + 1
            BY <3>2, FS_AddElement
        <3> QED
            BY <3>1, <3>2, <3>3
    <2>3. /\ Cardinality(RecentOf(d)') \in Nat
          /\ Cardinality(RecentOf(d)') <= Cardinality(RecentOf(d) \cup {m})
          /\ Cardinality(RecentOf(d) \cup {m}) \in Nat
        BY <2>1, <2>2, FS_Subset, FS_CardinalityType
    <2>4. w \in Senders(d) /\ Senders(d)' \in SUBSET (Senders(d) \ {w})
        BY <1>1, <1>2, <1>6 DEF Senders, Idle, Sending
    <2>5. /\ IsFiniteSet(Senders(d) \ {w})
          /\ Cardinality(Senders(d) \ {w}) = Cardinality(Senders(d)) - 1
        BY <2>4, RateSetsFinite, FS_RemoveElement
    <2>6. /\ Cardinality(Senders(d)') \in Nat
          /\ Cardinality(Senders(d)') <= Cardinality(Senders(d) \ {w})
        BY <2>4, <2>5, FS_Subset, FS_CardinalityType
    <2> QED
        BY <1>5, <2>2, <2>3, <2>5, <2>6
<1>7. CASE DestinationOf[m] # d
    <2>1. RecentOf(d)' \in SUBSET RecentOf(d)
        BY <1>3, <1>7 DEF RecentOf
    <2>2. Senders(d)' \in SUBSET Senders(d)
        BY <1>2 DEF Senders, Idle, Sending
    <2>3. /\ Cardinality(RecentOf(d)') \in Nat /\ Cardinality(Senders(d)') \in Nat
          /\ Cardinality(RecentOf(d)') <= Cardinality(RecentOf(d))
          /\ Cardinality(Senders(d)') <= Cardinality(Senders(d))
        BY <2>1, <2>2, RateSetsFinite, PartsAreFewer
    <2> QED
        BY <1>5, <2>3
<1> QED
    BY <1>6, <1>7

LEMMA RateStep == LedgerInv /\ RateInv /\ [Next]_vars => RateInv'
<1> SUFFICES ASSUME LedgerInv, RateInv, [Next]_vars PROVE RateInv'
    OBVIOUS
<1>a. row \in [Messages -> Row] /\ job \in [Workers -> Job]
    BY DEF LedgerInv, TypeOK
<1>1. ASSUME NEW m \in Messages, CreateOutbox(m) \/ ManualRetry(m) \/ Cancel(m)
      PROVE  RateInv'
    <2>1. UNCHANGED job
        BY <1>1 DEF CreateOutbox, ManualRetry, Cancel
    <2>2. /\ \A n \in Messages \ {m} : row'[n] = row[n]
          /\ row'[m].status \in {"PENDING", "CANCELLED"}
        <3>1. CASE CreateOutbox(m)
            <4>1. PICK quiet : row' = [row EXCEPT ![m].status = "PENDING", ![m].wait = quiet,
                                                  ![m].age = 0]
                BY <3>1 DEF CreateOutbox
            <4> QED
                BY <1>a, <4>1 DEF Row
        <3>3. CASE Cancel(m)
            BY <3>3, <1>a DEF Cancel, Row
        <3>2. CASE ManualRetry(m)
            <4>1. PICK budget : budget = Greater(row[m].maxAttempts, row[m].attemptCount + 1)
                OBVIOUS
            <4>2. row' = [row EXCEPT ![m] = [row[m] EXCEPT !.status = "PENDING", !.wait = 0, !.age = 0,
                                                           !.maxAttempts = budget]]
                BY <3>2, <4>1 DEF ManualRetry
            <4> QED
                BY <1>a, <4>2 DEF Row
        <3> QED
            BY <1>1, <3>1, <3>2, <3>3
    <2>3. Recent' \subseteq Recent
        BY <2>2 DEF Recent
    <2> QED
        BY <2>1, <2>3, ShrinkKeepsRate
<1>2. ASSUME NEW w \in Workers, NEW m \in Messages, ClaimNext(w, m)
      PROVE  RateInv'
    <2>1. /\ \A n \in Messages : row'[n] = row[n] \/ row'[n].status = "PROCESSING"
          /\ job'[w].stage = "claimed" /\ \A v \in Workers \ {w} : job'[v] = job[v]
        BY <1>2, <1>a DEF ClaimNext, Row, Job
    <2>2. Recent' \subseteq Recent
        BY <2>1 DEF Recent
    <2> QED
        BY <2>1, <2>2, ShrinkKeepsRate DEF Sending
<1>3. ASSUME NEW w \in Workers,
             Suppress(w) \/ DeliverRaises(w) \/ RecordAttemptFails(w) \/ Crash(w)
      PROVE  RateInv'
    <2>1. /\ \A n \in Messages : row'[n] = row[n] \/ row'[n].status = "SUPPRESSED"
          /\ job'[w].stage = "idle" /\ \A v \in Workers \ {w} : job'[v] = job[v]
        BY <1>3, <1>a DEF Suppress, DeliverRaises, RecordAttemptFails, Crash, Row, Idle
    <2>2. Recent' \subseteq Recent
        BY <2>1 DEF Recent
    <2> QED
        BY <2>1, <2>2, ShrinkKeepsRate DEF Sending
<1>5. ASSUME NEW w \in Workers, NEW reply \in Answers, Deliver(w, reply)
      PROVE  RateInv'
    <2>1. /\ UNCHANGED row /\ job[w].stage = "sending"
          /\ job'[w].message = job[w].message /\ \A v \in Workers \ {w} : job'[v] = job[v]
        BY <1>5, <1>a DEF Deliver, Job
    <2>2. Recent' = Recent
        BY <2>1 DEF Recent
    <2> QED
        BY <2>1, <2>2, ShrinkKeepsRate DEF Sending
<1>7. CASE Tick
    <2>1. \A v \in Workers : job'[v].stage = job[v].stage /\ job'[v].message = job[v].message
        BY <1>7, <1>a DEF Tick, Job
    <2>2. ASSUME NEW n \in Messages
          PROVE  /\ row'[n].status = row[n].status
                 /\ row'[n].deliveredAge <= Window => row[n].deliveredAge <= Window
        <3>1. PICK r \in Row : r = row[n]
            BY <1>a
        <3>2. PICK next : next = [r EXCEPT !.wait = Monus(@, 1), !.age = Aged(@, AgeCap),
                                           !.deliveredAge = Aged(@, DeliveredCap)]
            OBVIOUS
        <3>3. next.status = r.status /\ next.deliveredAge = Aged(r.deliveredAge, DeliveredCap)
            BY <3>1, <3>2 DEF Row
        <3>4. row'[n] = next
            BY <1>7, <3>1, <3>2 DEF Tick
        <3>5. r.deliveredAge \in Nat /\ Window \in Nat
            BY OutboxAssumption DEF Row
        <3>6. Aged(r.deliveredAge, DeliveredCap) <= Window => r.deliveredAge <= Window
            BY <3>5 DEF Aged, DeliveredCap
        <3> QED
            BY <3>1, <3>3, <3>4, <3>6
    <2>3. Recent' \subseteq Recent
        BY <2>2 DEF Recent
    <2> QED
        BY <2>1, <2>3, ShrinkKeepsRate
<1>8. CASE UNCHANGED <<row, job>>
    BY <1>8, ShrinkKeepsRate DEF Recent
<1> QED
    BY <1>1, <1>2, <1>3, <1>5, <1>7, <1>8, BeginKeepsRate, RecordKeepsRate
       DEF Next, WorkerStep, OperatorStep, SwitchDestination, vars

\* _suppression_reason counts deliveries that are recorded, not those under way: the limit
\* of a destination is passed, but in every interleaving by fewer messages than there are workers.
THEOREM SpecRateLimitOvershoot == Spec => []RateLimitOvershoot
<1>1. Init => LedgerInv /\ RateInv
    <2> SUFFICES ASSUME Init PROVE LedgerInv /\ RateInv
        OBVIOUS
    <2>1. LedgerInv
        BY TypeInit DEF Init, LedgerInv, LedgerGapless
    <2>2. Recent = {} /\ \A d \in Destinations : RecentOf(d) = {} /\ Senders(d) = {}
        BY DEF Init, Recent, RecentOf, Senders, Idle, Sending
    <2>3. Cardinality(Workers) \in Nat /\ DestinationLimit \in Nat \ {0}
        BY OutboxAssumption, FS_CardinalityType
    <2> QED
        BY <2>1, <2>2, <2>3, FS_EmptySet DEF RateInv
<1>2. LedgerInv /\ RateInv => RateLimitOvershoot
    <2> SUFFICES ASSUME RateInv, NEW d \in Destinations
                 PROVE  Cardinality(RecentOf(d)) < DestinationLimit + Cardinality(Workers)
        BY DEF RateLimitOvershoot, RecentOf
    <2>1. /\ DestinationLimit \in Nat /\ Cardinality(Workers) \in Nat
          /\ Cardinality(RecentOf(d)) \in Nat /\ Cardinality(Senders(d)) \in Nat
        BY OutboxAssumption, RateSetsFinite, FS_CardinalityType
    <2> QED
        BY <2>1 DEF RateInv
<1>3. LedgerInv /\ RateInv /\ [Next]_vars => (LedgerInv /\ RateInv)'
    BY RateStep, TypeStep, LedgerStep DEF LedgerInv
<1> QED
    BY <1>1, <1>2, <1>3, PTL DEF Spec
=============================================================================
