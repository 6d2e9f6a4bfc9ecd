------------------------- MODULE NotificationOutbox -------------------------
(***************************************************************************)
(* The notification outbox: rows of notification_outbox_messages, the      *)
(* worker processes that drain them (claim_next, process_next) and the     *)
(* operators that retry and cancel deliveries or pause a destination.      *)
(*                                                                         *)
(* A worker touches the database in three transactions, and everything     *)
(* else may run between them: the claim commits and so releases its row    *)
(* lock, the row is read back and the suppression rules are evaluated, the *)
(* provider is called with no lock held, and the result is written with an *)
(* UPDATE that does not look at the status again.                          *)
(*                                                                         *)
(* Time is relative: each row carries the time left until available_at and *)
(* the time gone by since updated_at and delivered_at, so that no bound on *)
(* the length of a behaviour is needed.                                    *)
(***************************************************************************)
EXTENDS Naturals, FiniteSets

CONSTANTS
    Messages,           \* outbox rows, one per idempotency key
    NoMessage,          \* what an idle worker holds
    Destinations,
    DestinationOf,      \* [Messages -> Destinations]: row.destination_id
    Unrenderable,       \* e-mail rows whose address or payload makes deliver raise
    Webhooks,           \* rows whose channel is SIGNED_WEBHOOK
    Workers,
    MaxAttempts,        \* settings.notification_max_attempts
    StaleAfter,         \* the ten minutes after which PROCESSING is claimed again
    RetryDelays,        \* the delays retry_delay_seconds or Retry-After can give
    QuietDelays,        \* how far create_outbox may defer available_at
    Window,             \* the hour the rate limits look back on
    DestinationLimit,   \* settings.notification_max_per_destination_per_hour
    GlobalLimit,        \* settings.notification_max_global_per_hour
    DryRun,             \* settings.notification_dry_run
    ChannelEnabled,     \* the kill switch and the channel flags
    OperatorBudget,     \* bound on retries, cancellations and pauses
    CrashBudget         \* bound on worker crashes

ASSUME OutboxAssumption ==
    /\ NoMessage \notin Messages
    /\ DestinationOf \in [Messages -> Destinations]
    /\ Unrenderable \subseteq Messages
    /\ Webhooks \subseteq Messages \ Unrenderable
    /\ IsFiniteSet(Workers)
    /\ MaxAttempts \in Nat \ {0}
    /\ StaleAfter \in Nat
    /\ RetryDelays \subseteq Nat \ {0}
    /\ QuietDelays \subseteq Nat
    /\ Window \in Nat
    /\ DestinationLimit \in Nat \ {0}
    /\ GlobalLimit \in Nat \ {0}
    /\ DryRun \in BOOLEAN
    /\ ChannelEnabled \in BOOLEAN
    /\ OperatorBudget \in Nat
    /\ CrashBudget \in Nat

VARIABLES
    row,        \* notification_outbox_messages, see Row
    attempts,   \* [Messages -> SUBSET Attempt]: notification_delivery_attempts
    active,     \* [Destinations -> BOOLEAN]: destination.status = "ACTIVE"
    job,        \* how far each worker has come in process_next, see Job
    operations, \* operator actions so far
    crashes     \* worker crashes so far

vars == <<row, attempts, active, job, operations, crashes>>

Answers == {"DELIVERED", "DRY_RUN", "RETRYABLE", "PERMANENT"}
Claimable == {"PENDING", "FAILED_RETRYABLE"}
Settled == {"DELIVERED", "DRY_RUN", "FAILED_PERMANENT", "CANCELLED", "SUPPRESSED"}
Statuses == {"ABSENT", "PROCESSING"} \cup Claimable \cup Settled
Stages == {"idle", "claimed", "sending", "sent"}

\* wait is the time left until available_at; age and deliveredAge the time
\* since updated_at and delivered_at, no further than a guard can tell apart.
Row == [status : Statuses, attemptCount : Nat, maxAttempts : Nat,
        wait : Nat, age : Nat, deliveredAge : Nat]

Attempt == [number : Nat, status : Answers]

\* seen, count and max are the status, attempt_count and max_attempts refresh()
\* read after the claim, elapsed the time since process_next took `now`.
Job == [stage : Stages, message : Messages \cup {NoMessage}, seen : Statuses,
        count : Nat, max : Nat, elapsed : Nat, answer : Answers]

Idle == [stage |-> "idle", message |-> NoMessage, seen |-> "ABSENT",
         count |-> 0, max |-> 0, elapsed |-> 0, answer |-> "PERMANENT"]

LargestOf(S) == CHOOSE x \in S : \A y \in S : y <= x
AgeCap == StaleAfter + 1
DeliveredCap == Window + 1
ElapsedCap == LargestOf(RetryDelays \cup {AgeCap, DeliveredCap})

Greater(a, b) == IF a >= b THEN a ELSE b
Lesser(a, b) == IF a <= b THEN a ELSE b
\* Mutant of Monus: a deadline is let run below zero.
MonusUnclamped(a, b) == a - b

Monus(a, b) == IF a >= b THEN a - b ELSE 0
Aged(t, cap) == IF t < cap THEN t + 1 ELSE t

Holders(m) == {w \in Workers : job[w].message = m}

-----------------------------------------------------------------------------
Init ==
    /\ row = [m \in Messages |->
                [status |-> "ABSENT", attemptCount |-> 0, maxAttempts |-> MaxAttempts,
                 wait |-> 0, age |-> 0, deliveredAge |-> DeliveredCap]]
    /\ attempts = [m \in Messages |-> {}]
    /\ active = [d \in Destinations |-> TRUE]
    /\ job = [w \in Workers |-> Idle]
    /\ operations = 0
    /\ crashes = 0

\* create_outbox for a key that has no row yet; for one that has, it returns
\* the row it finds. Its callers skip a destination that is not ACTIVE.
CreateOutbox(m) ==
    /\ row[m].status = "ABSENT"
    /\ active[DestinationOf[m]]
    /\ \E quiet \in QuietDelays \cup {0} :
          row' = [row EXCEPT ![m].status = "PENDING", ![m].wait = quiet, ![m].age = 0]
    /\ UNCHANGED <<attempts, active, job, operations, crashes>>

\* Mutant of StaleClaim: abandoned claims are never taken up again.
StaleClaimNever(m) == FALSE

\* Mutant of Due: the status is left out of the WHERE.
DueWhateverStatus(m) == row[m].status # "ABSENT" /\ row[m].wait = 0

\* The WHERE of claim_next.
StaleClaim(m) == row[m].status = "PROCESSING" /\ row[m].age > StaleAfter
Due(m) == (row[m].status \in Claimable \/ StaleClaim(m)) /\ row[m].wait = 0

\* Mutant of ClaimNext: the claim is not written to the row.
ClaimNextUnmarked(w, m) ==
    /\ job[w].stage = "idle"
    /\ Due(m)
    /\ job' = [job EXCEPT ![w].stage = "claimed", ![w].message = m]
    /\ UNCHANGED <<row, attempts, active, operations, crashes>>

\* claim_next up to its commit: SKIP LOCKED gives the row to one worker only,
\* and the commit drops the lock. Due rows are taken in any order here.
ClaimNext(w, m) ==
    /\ job[w].stage = "idle"
    /\ Due(m)
    /\ row' = [row EXCEPT ![m].status = "PROCESSING", ![m].age = 0]
    /\ job' = [job EXCEPT ![w].stage = "claimed", ![w].message = m]
    /\ UNCHANGED <<attempts, active, operations, crashes>>

\* Messages counted by the rate limits of _suppression_reason.
Recent == {m \in Messages : /\ row[m].status \in {"DELIVERED", "DRY_RUN"}
                            /\ row[m].deliveredAge <= Window}

\* Mutant of Suppressed: the hourly limits are not tested.
SuppressedNoLimits(m) == ~ChannelEnabled \/ ~active[DestinationOf[m]]

Suppressed(m) ==
    \/ ~ChannelEnabled
    \/ ~active[DestinationOf[m]]
    \/ Cardinality({n \in Recent : DestinationOf[n] = DestinationOf[m]}) >= DestinationLimit
    \/ Cardinality(Recent) >= GlobalLimit

\* refresh(row), then the checks of _suppression_reason. The status read back
\* is not looked at, and SUPPRESSED is written over whatever stands there.
Suppress(w) ==
    LET m == job[w].message IN
    /\ job[w].stage = "claimed"
    /\ Suppressed(m)
    /\ row' = [row EXCEPT ![m].status = "SUPPRESSED", ![m].age = 0]
    /\ job' = [job EXCEPT ![w] = Idle]
    /\ UNCHANGED <<attempts, active, operations, crashes>>

BeginDelivery(w) ==
    LET m == job[w].message IN
    /\ job[w].stage = "claimed"
    /\ ~Suppressed(m)
    /\ job' = [job EXCEPT ![w].stage = "sending", ![w].elapsed = 0,
                          ![w].seen = row[m].status,
                          ![w].count = row[m].attemptCount,
                          ![w].max = row[m].maxAttempts]
    /\ UNCHANGED <<row, attempts, active, operations, crashes>>

\* What deliver can return for m: a dry run only renders and signs, and takes
\* a ValueError for a permanent refusal.
ProviderAnswers(m) ==
    CASE DryRun /\ m \in Unrenderable -> {"PERMANENT"}
      [] DryRun /\ m \notin Unrenderable -> {"DRY_RUN", "PERMANENT"}
      [] ~DryRun -> {"DELIVERED", "RETRYABLE", "PERMANENT"}

Deliver(w, reply) ==
    /\ job[w].stage = "sending"
    /\ DryRun \/ job[w].message \notin Unrenderable
    /\ reply \in ProviderAnswers(job[w].message)
    /\ job' = [job EXCEPT ![w].stage = "sent", ![w].answer = reply]
    /\ UNCHANGED <<row, attempts, active, operations, crashes>>

\* What deliver raises and process_next does not catch, so that nothing is
\* written: an e-mail is validated and rendered outside the try, a payload
\* without disclaimer is a KeyError in a dry run too. A webhook raises for a
\* host that getaddrinfo cannot resolve, whatever the mode, and for every error
\* of httpx that is neither a time-out nor of the network.
DeliverRaises(w) ==
    /\ job[w].stage = "sending"
    /\ job[w].message \in Unrenderable \cup Webhooks
    /\ job' = [job EXCEPT ![w] = Idle]
    /\ UNCHANGED <<row, attempts, active, operations, crashes>>

\* Mutant of Verdict: the attempt under way is not counted against the budget.
VerdictOneMore(j) ==
    IF j.answer \in {"DELIVERED", "DRY_RUN"} THEN j.answer
    ELSE IF j.answer = "RETRYABLE" /\ j.count < j.max THEN "FAILED_RETRYABLE"
    ELSE "FAILED_PERMANENT"

\* Mutant of Verdict: a permanent refusal is retried as well.
VerdictRetriesAll(j) ==
    IF j.answer \in {"DELIVERED", "DRY_RUN"} THEN j.answer
    ELSE IF j.count + 1 < j.max THEN "FAILED_RETRYABLE"
    ELSE "FAILED_PERMANENT"

\* The status process_next chooses after the call.
Verdict(j) ==
    IF j.answer \in {"DELIVERED", "DRY_RUN"} THEN j.answer
    ELSE IF j.answer = "RETRYABLE" /\ j.count + 1 < j.max THEN "FAILED_RETRYABLE"
    ELSE "FAILED_PERMANENT"

\* The UPDATE holds the columns that differ from the ones refresh() read, so a
\* status that was already there is not written again. updated_at is now(),
\* the start of the transaction that began with refresh().
Concluded(r, j, delay) ==
    [r EXCEPT !.attemptCount = j.count + 1,
              !.status = IF Verdict(j) = j.seen THEN @ ELSE Verdict(j),
              !.age = Lesser(j.elapsed, AgeCap),
              !.wait = IF Verdict(j) = "FAILED_RETRYABLE" THEN Monus(delay, j.elapsed) ELSE @,
              !.deliveredAge = IF Verdict(j) \in {"DELIVERED", "DRY_RUN"}
                                 THEN Lesser(j.elapsed, DeliveredCap) ELSE @]

\* Mutant of Recorded: there is no unique constraint.
RecordedNever(m, n) == FALSE

\* uq_notification_attempt_number
Recorded(m, n) == \E a \in attempts[m] : a.number = n

RecordAttempt(w, delay) ==
    LET j == job[w] IN
    /\ j.stage = "sent"
    /\ ~Recorded(j.message, j.count + 1)
    /\ attempts' = [attempts EXCEPT ![j.message] =
                      @ \cup {[number |-> j.count + 1, status |-> j.answer]}]
    /\ row' = [row EXCEPT ![j.message] = Concluded(@, j, delay)]
    /\ job' = [job EXCEPT ![w] = Idle]
    /\ UNCHANGED <<active, operations, crashes>>

\* The unique constraint refuses the attempt: the transaction is rolled back.
RecordAttemptFails(w) ==
    /\ job[w].stage = "sent"
    /\ Recorded(job[w].message, job[w].count + 1)
    /\ job' = [job EXCEPT ![w] = Idle]
    /\ UNCHANGED <<row, attempts, active, operations, crashes>>

\* The worker process dies; whatever it had not committed is lost.
Crash(w) ==
    /\ job[w].stage # "idle"
    /\ crashes < CrashBudget
    /\ job' = [job EXCEPT ![w] = Idle]
    /\ crashes' = crashes + 1
    /\ UNCHANGED <<row, attempts, active, operations>>

\* manual_retry: any status will do.
ManualRetry(m) ==
    /\ row[m].status # "ABSENT"
    /\ operations < OperatorBudget
    /\ row' = [row EXCEPT ![m].status = "PENDING", ![m].wait = 0, ![m].age = 0,
                          ![m].maxAttempts = Greater(@, row[m].attemptCount + 1)]
    /\ operations' = operations + 1
    /\ UNCHANGED <<attempts, active, job, crashes>>

\* cancel: any status will do.
Cancel(m) ==
    /\ row[m].status # "ABSENT"
    /\ operations < OperatorBudget
    /\ row' = [row EXCEPT ![m].status = "CANCELLED", ![m].age = 0]
    /\ operations' = operations + 1
    /\ UNCHANGED <<attempts, active, job, crashes>>

\* pause_destination and resume_destination.
SwitchDestination(d) ==
    /\ operations < OperatorBudget
    /\ active' = [active EXCEPT ![d] = ~@]
    /\ operations' = operations + 1
    /\ UNCHANGED <<row, attempts, job, crashes>>

Tick ==
    /\ row' = [m \in Messages |->
                 [row[m] EXCEPT !.wait = Monus(@, 1), !.age = Aged(@, AgeCap),
                                !.deliveredAge = Aged(@, DeliveredCap)]]
    /\ job' = [w \in Workers |->
                 IF job[w].stage \in {"sending", "sent"}
                   THEN [job[w] EXCEPT !.elapsed = Aged(@, ElapsedCap)]
                   ELSE job[w]]
    /\ UNCHANGED <<attempts, active, operations, crashes>>

WorkerStep(w) ==
    \/ \E m \in Messages : ClaimNext(w, m)
    \/ Suppress(w)
    \/ BeginDelivery(w)
    \/ \E reply \in Answers : Deliver(w, reply)
    \/ DeliverRaises(w)
    \/ \E delay \in RetryDelays : RecordAttempt(w, delay)
    \/ RecordAttemptFails(w)

OperatorStep ==
    \/ \E m \in Messages : ManualRetry(m) \/ Cancel(m)
    \/ \E d \in Destinations : SwitchDestination(d)

Next ==
    \/ \E m \in Messages : CreateOutbox(m)
    \/ \E w \in Workers : WorkerStep(w) \/ Crash(w)
    \/ OperatorStep
    \/ Tick

Spec == Init /\ [][Next]_vars

\* notification_drain runs every worker again and again and each call of the
\* provider has a timeout; time passes. Nothing is assumed of operators,
\* crashes or of the producer.
Fairness == WF_vars(Tick) /\ \A w \in Workers : WF_vars(WorkerStep(w))

FairSpec == Spec /\ Fairness

-----------------------------------------------------------------------------
TypeOK ==
    /\ row \in [Messages -> Row]
    /\ attempts \in [Messages -> SUBSET Attempt]
    /\ active \in [Destinations -> BOOLEAN]
    /\ job \in [Workers -> Job]
    /\ operations \in Nat
    /\ crashes \in Nat

\* The attempts recorded for a message are numbered 1..attempt_count, each once,
\* however many workers held it: process_next writes a count it read before
\* the provider call, and only the unique constraint keeps a stale one out.
LedgerGapless ==
    \A m \in Messages :
        /\ {a.number : a \in attempts[m]} = 1 .. row[m].attemptCount
        /\ \A a, b \in attempts[m] : a.number = b.number => a = b

\* A message that stands as DELIVERED or DRY_RUN has an attempt that says so, and
\* one waiting for a retry has been refused for a transient reason last.
LedgerBacksStatus ==
    \A m \in Messages :
        /\ row[m].status \in {"DELIVERED", "DRY_RUN"} =>
              \E a \in attempts[m] : a.status = row[m].status
        /\ row[m].status = "FAILED_RETRYABLE" =>
              [number |-> row[m].attemptCount, status |-> "RETRYABLE"] \in attempts[m]

\* Workers test the rate limit one by one and deliver later: however they
\* overlap, the limit is passed by no more than the other workers.
RateLimitOvershoot ==
    \A d \in Destinations :
        Cardinality({m \in Recent : DestinationOf[m] = d})
            < DestinationLimit + Cardinality(Workers)

\* A settled message that no worker is busy with changes only when an operator
\* retries or cancels it; neither the clock nor a worker brings it back.
SettledStays ==
    [][\A m \in Messages :
          (row[m].status \in Settled /\ Holders(m) = {}) =>
              \/ row'[m].status = row[m].status
              \/ ManualRetry(m) \/ Cancel(m)]_vars

\* A delivery of m that raises, and so leaves no attempt.
Raises(m) == \E w \in Workers : job[w].message = m /\ DeliverRaises(w)

\* A message comes to rest, whatever workers crash, stall past their claim or have
\* their result refused, unless its delivery goes on raising for ever.
EventuallySettled ==
    \A m \in Messages :
        <>[][~Raises(m)]_vars =>
            (row[m].status # "ABSENT" ~> row[m].status \in Settled)

\* docs/notification-retries.md: when attempts run out the message is
\* FAILED_PERMANENT. A message whose delivery raises should come to rest too.
AllEventuallySettled ==
    \A m \in Messages : row[m].status # "ABSENT" ~> row[m].status \in Settled

\* docs/notification-retries.md: when attempts run out the message is
\* FAILED_PERMANENT, so no message is tried more often than max_attempts.
AttemptsWithinMax ==
    \A m \in Messages : row[m].attemptCount <= row[m].maxAttempts
=============================================================================
