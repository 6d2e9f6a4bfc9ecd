-------------------------- MODULE NotificationAudit --------------------------
(***************************************************************************)
(* The outbox with three history variables that no code keeps: how often a *)
(* message was handed to a provider that took it, how often a second       *)
(* worker could get hold of it, and how often the provider took it and the *)
(* worker was told otherwise. They bound how often a recipient can get the *)
(* same message and how far attempt_count can run past max_attempts.       *)
(***************************************************************************)
EXTENDS NotificationOutbox

CONSTANT RaiseBudget    \* bound on the claims taken from a worker before a raise

ASSUME AuditAssumption == RaiseBudget \in Nat

VARIABLES
    taken,      \* [Messages -> Nat]: deliveries the provider accepted
    overlaps,   \* [Messages -> Nat]: manual retries and claims of a stale row
    unheard     \* [Messages -> Nat]: deliveries accepted, reported as failed

history == <<taken, overlaps, unheard>>
auditVars == <<vars, history>>

AuditInit ==
    /\ Init
    /\ taken = [m \in Messages |-> 0]
    /\ overlaps = [m \in Messages |-> 0]
    /\ unheard = [m \in Messages |-> 0]

\* claim_next, and whether it took the row from a worker.
AuditClaim(w, m) ==
    /\ ClaimNext(w, m)
    /\ overlaps' = [overlaps EXCEPT ![m] = IF StaleClaim(m) THEN @ + 1 ELSE @]
    /\ UNCHANGED <<taken, unheard>>

\* A receiver can take the message and its answer be lost: smtplib raises, or
\* httpx times out, after the server has accepted.
AuditDeliver(w, reply) ==
    LET m == job[w].message IN
    /\ Deliver(w, reply)
    /\ \E accepted \in CASE reply = "DELIVERED" -> {TRUE}
                         [] reply = "RETRYABLE" -> BOOLEAN
                         [] OTHER -> {FALSE} :
          /\ taken' = [taken EXCEPT ![m] = IF accepted THEN @ + 1 ELSE @]
          /\ unheard' = [unheard EXCEPT ![m] =
                           IF accepted /\ reply = "RETRYABLE" THEN @ + 1 ELSE @]
    /\ UNCHANGED overlaps

\* An answer httpx cannot read is raised after the receiver has taken the message.
AuditRaises(w) ==
    LET m == job[w].message IN
    /\ DeliverRaises(w)
    /\ overlaps[m] < RaiseBudget
    /\ \E accepted \in IF DryRun \/ m \notin Webhooks THEN {FALSE} ELSE BOOLEAN :
          taken' = [taken EXCEPT ![m] = IF accepted THEN @ + 1 ELSE @]
    /\ UNCHANGED <<overlaps, unheard>>

AuditRetry(m) ==
    /\ ManualRetry(m)
    /\ overlaps' = [overlaps EXCEPT ![m] = @ + 1]
    /\ UNCHANGED <<taken, unheard>>

\* The steps that deliver nothing and take no message from a worker.
SilentStep ==
    /\ \/ \E m \in Messages : CreateOutbox(m) \/ Cancel(m)
       \/ \E d \in Destinations : SwitchDestination(d)
       \/ \E w \in Workers :
             \/ Suppress(w)
             \/ BeginDelivery(w)
             \/ \E delay \in RetryDelays : RecordAttempt(w, delay)
             \/ RecordAttemptFails(w)
             \/ Crash(w)
       \/ Tick
    /\ UNCHANGED history

AuditNext ==
    \/ \E w \in Workers, m \in Messages : AuditClaim(w, m)
    \/ \E w \in Workers, reply \in Answers : AuditDeliver(w, reply)
    \/ \E w \in Workers : AuditRaises(w)
    \/ \E m \in Messages : AuditRetry(m)
    \/ SilentStep

AuditSpec == AuditInit /\ [][AuditNext]_auditVars

-----------------------------------------------------------------------------
Flag(b) == IF b THEN 1 ELSE 0

\* Workers that may still make the provider take m once more, now or on the
\* retry they are about to schedule.
Live(m) ==
    {w \in Holders(m) : job[w].stage = "sent" => job[w].answer = "RETRYABLE"}

\* A recipient gets a message once, plus once for every manual retry, every
\* claim taken from a worker, and every answer lost after acceptance.
DeliveriesBounded ==
    \A m \in Messages : taken[m] <= 1 + overlaps[m] + unheard[m]

\* attempt_count passes max_attempts by no more than the overlapping claims: the
\* budget is tested when the retry is scheduled, not when the row is claimed.
AttemptsBounded ==
    \A m \in Messages : row[m].attemptCount <= row[m].maxAttempts + overlaps[m]
=============================================================================
