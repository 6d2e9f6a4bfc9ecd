------------------------------- MODULE AuthSessions -------------------------------
(***************************************************************************)
(* Local accounts and their sessions: logins, the lock after failed ones,  *)
(* changes of password, and what administrators do to an account.          *)
(*                                                                         *)
(* A login reads the account, spends its time on the password and writes   *)
(* what it read plus its own change; other requests commit in between.     *)
(* Only the columns that a login assigns a new value are written.          *)
(***************************************************************************)
EXTENDS Integers, Sequences, FiniteSets, SequencesExt

CONSTANTS
    Users,
    MaxFailed,      \* auth_max_failed_attempts
    Lockout,        \* auth_lockout_minutes, in steps of the clock
    Ttl,            \* auth_session_ttl_minutes, in steps of the clock
    Clients,
    MaxSessions, MaxAttempts, MaxTime, AdminBudget      \* bounds

VARIABLES
    account,    \* [Users -> row of auth_users]
    sessions,   \* auth_sessions in the order of creation
    failures,   \* history: [Users -> failed logins since the last success or enable that no
                \* login of the user overlapped]
    request,    \* [Clients -> the login under way, or Idle]
    now,
    spent

vars == <<account, sessions, failures, request, now, spent>>

Status == {"ACTIVE", "DISABLED", "LOCKED"}
Idle == [op |-> "idle"]
NewAccount == [status |-> "ACTIVE", failed |-> 0, until |-> 0]
NewSession(u) == [user |-> u, expires |-> now + Ttl, revoked |-> FALSE]

Init ==
    /\ account = [u \in Users |-> NewAccount]
    /\ sessions = <<>>
    /\ failures = [u \in Users |-> 0]
    /\ request = [c \in Clients |-> Idle]
    /\ now = 1
    /\ spent = [attempts |-> 0, admin |-> 0]

-----------------------------------------------------------------------------
Logging(u) == {c \in Clients : request[c] # Idle /\ request[c].user = u}

\* login: the account is read, and the password is checked against what was read.
BeginLogin(c, u, right) ==
    /\ request[c] = Idle /\ spent.attempts < MaxAttempts
    /\ spent' = [spent EXCEPT !.attempts = @ + 1]
    /\ request' = [r \in Clients |->
          IF r = c
          THEN [op |-> "login", user |-> u, row |-> account[u], right |-> right, alone |-> Logging(u) = {},
                accepted |-> right /\ account[u].status = "ACTIVE" /\ account[u].until <= now]
          ELSE IF r \in Logging(u) THEN [request[r] EXCEPT !.alone = FALSE] ELSE request[r]]
    /\ UNCHANGED <<account, sessions, failures, now>>

\* Mutant of CountAfter: a success does not start the count again.
CountAfterKept(accepted, count) == IF accepted THEN count ELSE count + 1

CountAfter(accepted, count) == IF accepted THEN 0 ELSE count + 1

FinishLogin(c) ==
    LET login == request[c]
        u == login.user
        count == CountAfter(login.accepted, login.row.failed)
        locks == ~login.accepted /\ count >= MaxFailed IN
    /\ login.op = "login"
    /\ login.accepted => Len(sessions) < MaxSessions
    /\ account' = [account EXCEPT
          ![u].failed = IF count = login.row.failed THEN @ ELSE count,
          ![u].until = IF locks THEN now + Lockout
                       ELSE IF login.accepted /\ login.row.until # 0 THEN 0 ELSE @,
          ![u].status = IF locks /\ login.row.status # "LOCKED" THEN "LOCKED" ELSE @]
    /\ sessions' = IF login.accepted THEN Append(sessions, NewSession(u)) ELSE sessions
    /\ failures' = [failures EXCEPT ![u] = IF ~login.accepted THEN @ + 1
                                          ELSE IF login.alone THEN 0 ELSE @]
    /\ request' = [request EXCEPT ![c] = Idle]
    /\ UNCHANGED <<now, spent>>

\* authenticate_session
Live(s) == ~sessions[s].revoked /\ sessions[s].expires > now /\ account[sessions[s].user].status = "ACTIVE"

Logout(s) ==
    /\ ~sessions[s].revoked
    /\ sessions' = [sessions EXCEPT ![s].revoked = TRUE]
    /\ UNCHANGED <<account, failures, request, now, spent>>

\* change_password, in a session that is live: every session of the user is revoked.
ChangePassword(s) ==
    /\ Live(s)
    /\ sessions' = [n \in DOMAIN sessions |->
          IF sessions[n].user = sessions[s].user THEN [sessions[n] EXCEPT !.revoked = TRUE] ELSE sessions[n]]
    /\ UNCHANGED <<account, failures, request, now, spent>>

Administers == spent.admin < AdminBudget /\ spent' = [spent EXCEPT !.admin = @ + 1]

Disable(u) ==
    /\ Administers
    /\ account' = [account EXCEPT ![u].status = "DISABLED"]
    /\ UNCHANGED <<sessions, failures, request, now>>

Enable(u) ==
    /\ Administers
    /\ account' = [account EXCEPT ![u] = NewAccount]
    /\ failures' = [failures EXCEPT ![u] = IF Logging(u) = {} THEN 0 ELSE @]
    /\ UNCHANGED <<sessions, request, now>>

Tick ==
    /\ now < MaxTime
    /\ now' = now + 1
    /\ UNCHANGED <<account, sessions, failures, request, spent>>

Next ==
    \/ \E c \in Clients : \/ \E u \in Users, right \in BOOLEAN : BeginLogin(c, u, right)
                          \/ FinishLogin(c)
    \/ \E s \in DOMAIN sessions : Logout(s) \/ ChangePassword(s)
    \/ \E u \in Users : Disable(u) \/ Enable(u)
    \/ Tick

Spec == Init /\ [][Next]_vars

-----------------------------------------------------------------------------
TypeOK ==
    /\ \A u \in Users : account[u].status \in Status /\ account[u].failed \in Nat
    /\ \A s \in DOMAIN sessions : sessions[s].user \in Users

\* Nobody is locked out by fewer failed logins than the setting says: what a login writes
\* from a row it read earlier never counts a failure twice.
LockedByFailures ==
    \A u \in Users : account[u].status = "LOCKED" => failures[u] >= MaxFailed

\* docs/authentication.md:17: the lock lasts PLIEGOCHECK_AUTH_LOCKOUT_MINUTES.
LockEnds ==
    [][\A u \in Users : (account[u].status = "LOCKED" /\ account[u].until <= now) =>
          \A c \in Clients : (request[c] = Idle /\ request'[c] # Idle /\ request'[c].user = u) =>
              (request'[c].right => request'[c].accepted)]_vars
=============================================================================
