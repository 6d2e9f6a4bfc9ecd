------------------------- MODULE EvaluationsProofs -------------------------
(***************************************************************************)
(* The evaluations of a process and the packages of a decision, for every  *)
(* number of texts, snapshots, clients, workers, requests and attempts.    *)
(*                                                                         *)
(* The queue of the specialized evaluations implements ExclusiveQueue. The *)
(* refinement maps the rows of the table to one phase for each key. That   *)
(* every step of the table is a step of that phase, or leaves it as it is, *)
(* rests on three facts, QueueInv: a job that somebody holds is under way, *)
(* nobody else holds it, and of one key there is one active job (which is  *)
(* what the partial unique index enforces at each commit). Beside it stand *)
(* the invariants of the runs: results that stand for inputs (SpeInv), the *)
(* same of the financial evaluation (FinInv), packages that stand for      *)
(* files (RepInv), and counters of a normalization that stand for its      *)
(* candidates (NorInv). That a requirement is found to comply, or a metric *)
(* to pass, only on evidence follows from them and from what Evaluate      *)
(* returns for any records: EvaluateSupports and VerdictRests. Beside each *)
(* invariant stands what the columns may hold (FinTyping, SpeTyping,       *)
(* RepTyping), which is inductive together with it.                        *)
(***************************************************************************)
EXTENDS Evaluations, SequenceTheorems, WellFoundedInduction, TLAPS
JobFields == {"status", "run", "snapshot", "domain", "attempts"}

\* A sequence, whatever its elements are.
IsSequence(s) == \E S : s \in Seq(S)

SameKey(i, j) == jobs[i].snapshot = jobs[j].snapshot /\ jobs[i].domain = jobs[j].domain

RowsOK == /\ IsSequence(jobs)
          /\ \A j \in DOMAIN jobs : DOMAIN jobs[j] = JobFields
HeldOK ==
    \A w \in Workers :
        worker[w] # 0 => worker[w] \in DOMAIN jobs /\ jobs[worker[w]].status = "PROCESSING"
HoldersOK == \A v, w \in Workers : (worker[v] # 0 /\ worker[v] = worker[w]) => v = w
ActiveOK ==
    \A i, j \in DOMAIN jobs :
        (jobs[i].status \in Active /\ jobs[j].status \in Active /\ SameKey(i, j)) => i = j

QueueInv ==
    /\ RowsOK
    /\ DOMAIN worker = Workers
    /\ HeldOK
    /\ HoldersOK
    /\ ActiveOK

-----------------------------------------------------------------------------
\* A sequence that grows, or has an element replaced, is one.
LEMMA Appended ==
    ASSUME NEW s, IsSequence(s), NEW e
    PROVE  LET t == Append(s, e) IN
           /\ IsSequence(t)
           /\ Len(s) \in Nat
           /\ DOMAIN s = 1 .. Len(s)
           /\ DOMAIN t = 1 .. (Len(s) + 1)
           /\ t[Len(s) + 1] = e
           /\ \A n \in 1 .. Len(s) : t[n] = s[n]
  <1>1. PICK S : s \in Seq(S)
    BY DEF IsSequence
  <1>2. s \in Seq(S \cup {e}) /\ e \in S \cup {e}
    BY <1>1
  <1>3. Append(s, e) \in Seq(S \cup {e})
    BY <1>2
  <1>4. QED
    BY <1>2, <1>3 DEF IsSequence

LEMMA Replaced ==
    ASSUME NEW s, IsSequence(s), NEW n \in DOMAIN s, NEW e
    PROVE  LET t == [s EXCEPT ![n] = e] IN
           /\ IsSequence(t)
           /\ DOMAIN t = DOMAIN s
           /\ t[n] = e
           /\ \A m \in DOMAIN s \ {n} : t[m] = s[m]
  <1>1. PICK S : s \in Seq(S)
    BY DEF IsSequence
  <1>2. s \in Seq(S \cup {e}) /\ e \in S \cup {e} /\ n \in 1 .. Len(s)
    BY <1>1
  <1>3. [s EXCEPT ![n] = e] \in Seq(S \cup {e})
    BY <1>2, ExceptSeq
  <1>4. QED
    BY <1>3 DEF IsSequence

-----------------------------------------------------------------------------
\* The phase of a key, read off its active job.
LEMMA PhaseOfKey ==
    QueueInv => \A k \in Keys :
        /\ ActiveJobs(k) = {} => Phase(k) = [at |-> "free"]
        /\ \A j \in ActiveJobs(k) :
              /\ jobs[j].status = "PENDING" => Phase(k) = [at |-> "pending"]
              /\ (jobs[j].status = "PROCESSING" /\ \A w \in Workers : worker[w] # j)
                    => Phase(k) = [at |-> "abandoned"]
              /\ \A w \in Workers : (jobs[j].status = "PROCESSING" /\ worker[w] = j)
                    => Phase(k) = [at |-> "held", by |-> w]
  <1> SUFFICES ASSUME QueueInv, NEW k \in Keys
               PROVE  /\ ActiveJobs(k) = {} => Phase(k) = [at |-> "free"]
                      /\ \A j \in ActiveJobs(k) :
                            /\ jobs[j].status = "PENDING" => Phase(k) = [at |-> "pending"]
                            /\ (jobs[j].status = "PROCESSING" /\ \A w \in Workers : worker[w] # j)
                                  => Phase(k) = [at |-> "abandoned"]
                            /\ \A w \in Workers : (jobs[j].status = "PROCESSING" /\ worker[w] = j)
                                  => Phase(k) = [at |-> "held", by |-> w]
    OBVIOUS
  <1>1. ActiveJobs(k) = {} => Phase(k) = [at |-> "free"]
    BY DEF Phase
  <1>2. ASSUME NEW j \in ActiveJobs(k)
        PROVE  Phase(k) = PhaseOfJob(j) /\ j \in DOMAIN jobs
    <2>1. ActiveJobs(k) = {j}
      BY <1>2 DEF ActiveJobs, QueueInv, ActiveOK, SameKey
    <2>2. (CHOOSE i \in ActiveJobs(k) : TRUE) = j
      BY <2>1
    <2>3. QED
      BY <2>1, <2>2 DEF Phase, ActiveJobs
  <1>3. ASSUME NEW j \in ActiveJobs(k), jobs[j].status = "PENDING"
        PROVE  PhaseOfJob(j) = [at |-> "pending"]
    BY <1>3 DEF PhaseOfJob
  <1>4. ASSUME NEW j \in ActiveJobs(k), jobs[j].status = "PROCESSING",
               \A w \in Workers : worker[w] # j
        PROVE  PhaseOfJob(j) = [at |-> "abandoned"]
    BY <1>4 DEF PhaseOfJob
  <1>5. ASSUME NEW j \in ActiveJobs(k), jobs[j].status = "PROCESSING",
               NEW w \in Workers, worker[w] = j
        PROVE  PhaseOfJob(j) = [at |-> "held", by |-> w]
    <2> DEFINE holders == {v \in Workers : worker[v] = j}
    <2>1. j # 0
      BY <1>2 DEF QueueInv, RowsOK, IsSequence
    <2>2. holders = {w}
      BY <1>5, <2>1 DEF QueueInv, HoldersOK
    <2>3. (CHOOSE v \in holders : TRUE) = w
      BY <2>2
    <2>4. QED
      BY <1>5, <2>2, <2>3 DEF PhaseOfJob
  <1>6. QED
    BY <1>1, <1>2, <1>3, <1>4, <1>5

LEMMA PhaseOfKeyNext == QueueInv' => (\A k \in Keys :
        /\ ActiveJobs(k) = {} => Phase(k) = [at |-> "free"]
        /\ \A j \in ActiveJobs(k) :
              /\ jobs[j].status = "PENDING" => Phase(k) = [at |-> "pending"]
              /\ (jobs[j].status = "PROCESSING" /\ \A w \in Workers : worker[w] # j)
                    => Phase(k) = [at |-> "abandoned"]
              /\ \A w \in Workers : (jobs[j].status = "PROCESSING" /\ worker[w] = j)
                    => Phase(k) = [at |-> "held", by |-> w])'
  BY PhaseOfKey, PTL

-----------------------------------------------------------------------------
\* What a step may do to the queue: a commit adds a job, a worker takes one, an attempt
\* ends with a new status, a worker dies.
Submits(snapshot, domain) ==
    /\ NoActiveJob(snapshot, domain)
    /\ \E run : jobs' = Append(jobs, NewJob(run, snapshot, domain))
    /\ UNCHANGED worker
Takes(w, j) ==
    /\ worker[w] = 0 /\ j \in DOMAIN jobs /\ jobs[j].status = "PENDING"
    /\ jobs' = [jobs EXCEPT ![j].status = "PROCESSING", ![j].attempts = @ + 1]
    /\ worker' = [worker EXCEPT ![w] = j]
Ends(w, status) ==
    /\ worker[w] # 0
    /\ jobs' = [jobs EXCEPT ![worker[w]].status = status]
    /\ worker' = [worker EXCEPT ![w] = 0]
Dies(w) ==
    /\ worker[w] # 0
    /\ UNCHANGED jobs
    /\ worker' = [worker EXCEPT ![w] = 0]

QueueStep ==
    \/ \E snapshot, domain : Submits(snapshot, domain)
    \/ \E w \in Workers :
          \/ \E j : Takes(w, j)
          \/ \E status \in {"PENDING", "FAILED"} \cup Completed : Ends(w, status)
          \/ Dies(w)

LEMMA StepsOfTheQueue ==
    ASSUME [Next]_vars
    PROVE  QueueStep \/ UNCHANGED <<jobs, worker>>
  <1>1. ASSUME NEW c \in Clients, ClientStep(c)
        PROVE  QueueStep \/ UNCHANGED <<jobs, worker>>
    <2>1. CASE CommitCreate(c)
      BY <2>1 DEF CommitCreate, QueueStep, Submits
    <2>2. CASE CommitRetry(c)
      BY <2>2 DEF CommitRetry, QueueStep, Submits
    <2>3. ASSUME NEW snapshot \in DOMAIN Snapshots, NEW domain \in Domains, NEW force \in BOOLEAN,
                 BeginCreate(c, snapshot, domain, force)
          PROVE  UNCHANGED <<jobs, worker>>
      BY <2>3 DEF BeginCreate
    <2>4. ASSUME NEW x \in DOMAIN runs, BeginRetry(c, x)
          PROVE  UNCHANGED <<jobs, worker>>
      BY <2>4 DEF BeginRetry
    <2>5. ASSUME NEW q \in Requirements, BeginRead(c, q) \/ \E u \in Updates : BeginUpdate(c, q, u)
          PROVE  UNCHANGED <<jobs, worker>>
      BY <2>5 DEF BeginRead, BeginUpdate
    <2>6. ASSUME NEW x \in DOMAIN runs, NEW q \in Requirements, NEW verdict, Review(c, x, q, verdict)
          PROVE  UNCHANGED <<jobs, worker>>
      BY <2>6 DEF Review
    <2>7. CASE CommitUpdate(c) \/ Refused(c)
      BY <2>7 DEF CommitUpdate, Refused
    <2>8. QED
      BY <1>1, <2>1, <2>2, <2>3, <2>4, <2>5, <2>6, <2>7 DEF ClientStep
  <1>2. ASSUME NEW w \in Workers, WorkerStep(w) \/ Crash(w)
        PROVE  QueueStep
    <2>1. CASE Claim(w)
      BY <2>1 DEF Claim, QueueStep, Takes
    <2>2. CASE Complete(w)
      BY <2>2 DEF Complete, Ended, QueueStep, Ends, Completed
    <2>3. CASE Fail(w)
      BY <2>3 DEF Fail, Ended, QueueStep, Ends
    <2>4. CASE Crash(w)
      BY <2>4 DEF Crash, QueueStep, Dies
    <2>5. QED
      BY <1>2, <2>1, <2>2, <2>3, <2>4 DEF WorkerStep
  <1>3. CASE Synchronise
    BY <1>3 DEF Synchronise
  <1>4. CASE UNCHANGED vars
    BY <1>4 DEF vars
  <1>5. QED
    BY <1>1, <1>2, <1>3, <1>4 DEF Next

-----------------------------------------------------------------------------
LEMMA InitQueueInv == Init => QueueInv
  BY DEF Init, QueueInv, RowsOK, IsSequence, HeldOK, HoldersOK, ActiveOK

LEMMA SubmitKeepsInv ==
    ASSUME QueueInv, NEW snapshot, NEW domain, Submits(snapshot, domain)
    PROVE  QueueInv'
  <1>1. PICK run : jobs' = Append(jobs, NewJob(run, snapshot, domain))
    BY DEF Submits
  <1> DEFINE e == NewJob(run, snapshot, domain)
  <1>2. /\ IsSequence(jobs')
        /\ Len(jobs) \in Nat
        /\ DOMAIN jobs = 1 .. Len(jobs)
        /\ DOMAIN jobs' = 1 .. (Len(jobs) + 1)
        /\ jobs'[Len(jobs) + 1] = e
        /\ \A n \in 1 .. Len(jobs) : jobs'[n] = jobs[n]
    BY <1>1, Appended DEF QueueInv, RowsOK
  <1>3. DOMAIN e = JobFields /\ e.snapshot = snapshot /\ e.domain = domain
    BY DEF NewJob, JobFields
  <1>4. RowsOK'
    BY <1>2, <1>3 DEF QueueInv, RowsOK
  <1>5. HeldOK'
    BY <1>2 DEF QueueInv, HeldOK, Submits
  <1>6. ActiveOK'
    BY <1>2, <1>3 DEF QueueInv, ActiveOK, SameKey, Submits, NoActiveJob
  <1>7. QED
    BY <1>4, <1>5, <1>6 DEF QueueInv, HoldersOK, Submits

LEMMA TakeKeepsInv ==
    ASSUME QueueInv, NEW w \in Workers, NEW j, Takes(w, j)
    PROVE  QueueInv'
  <1> DEFINE e == [jobs[j] EXCEPT !.status = "PROCESSING", !.attempts = @ + 1]
  <1>1. jobs' = [jobs EXCEPT ![j] = e]
    BY DEF Takes
  <1>2. /\ IsSequence(jobs')
        /\ DOMAIN jobs' = DOMAIN jobs
        /\ jobs'[j] = e
        /\ \A i \in DOMAIN jobs \ {j} : jobs'[i] = jobs[i]
    <2>1. IsSequence(jobs) /\ j \in DOMAIN jobs
      BY DEF QueueInv, RowsOK, Takes
    <2> HIDE DEF e
    <2>2. QED
      BY <1>1, <2>1, Replaced
  <1>3. /\ DOMAIN e = JobFields /\ e.status = "PROCESSING"
        /\ e.snapshot = jobs[j].snapshot /\ e.domain = jobs[j].domain
    BY DEF QueueInv, RowsOK, Takes, JobFields
  <1>4. /\ worker'[w] = j /\ DOMAIN worker' = Workers
        /\ \A v \in Workers \ {w} : worker'[v] = worker[v]
    BY DEF Takes, QueueInv
  <1>5. RowsOK'
    BY <1>2, <1>3 DEF QueueInv, RowsOK
  <1>6. HeldOK'
    BY <1>2, <1>3, <1>4 DEF QueueInv, HeldOK, Takes
  <1>7. HoldersOK'
    <2>1. \A v \in Workers : worker[v] # j \/ j = 0
      BY DEF QueueInv, HeldOK, Takes
    <2>2. QED
      BY <1>4, <2>1 DEF QueueInv, HoldersOK
  <1>8. ActiveOK'
    BY <1>2, <1>3 DEF QueueInv, ActiveOK, SameKey, Takes, Active
  <1>9. QED
    BY <1>4, <1>5, <1>6, <1>7, <1>8 DEF QueueInv

LEMMA EndKeepsInv ==
    ASSUME QueueInv, NEW w \in Workers, NEW status, Ends(w, status)
    PROVE  QueueInv'
  <1> DEFINE j == worker[w]
             e == [jobs[j] EXCEPT !.status = status]
  <1>1. j \in DOMAIN jobs /\ jobs[j].status = "PROCESSING"
    BY DEF QueueInv, HeldOK, Ends
  <1>2. /\ IsSequence(jobs')
        /\ DOMAIN jobs' = DOMAIN jobs
        /\ jobs'[j] = e
        /\ \A i \in DOMAIN jobs \ {j} : jobs'[i] = jobs[i]
    <2>1. jobs' = [jobs EXCEPT ![j] = e]
      BY DEF Ends
    <2> HIDE DEF e, j
    <2>2. QED
      BY <1>1, <2>1, Replaced DEF QueueInv, RowsOK
  <1>3. DOMAIN e = JobFields /\ e.snapshot = jobs[j].snapshot /\ e.domain = jobs[j].domain
    BY <1>1 DEF QueueInv, RowsOK, JobFields
  <1>4. /\ worker'[w] = 0 /\ DOMAIN worker' = Workers
        /\ \A v \in Workers \ {w} : worker'[v] = worker[v]
    BY DEF Ends, QueueInv
  <1>5. RowsOK'
    BY <1>2, <1>3 DEF QueueInv, RowsOK
  <1>6. HeldOK'
    <2>1. \A v \in Workers \ {w} : worker[v] # 0 => worker[v] # j
      BY DEF QueueInv, HoldersOK
    <2>2. QED
      BY <1>2, <1>4, <2>1 DEF QueueInv, HeldOK
  <1>7. HoldersOK'
    BY <1>4 DEF QueueInv, HoldersOK
  <1>8. ActiveOK'
    <2>1. \A i \in DOMAIN jobs :
             /\ jobs'[i].snapshot = jobs[i].snapshot /\ jobs'[i].domain = jobs[i].domain
             /\ jobs'[i].status \in Active => jobs[i].status \in Active
      <3> HIDE DEF e
      <3>1. QED
        BY <1>1, <1>2, <1>3 DEF Active
    <2>2. QED
      BY <1>2, <2>1 DEF QueueInv, ActiveOK, SameKey
  <1>9. QED
    BY <1>4, <1>5, <1>6, <1>7, <1>8 DEF QueueInv

LEMMA DeathKeepsInv ==
    ASSUME QueueInv, NEW w \in Workers, Dies(w)
    PROVE  QueueInv'
  <1>1. /\ worker'[w] = 0 /\ DOMAIN worker' = Workers
        /\ \A v \in Workers \ {w} : worker'[v] = worker[v]
    BY DEF Dies, QueueInv
  <1>2. QED
    BY <1>1 DEF Dies, QueueInv, RowsOK, HeldOK, HoldersOK, ActiveOK, SameKey

LEMMA NextQueueInv == QueueInv /\ [Next]_vars => QueueInv'
  <1> SUFFICES ASSUME QueueInv, [Next]_vars PROVE QueueInv'
    OBVIOUS
  <1>1. CASE QueueStep
    BY <1>1, SubmitKeepsInv, TakeKeepsInv, EndKeepsInv, DeathKeepsInv DEF QueueStep
  <1>2. CASE UNCHANGED <<jobs, worker>>
    BY <1>2 DEF QueueInv, RowsOK, HeldOK, HoldersOK, ActiveOK, SameKey
  <1>3. QED
    BY <1>1, <1>2, StepsOfTheQueue

-----------------------------------------------------------------------------
\* Nothing but the job j, and who holds it, is touched.
MovesOnly(j) ==
    /\ DOMAIN jobs' \ {j} = DOMAIN jobs \ {j}
    /\ \A i \in DOMAIN jobs \ {j} : jobs'[i] = jobs[i]
    /\ \A i \in DOMAIN jobs \ {j} : \A w \in Workers : worker'[w] = i <=> worker[w] = i

\* A key that j is no active job of, before or after, stays in its phase.
LEMMA OthersStay ==
    ASSUME QueueInv, QueueInv', NEW j, MovesOnly(j),
           NEW l \in Keys, j \notin ActiveJobs(l), j \notin ActiveJobs(l)'
    PROVE  Phase(l)' = Phase(l)
  <1>1. ActiveJobs(l)' = ActiveJobs(l) /\ j \notin ActiveJobs(l)
    BY DEF MovesOnly, ActiveJobs
  <1>2. CASE ActiveJobs(l) = {}
    BY <1>1, <1>2, PhaseOfKey, PhaseOfKeyNext
  <1>3. ASSUME NEW i \in ActiveJobs(l)
        PROVE  Phase(l)' = Phase(l)
    <2>1. i \in DOMAIN jobs \ {j} /\ jobs[i].status \in {"PENDING", "PROCESSING"}
      BY <1>1 DEF ActiveJobs, Active
    <2>2. jobs'[i] = jobs[i] /\ \A w \in Workers : worker'[w] = i <=> worker[w] = i
      BY <2>1 DEF MovesOnly
    <2>3. CASE jobs[i].status = "PENDING"
      BY <1>1, <2>2, <2>3, PhaseOfKey, PhaseOfKeyNext
    <2>4. CASE jobs[i].status = "PROCESSING" /\ \A w \in Workers : worker[w] # i
      BY <1>1, <2>2, <2>4, PhaseOfKey, PhaseOfKeyNext
    <2>5. ASSUME NEW w \in Workers, jobs[i].status = "PROCESSING", worker[w] = i
          PROVE  Phase(l)' = Phase(l)
      BY <1>1, <2>2, <2>5, PhaseOfKey, PhaseOfKeyNext
    <2>6. QED
      BY <2>1, <2>3, <2>4, <2>5
  <1>4. QED
    BY <1>2, <1>3

\* A worker that holds no job is in no phase.
LEMMA FreeWorkerHoldsNothing ==
    ASSUME QueueInv, NEW w \in Workers, worker[w] = 0, NEW l \in Keys
    PROVE  Phase(l) # [at |-> "held", by |-> w]
  <1>1. CASE ActiveJobs(l) = {}
    BY <1>1, PhaseOfKey
  <1>2. ASSUME NEW i \in ActiveJobs(l)
        PROVE  Phase(l) # [at |-> "held", by |-> w]
    <2>1. jobs[i].status \in {"PENDING", "PROCESSING"} /\ i # 0
      BY <1>2 DEF ActiveJobs, Active, QueueInv, RowsOK, IsSequence
    <2>2. CASE jobs[i].status = "PENDING"
      BY <2>2, PhaseOfKey
    <2>3. CASE jobs[i].status = "PROCESSING" /\ \A v \in Workers : worker[v] # i
      BY <2>3, PhaseOfKey
    <2>4. ASSUME NEW v \in Workers, jobs[i].status = "PROCESSING", worker[v] = i
          PROVE  Phase(l) # [at |-> "held", by |-> w]
      BY <2>1, <2>4, PhaseOfKey
    <2>5. QED
      BY <2>1, <2>2, <2>3, <2>4
  <1>3. QED
    BY <1>1, <1>2

-----------------------------------------------------------------------------
\* The refinement, one abstract step for each kind of step of the table. In each, the job
\* that moves is looked at in the key it has; a row of no key would move nothing.
LEMMA OnePhase ==
    ASSUME NEW k \in Keys, NEW p, Phase(k)' = p, \A l \in Keys \ {k} : Phase(l)' = Phase(l)
    PROVE  Queue!Becomes(k, p)
  BY DEF Queue!Becomes

LEMMA SubmitRefines ==
    ASSUME QueueInv, QueueInv', NEW snapshot, NEW domain, Submits(snapshot, domain)
    PROVE  [Queue!Next]_([k \in Keys |-> Phase(k)])
  <1> DEFINE j == Len(jobs) + 1
             k == [snapshot |-> snapshot, domain |-> domain]
  <1>1. PICK run : jobs' = Append(jobs, NewJob(run, snapshot, domain))
    BY DEF Submits
  <1>2. /\ Len(jobs) \in Nat
        /\ DOMAIN jobs = 1 .. Len(jobs)
        /\ DOMAIN jobs' = 1 .. (Len(jobs) + 1)
        /\ jobs'[j] = NewJob(run, snapshot, domain)
        /\ \A n \in 1 .. Len(jobs) : jobs'[n] = jobs[n]
    BY <1>1, Appended DEF QueueInv, RowsOK
  <1>3. /\ jobs'[j].status = "PENDING"
        /\ jobs'[j].snapshot = snapshot /\ jobs'[j].domain = domain
    BY <1>2 DEF NewJob
  <1>4. MovesOnly(j)
    BY <1>2 DEF MovesOnly, Submits
  <1>5. \A l \in Keys \ {k} : j \notin ActiveJobs(l) /\ j \notin ActiveJobs(l)'
    BY <1>2, <1>3 DEF ActiveJobs, Keys
  <1>6. \A l \in Keys \ {k} : Phase(l)' = Phase(l)
    BY <1>4, <1>5, OthersStay
  <1>7. CASE k \notin Keys
    BY <1>6, <1>7
  <1>8. CASE k \in Keys
    <2>1. ActiveJobs(k) = {}
      BY DEF ActiveJobs, Submits, NoActiveJob
    <2>2. j \in ActiveJobs(k)'
      BY <1>2, <1>3 DEF ActiveJobs, Active
    <2>3. Phase(k) = Queue!Free /\ Phase(k)' = Queue!Pending
      BY <1>3, <1>8, <2>1, <2>2, PhaseOfKey, PhaseOfKeyNext DEF Queue!Free, Queue!Pending
    <2>4. Queue!Submit(k)
      BY <1>6, <1>8, <2>3, OnePhase DEF Queue!Submit
    <2>5. QED
      BY <1>8, <2>4 DEF Queue!Next
  <1>9. QED
    BY <1>7, <1>8

\* The key of a job, and what a step that moves it does to the other keys.
KeyOf(j) == [snapshot |-> jobs[j].snapshot, domain |-> jobs[j].domain]

LEMMA OtherKeys ==
    ASSUME QueueInv, QueueInv', NEW j \in DOMAIN jobs, MovesOnly(j), DOMAIN jobs' = DOMAIN jobs,
           jobs'[j].snapshot = jobs[j].snapshot, jobs'[j].domain = jobs[j].domain
    PROVE  \A l \in Keys \ {KeyOf(j)} : Phase(l)' = Phase(l)
  <1>1. \A l \in Keys \ {KeyOf(j)} : j \notin ActiveJobs(l) /\ j \notin ActiveJobs(l)'
    BY DEF ActiveJobs, Keys, KeyOf
  <1>2. QED
    BY <1>1, OthersStay

LEMMA TakeRefines ==
    ASSUME QueueInv, QueueInv', NEW w \in Workers, NEW j, Takes(w, j)
    PROVE  [Queue!Next]_([k \in Keys |-> Phase(k)])
  <1> DEFINE e == [jobs[j] EXCEPT !.status = "PROCESSING", !.attempts = @ + 1]
  <1>0. PICK k : k = KeyOf(j)
    OBVIOUS
  <1>1. j \in DOMAIN jobs /\ jobs[j].status = "PENDING" /\ DOMAIN jobs[j] = JobFields
    BY DEF Takes, QueueInv, RowsOK
  <1>2. /\ DOMAIN jobs' = DOMAIN jobs
        /\ jobs'[j] = e
        /\ \A i \in DOMAIN jobs \ {j} : jobs'[i] = jobs[i]
    BY <1>1 DEF Takes
  <1>3. e.status = "PROCESSING" /\ e.snapshot = jobs[j].snapshot /\ e.domain = jobs[j].domain
    BY <1>1 DEF JobFields
  <1>4. worker'[w] = j /\ \A v \in Workers \ {w} : worker'[v] = worker[v]
    BY DEF Takes, QueueInv
  <1>5. MovesOnly(j)
    BY <1>2, <1>4 DEF MovesOnly, Takes, QueueInv, RowsOK, IsSequence
  <1>6. \A l \in Keys \ {k} : Phase(l)' = Phase(l)
    <2> HIDE DEF e
    <2>1. QED
      BY <1>0, <1>1, <1>2, <1>3, <1>5, OtherKeys
  <1>7. CASE k \notin Keys
    BY <1>6, <1>7
  <1>8. CASE k \in Keys
    <2>1. j \in ActiveJobs(k)
      BY <1>0, <1>1, <1>8 DEF ActiveJobs, KeyOf, Active
    <2>2. j \in ActiveJobs(k)'
      <3> HIDE DEF e
      <3>1. QED
        BY <1>0, <1>1, <1>2, <1>3 DEF ActiveJobs, KeyOf, Active
    <2>3. Phase(k) = Queue!Pending
      BY <1>1, <1>8, <2>1, PhaseOfKey DEF Queue!Pending
    <2>4. Phase(k)' = Queue!HeldBy(w)
      <3>1. jobs'[j].status = "PROCESSING" /\ worker'[w] = j
        BY <1>2, <1>3, <1>4
      <3>2. QED
        BY <1>8, <2>2, <3>1, PhaseOfKeyNext DEF Queue!HeldBy
    <2>5. \A l \in Keys : Phase(l) # Queue!HeldBy(w)
      BY FreeWorkerHoldsNothing DEF Takes, Queue!HeldBy
    <2>6. Queue!Claim(k, w)
      BY <1>6, <1>8, <2>3, <2>4, <2>5, OnePhase DEF Queue!Claim
    <2>7. QED
      BY <1>8, <2>6 DEF Queue!Next
  <1>9. QED
    BY <1>7, <1>8

LEMMA EndRefines ==
    ASSUME QueueInv, QueueInv', NEW w \in Workers,
           NEW status \in {"PENDING", "FAILED"} \cup Completed, Ends(w, status)
    PROVE  [Queue!Next]_([k \in Keys |-> Phase(k)])
  <1>0. PICK j, k : j = worker[w] /\ k = KeyOf(j)
    OBVIOUS
  <1> DEFINE e == [jobs[j] EXCEPT !.status = status]
  <1>1. /\ j \in DOMAIN jobs /\ jobs[j].status = "PROCESSING"
        /\ DOMAIN jobs[j] = JobFields /\ j # 0
    BY <1>0 DEF Ends, QueueInv, HeldOK, RowsOK
  <1>2. /\ DOMAIN jobs' = DOMAIN jobs
        /\ jobs'[j] = e
        /\ \A i \in DOMAIN jobs \ {j} : jobs'[i] = jobs[i]
    BY <1>0, <1>1 DEF Ends
  <1>3. e.status = status /\ e.snapshot = jobs[j].snapshot /\ e.domain = jobs[j].domain
    BY <1>1 DEF JobFields
  <1>4. worker'[w] = 0 /\ \A v \in Workers \ {w} : worker'[v] = worker[v]
    BY DEF Ends, QueueInv
  <1>5. MovesOnly(j)
    BY <1>0, <1>2, <1>4 DEF MovesOnly, QueueInv, RowsOK, IsSequence
  <1>6. \A l \in Keys \ {k} : Phase(l)' = Phase(l)
    <2> HIDE DEF e
    <2>1. QED
      BY <1>0, <1>1, <1>2, <1>3, <1>5, OtherKeys
  <1>7. CASE k \notin Keys
    BY <1>6, <1>7
  <1>8. CASE k \in Keys
    <2>1. j \in ActiveJobs(k)
      BY <1>0, <1>1 DEF ActiveJobs, KeyOf, Active
    <2>2. Phase(k) = Queue!HeldBy(w)
      BY <1>0, <1>1, <1>8, <2>1, PhaseOfKey DEF Queue!HeldBy
    <2>3. CASE status = "PENDING"
      <3>1. jobs'[j].status = "PENDING"
        BY <1>2, <1>3, <2>3
      <3>2. j \in ActiveJobs(k)'
        <4> HIDE DEF e
        <4>1. QED
          BY <1>0, <1>1, <1>2, <1>3, <2>3 DEF ActiveJobs, KeyOf, Active
      <3>3. Phase(k)' = Queue!Pending
        BY <1>8, <3>1, <3>2, PhaseOfKeyNext DEF Queue!Pending
      <3>4. Queue!GiveBack(k, w)
        BY <1>6, <1>8, <2>2, <3>3, OnePhase DEF Queue!GiveBack
      <3>5. QED
        BY <1>8, <3>4 DEF Queue!Next
    <2>4. CASE status \notin Active
      <3>1. ActiveJobs(k)' = {}
        <4>1. \A i \in DOMAIN jobs \ {j} : ~(jobs[i].status \in Active /\ SameKey(i, j))
          BY <1>1 DEF QueueInv, ActiveOK, Active
        <4> HIDE DEF e
        <4>2. QED
          BY <1>0, <1>2, <1>3, <2>4, <4>1 DEF ActiveJobs, KeyOf, SameKey
      <3>2. Phase(k)' = Queue!Free
        BY <1>8, <3>1, PhaseOfKeyNext DEF Queue!Free
      <3>3. Queue!End(k, w)
        BY <1>6, <1>8, <2>2, <3>2, OnePhase DEF Queue!End
      <3>4. QED
        BY <1>8, <3>3 DEF Queue!Next
    <2>5. QED
      BY <2>3, <2>4 DEF Completed, Active
  <1>9. QED
    BY <1>7, <1>8

LEMMA DeathRefines ==
    ASSUME QueueInv, QueueInv', NEW w \in Workers, Dies(w)
    PROVE  [Queue!Next]_([k \in Keys |-> Phase(k)])
  <1>0. PICK j, k : j = worker[w] /\ k = KeyOf(j)
    OBVIOUS
  <1>1. j \in DOMAIN jobs /\ jobs[j].status = "PROCESSING" /\ j # 0
    BY <1>0 DEF Dies, QueueInv, HeldOK
  <1>2. worker'[w] = 0 /\ \A v \in Workers \ {w} : worker'[v] = worker[v]
    BY DEF Dies, QueueInv
  <1>3. MovesOnly(j)
    BY <1>0, <1>2 DEF MovesOnly, Dies, QueueInv, RowsOK, IsSequence
  <1>4. \A l \in Keys \ {k} : Phase(l)' = Phase(l)
    BY <1>0, <1>1, <1>3, OtherKeys DEF Dies
  <1>5. CASE k \notin Keys
    BY <1>4, <1>5
  <1>6. CASE k \in Keys
    <2>1. j \in ActiveJobs(k) /\ j \in ActiveJobs(k)'
      BY <1>0, <1>1 DEF ActiveJobs, KeyOf, Active, Dies
    <2>2. Phase(k) = Queue!HeldBy(w)
      BY <1>0, <1>1, <1>6, <2>1, PhaseOfKey DEF Queue!HeldBy
    <2>3. \A v \in Workers : worker'[v] # j
      BY <1>0, <1>1, <1>2 DEF QueueInv, HoldersOK
    <2>4. Phase(k)' = Queue!Abandoned
      <3>1. jobs'[j].status = "PROCESSING"
        BY <1>1 DEF Dies
      <3>2. QED
        BY <1>6, <2>1, <2>3, <3>1, PhaseOfKeyNext DEF Queue!Abandoned
    <2>5. Queue!Abandon(k, w)
      BY <1>4, <1>6, <2>2, <2>4, OnePhase DEF Queue!Abandon
    <2>6. QED
      BY <1>6, <2>5 DEF Queue!Next
  <1>7. QED
    BY <1>5, <1>6

LEMMA InitRefines == Init => Queue!Init
  <1> SUFFICES ASSUME Init PROVE Queue!Init
    OBVIOUS
  <1>1. \A k \in Keys : ActiveJobs(k) = {}
    BY DEF Init, ActiveJobs
  <1>2. \A k \in Keys : Phase(k) = Queue!Free
    BY <1>1 DEF Phase, Queue!Free
  <1>3. QED
    BY <1>2 DEF Queue!Init

LEMMA NextRefines ==
    QueueInv /\ QueueInv' /\ [Next]_vars => [Queue!Next]_([k \in Keys |-> Phase(k)])
  <1> SUFFICES ASSUME QueueInv, QueueInv', [Next]_vars
               PROVE  [Queue!Next]_([k \in Keys |-> Phase(k)])
    OBVIOUS
  <1>1. CASE QueueStep
    BY <1>1, SubmitRefines, TakeRefines, EndRefines, DeathRefines DEF QueueStep
  <1>2. CASE UNCHANGED <<jobs, worker>>
    <2>1. \A k \in Keys : Phase(k)' = Phase(k)
      BY <1>2 DEF Phase, PhaseOfJob, ActiveJobs
    <2>2. QED
      BY <2>1
  <1>3. QED
    BY <1>1, <1>2, StepsOfTheQueue

-----------------------------------------------------------------------------
\* What somebody holds is under way and held by nobody else, and of a snapshot and a
\* domain there is one active job: through retries that look for none, overlapping
\* requests, failed attempts and workers that die.
THEOREM QueueInvariant == Spec => []QueueInv
  <1>1. QED
    BY InitQueueInv, NextQueueInv, PTL DEF Spec

\* The jobs of the specialized evaluations are an ExclusiveQueue by snapshot and domain.
THEOREM ImplementsExclusiveQueue == Spec => QueueIsExclusive
  <1>1. Spec => Queue!Spec
    BY QueueInvariant, InitRefines, NextRefines, PTL DEF Spec, Queue!Spec
  <1>2. QED
    BY <1>1 DEF QueueIsExclusive

-----------------------------------------------------------------------------
(* What a request and a worker write, and what their results stand for.   *)

LEMMA Concatenated ==
    ASSUME NEW s, IsSequence(s), NEW t, IsSequence(t)
    PROVE  /\ IsSequence(s \o t)
           /\ Len(s) \in Nat /\ Len(t) \in Nat /\ DOMAIN s = 1 .. Len(s) /\ DOMAIN t = 1 .. Len(t)
           /\ DOMAIN (s \o t) = 1 .. (Len(s) + Len(t))
           /\ \A n \in 1 .. Len(s) : (s \o t)[n] = s[n]
  <1>1. PICK S, T : s \in Seq(S) /\ t \in Seq(T)
    BY DEF IsSequence
  <1>2. s \in Seq(S \cup T) /\ t \in Seq(S \cup T)
    BY <1>1
  <1>3. s \o t \in Seq(S \cup T)
    BY <1>2
  <1>4. QED
    BY <1>2, <1>3 DEF IsSequence

LEMMA Single == ASSUME NEW e PROVE IsSequence(<<e>>) /\ Len(<<e>>) = 1 /\ DOMAIN <<e>> = {1}
  <1>1. <<e>> \in Seq({e})
    OBVIOUS
  <1>2. Len(<<e>>) = 1 /\ DOMAIN <<e>> = 1 .. 1 /\ 1 .. 1 = {1}
    BY <1>1
  <1>3. IsSequence(<<e>>)
    BY <1>1 DEF IsSequence
  <1>4. QED
    BY <1>2, <1>3

\* Rules are only added to.
RulesGrow ==
    /\ DOMAIN rules' = DOMAIN rules
    /\ \A q \in DOMAIN rules : /\ IsSequence(rules'[q])
                               /\ \A n \in DOMAIN rules[q] : n \in DOMAIN rules'[q]
                                                             /\ rules'[q][n] = rules[q][n]

RunFields == {"status", "job", "snapshot", "domain", "rows", "effective", "results"}
ResultFieldsOf == {"status", "source", "review", "reviewed"}

\* A result says what the evaluation of its inputs says; a review stands beside it.
SpeMatches(result, rule, records, day) ==
    /\ DOMAIN result = ResultFieldsOf
    /\ result.status = Evaluate(rule, records, day).status
    /\ result.source = Evaluate(rule, records, day).source

\* The rows of a run exist, and its results are what they, the snapshot and the date
\* of the run give.
SpeRunOK(run) ==
    /\ DOMAIN run = RunFields
    /\ run.snapshot \in DOMAIN Snapshots /\ run.effective \in Closings
    /\ \A q \in DOMAIN run.rows : q \in Requirements /\ run.rows[q] \in DOMAIN rules[q]
    /\ run.status \in Completed => DOMAIN run.results = DOMAIN run.rows
    /\ \A q \in DOMAIN run.results :
          /\ q \in DOMAIN run.rows
          /\ SpeMatches(run.results[q], rules[q][run.rows[q]].rule, Snapshots[run.snapshot],
                        run.effective)

\* What a request has read: the rows that it goes on to commit are there, or are its own.
SpeRequestOK(r) ==
    /\ r.op = "retry" => r.run \in DOMAIN runs
    /\ r.op = "update" => r.requirement \in Requirements /\ IsSequence(r.added)
    /\ r.op = "create" =>
          /\ r.snapshot \in DOMAIN Snapshots /\ r.effective \in Closings
          /\ \A q \in DOMAIN r.rows : q \in Requirements /\ (r.rows[q] # 0 => r.rows[q] \in DOMAIN rules[q])

SpeInv ==
    /\ QueueInv
    /\ DOMAIN rules = Requirements /\ \A q \in Requirements : IsSequence(rules[q])
    /\ IsSequence(runs) /\ \A x \in DOMAIN runs : SpeRunOK(runs[x])
    /\ \A j \in DOMAIN jobs : jobs[j].run \in DOMAIN runs
    /\ DOMAIN request = Clients /\ \A c \in Clients : SpeRequestOK(request[c])
    /\ closing \in Closings

LEMMA SpeInitInv == Init => SpeInv
  <1> SUFFICES ASSUME Init PROVE SpeInv
    OBVIOUS
  <1>1. IsSequence(<<>>)
    BY DEF IsSequence
  <1>2. \A c \in Clients : SpeRequestOK(request[c])
    BY DEF Init, SpeRequestOK, Idle
  <1>3. QED
    BY <1>1, <1>2, InitQueueInv DEF Init, SpeInv

LEMMA SpeRunStaysOK ==
    ASSUME DOMAIN rules = Requirements, RulesGrow, NEW run, SpeRunOK(run)
    PROVE  SpeRunOK(run)'
  BY DEF SpeRunOK, RulesGrow

LEMMA SpeRequestStaysOK ==
    ASSUME DOMAIN rules = Requirements, RulesGrow, DOMAIN runs \subseteq DOMAIN runs',
           NEW r, SpeRequestOK(r)
    PROVE  SpeRequestOK(r)'
  BY DEF SpeRequestOK, RulesGrow

LEMMA ClosingStays == closing \in Closings /\ [Next]_vars => closing' \in Closings
  BY DEF Next, ClientStep, WorkerStep, Synchronise, BeginCreate, CommitCreate, BeginRetry, CommitRetry,
         Refused, BeginUpdate, BeginRead, CommitUpdate, Review, Claim, Complete, Fail, Ended, Crash, vars

\* A step whose runs match, and whose requests are those of before or match.
LEMMA StepKeepsSpeInv ==
    ASSUME SpeInv, [Next]_vars, RulesGrow, DOMAIN runs \subseteq DOMAIN runs', IsSequence(runs'),
           \A x \in DOMAIN runs' : SpeRunOK(runs[x])',
           \A j \in DOMAIN jobs' : jobs'[j].run \in DOMAIN runs',
           DOMAIN request' = Clients,
           \A c \in Clients : request'[c] = request[c] \/ SpeRequestOK(request'[c])
    PROVE  SpeInv'
  <1>1. QueueInv'
    BY NextQueueInv DEF SpeInv
  <1>2. \A c \in Clients : SpeRequestOK(request'[c])
    BY DEF SpeInv
  <1>3. ASSUME NEW r, SpeRequestOK(r) PROVE SpeRequestOK(r)'
    BY <1>3, SpeRequestStaysOK DEF SpeInv
  <1>4. \A c \in Clients : SpeRequestOK(request[c])'
    BY <1>2, <1>3 DEF SpeRequestOK
  <1>5. QED
    BY <1>1, <1>4, ClosingStays DEF SpeInv, RulesGrow

\* A step that leaves the rules and the runs alone, and writes at most what a request read.
LEMMA ReadingKeepsSpeInv ==
    ASSUME SpeInv, [Next]_vars, NEW c \in Clients, NEW r, SpeRequestOK(r),
           request' = [request EXCEPT ![c] = r], UNCHANGED <<rules, runs, jobs>>
    PROVE  SpeInv'
  <1>1. RulesGrow
    BY DEF RulesGrow, SpeInv
  <1>2. /\ DOMAIN request' = Clients
        /\ \A x \in Clients : request'[x] = request[x] \/ SpeRequestOK(request'[x])
    BY DEF SpeInv
  <1>3. \A x \in DOMAIN runs' : SpeRunOK(runs[x])'
    BY <1>1, SpeRunStaysOK DEF SpeInv
  <1>4. QED
    BY <1>1, <1>2, <1>3, StepKeepsSpeInv DEF SpeInv

LEMMA SpeBeginCreateKeepsInv ==
    ASSUME SpeInv, [Next]_vars, NEW c \in Clients, NEW snapshot \in DOMAIN Snapshots, NEW domain, NEW force,
           BeginCreate(c, snapshot, domain, force)
    PROVE  SpeInv'
  <1>1. PICK rows \in Picks(domain) :
           request' = [request EXCEPT ![c] =
              [op |-> "create", snapshot |-> snapshot, domain |-> domain, rows |-> rows,
               effective |-> closing]]
    BY DEF BeginCreate
  <1>2. PICK r : r = [op |-> "create", snapshot |-> snapshot, domain |-> domain, rows |-> rows,
                      effective |-> closing]
    OBVIOUS
  <1>3. DOMAIN rows = InDomain(domain)
        /\ \A q \in InDomain(domain) : rows[q] \in (IF rules[q] = <<>> THEN {0} ELSE LatestRows(q))
    BY DEF Picks
  <1>4. \A q \in DOMAIN rows : q \in Requirements /\ (rows[q] # 0 => rows[q] \in DOMAIN rules[q])
    BY <1>3 DEF InDomain, LatestRows
  <1>5. SpeRequestOK(r)
    BY <1>2, <1>4 DEF SpeRequestOK, SpeInv
  <1>6. request' = [request EXCEPT ![c] = r]
    BY <1>1, <1>2
  <1>7. QED
    BY <1>5, <1>6, ReadingKeepsSpeInv DEF BeginCreate

LEMMA SpeRequestsKeepInv ==
    ASSUME SpeInv, [Next]_vars, NEW c \in Clients,
           \/ \E x \in DOMAIN runs : BeginRetry(c, x)
           \/ \E q \in Requirements : BeginRead(c, q) \/ \E update \in Updates : BeginUpdate(c, q, update)
           \/ Refused(c)
    PROVE  SpeInv'
  <1>1. CASE \E x \in DOMAIN runs : BeginRetry(c, x)
    <2>1. PICK x \in DOMAIN runs : BeginRetry(c, x)
      BY <1>1
    <2>2. PICK r : request' = [request EXCEPT ![c] = r] /\ r = [op |-> "retry", run |-> x]
      BY <2>1 DEF BeginRetry
    <2>3. SpeRequestOK(r)
      BY <2>2 DEF SpeRequestOK
    <2>4. QED
      BY <2>1, <2>2, <2>3, ReadingKeepsSpeInv DEF BeginRetry
  <1>2. CASE \E q \in Requirements : BeginRead(c, q)
    <2>1. PICK q \in Requirements : BeginRead(c, q)
      BY <1>2
    <2>2. PICK r : r = [op |-> "update", requirement |-> q, added |-> <<FirstRow(q)>>]
      OBVIOUS
    <2>3. request' = [request EXCEPT ![c] = r]
      BY <2>1, <2>2 DEF BeginRead
    <2>4. r.op = "update" /\ r.requirement = q /\ r.added = <<FirstRow(q)>>
      BY <2>2
    <2>5. SpeRequestOK(r)
      BY <2>4, Single DEF SpeRequestOK
    <2>6. QED
      BY <2>1, <2>3, <2>5, ReadingKeepsSpeInv DEF BeginRead
  <1>3. CASE \E q \in Requirements, update \in Updates : BeginUpdate(c, q, update)
    <2>1. PICK q \in Requirements, update \in Updates : BeginUpdate(c, q, update)
      BY <1>3
    <2>2. PICK row : request' = [request EXCEPT ![c] =
              [op |-> "update", requirement |-> q,
               added |-> (IF rules[q] = <<>> THEN <<row>> ELSE <<>>)
                            \o <<[version |-> row.version + 1, rule |-> Override(row.rule, update)]>>]]
      BY <2>1 DEF BeginUpdate
    <2>3. PICK first, second : /\ first = IF rules[q] = <<>> THEN <<row>> ELSE <<>>
                               /\ second = [version |-> row.version + 1, rule |-> Override(row.rule, update)]
      OBVIOUS
    <2>4. PICK r : r = [op |-> "update", requirement |-> q, added |-> first \o <<second>>]
      OBVIOUS
    <2>5. request' = [request EXCEPT ![c] = r]
      BY <2>2, <2>3, <2>4
    <2>6. IsSequence(first)
      <3>1. IsSequence(<<>>) /\ IsSequence(<<row>>)
        BY Single DEF IsSequence
      <3>2. QED
        BY <2>3, <3>1
    <2>7. IsSequence(first \o <<second>>)
      BY <2>6, Single, Concatenated
    <2>8. r.op = "update" /\ r.requirement = q /\ r.added = first \o <<second>>
      BY <2>4
    <2>9. SpeRequestOK(r)
      BY <2>7, <2>8 DEF SpeRequestOK
    <2>10. QED
      BY <2>1, <2>5, <2>9, ReadingKeepsSpeInv DEF BeginUpdate
  <1>4. CASE Refused(c)
    <2>1. SpeRequestOK(Idle)
      BY DEF SpeRequestOK, Idle
    <2>2. QED
      BY <1>4, <2>1, ReadingKeepsSpeInv DEF Refused
  <1>5. QED
    BY <1>1, <1>2, <1>3, <1>4

\* Rows of the new run exist, those it brings along included.
LEMMA SpeCommitCreateKeepsInv ==
    ASSUME SpeInv, [Next]_vars, NEW c \in Clients, CommitCreate(c)
    PROVE  SpeInv'
  <1>1. PICK r : r = request[c] /\ SpeRequestOK(r) /\ r.op = "create"
    BY DEF CommitCreate, SpeInv
  <1> DEFINE own == {q \in DOMAIN r.rows : r.rows[q] = 0}
  <1>2. /\ rules' = [q \in Requirements |-> IF q \in own THEN Append(rules[q], FirstRow(q)) ELSE rules[q]]
        /\ request' = [request EXCEPT ![c] = Idle]
    BY <1>1 DEF CommitCreate
  <1>3. PICK rows : rows = [q \in DOMAIN r.rows |-> IF q \in own THEN Len(rules[q]) + 1 ELSE r.rows[q]]
    OBVIOUS
  <1>4. PICK run, job : run = NewRun(r, rows) /\ job = NewJob(Len(runs) + 1, r.snapshot, r.domain)
    OBVIOUS
  <1>5. runs' = Append(runs, run) /\ jobs' = Append(jobs, job)
    BY <1>1, <1>3, <1>4 DEF CommitCreate
  <1>6. /\ DOMAIN run = RunFields /\ run.status = "PENDING" /\ run.rows = rows /\ run.results = <<>>
        /\ run.snapshot = r.snapshot /\ run.effective = r.effective
        /\ job.run = Len(runs) + 1
    BY <1>4 DEF NewRun, NewJob, RunFields
  <1>7. ASSUME NEW q \in Requirements
        PROVE  /\ IsSequence(rules'[q])
               /\ \A n \in DOMAIN rules[q] : n \in DOMAIN rules'[q] /\ rules'[q][n] = rules[q][n]
               /\ q \in own => Len(rules[q]) + 1 \in DOMAIN rules'[q]
    <2>1. PICK s : s = rules[q] /\ IsSequence(s)
      BY DEF SpeInv
    <2>2. /\ IsSequence(Append(s, FirstRow(q))) /\ Len(s) \in Nat /\ DOMAIN s = 1 .. Len(s)
          /\ DOMAIN Append(s, FirstRow(q)) = 1 .. (Len(s) + 1)
          /\ \A n \in 1 .. Len(s) : Append(s, FirstRow(q))[n] = s[n]
      BY <2>1, Appended
    <2>3. /\ Len(s) + 1 \in DOMAIN Append(s, FirstRow(q))
          /\ \A n \in DOMAIN s : n \in DOMAIN Append(s, FirstRow(q)) /\ Append(s, FirstRow(q))[n] = s[n]
      BY <2>2
    <2>4. rules'[q] = IF q \in own THEN Append(s, FirstRow(q)) ELSE s
      BY <1>2, <2>1
    <2>5. CASE q \in own
      BY <2>1, <2>2, <2>3, <2>4, <2>5
    <2>6. CASE q \notin own
      BY <2>1, <2>4, <2>6
    <2>7. QED
      BY <2>5, <2>6
  <1>8. RulesGrow
    <2>1. DOMAIN rules' = DOMAIN rules /\ DOMAIN rules = Requirements
      BY <1>2 DEF SpeInv
    <2>2. QED
      BY <1>7, <2>1 DEF RulesGrow
  <1>9. \A q \in DOMAIN rows : q \in Requirements /\ rows[q] \in DOMAIN rules'[q]
    <2>1. \A q \in DOMAIN r.rows : q \in Requirements /\ (r.rows[q] # 0 => r.rows[q] \in DOMAIN rules[q])
      BY <1>1 DEF SpeRequestOK
    <2>2. QED
      BY <1>3, <1>7, <2>1
  <1>10. SpeRunOK(run)'
    <2>1. DOMAIN run.results = {} /\ run.status \notin Completed
      BY <1>6 DEF Completed
    <2>2. QED
      BY <1>1, <1>6, <1>9, <2>1 DEF SpeRunOK, SpeRequestOK
  <1>11. /\ IsSequence(runs') /\ Len(runs) \in Nat /\ DOMAIN runs = 1 .. Len(runs)
         /\ DOMAIN runs' = 1 .. (Len(runs) + 1) /\ runs'[Len(runs) + 1] = run
         /\ \A x \in 1 .. Len(runs) : runs'[x] = runs[x]
    BY <1>5, Appended DEF SpeInv
  <1>12. /\ \A x \in DOMAIN runs' : x \in DOMAIN runs \/ runs'[x] = run
         /\ \A x \in DOMAIN runs : x \in DOMAIN runs' /\ runs'[x] = runs[x]
         /\ Len(runs) + 1 \in DOMAIN runs'
    BY <1>11
  <1>13. \A j \in DOMAIN jobs' : (j \in DOMAIN jobs /\ jobs'[j] = jobs[j]) \/ jobs'[j] = job
    <2>1. /\ Len(jobs) \in Nat /\ DOMAIN jobs = 1 .. Len(jobs)
          /\ DOMAIN jobs' = 1 .. (Len(jobs) + 1) /\ jobs'[Len(jobs) + 1] = job
          /\ \A j \in 1 .. Len(jobs) : jobs'[j] = jobs[j]
      BY <1>5, Appended DEF SpeInv, QueueInv, RowsOK
    <2>2. QED
      BY <2>1
  <1>14. \A x \in DOMAIN runs' : SpeRunOK(runs[x])'
    <2>1. \A x \in DOMAIN runs : \A y : y = runs[x] => SpeRunOK(y)'
      BY <1>8, SpeRunStaysOK DEF SpeInv
    <2>2. \A x \in DOMAIN runs : SpeRunOK(runs[x])'
      BY <1>12, <2>1
    <2>3. ASSUME NEW x \in DOMAIN runs' PROVE SpeRunOK(runs[x])'
      BY <1>10, <1>12, <2>2
    <2>4. QED
      BY <2>3
  <1>15. \A j \in DOMAIN jobs' : jobs'[j].run \in DOMAIN runs'
    BY <1>6, <1>12, <1>13 DEF SpeInv
  <1>16. SpeRequestOK(Idle)
    BY DEF SpeRequestOK, Idle
  <1>17. /\ DOMAIN request' = Clients
         /\ \A x \in Clients : request'[x] = request[x] \/ SpeRequestOK(request'[x])
    BY <1>2, <1>16 DEF SpeInv
  <1>18. DOMAIN runs \subseteq DOMAIN runs'
    BY <1>12
  <1>19. QED
    BY <1>8, <1>11, <1>14, <1>15, <1>17, <1>18, StepKeepsSpeInv

LEMMA SpeCommitUpdateKeepsInv ==
    ASSUME SpeInv, [Next]_vars, NEW c \in Clients, CommitUpdate(c)
    PROVE  SpeInv'
  <1>1. PICK q, added : q \in Requirements /\
           IsSequence(added) /\ rules' = [rules EXCEPT ![q] = rules[q] \o added]
    <2>1. SpeRequestOK(request[c]) /\ request[c].op = "update"
      BY DEF CommitUpdate, SpeInv
    <2>2. QED
      BY <2>1 DEF CommitUpdate, SpeRequestOK
  <1>2. /\ IsSequence(rules[q] \o added)
        /\ \A n \in DOMAIN rules[q] : /\ n \in DOMAIN (rules[q] \o added)
                                      /\ (rules[q] \o added)[n] = rules[q][n]
    <2>1. PICK s : s = rules[q] /\ IsSequence(s)
      BY <1>1 DEF SpeInv
    <2>2. /\ IsSequence(s \o added) /\ Len(s) \in Nat /\ Len(added) \in Nat
          /\ DOMAIN s = 1 .. Len(s) /\ DOMAIN (s \o added) = 1 .. (Len(s) + Len(added))
          /\ \A n \in 1 .. Len(s) : (s \o added)[n] = s[n]
      BY <1>1, <2>1, Concatenated
    <2>3. QED
      BY <2>1, <2>2
  <1>3. RulesGrow
    BY <1>1, <1>2 DEF SpeInv, RulesGrow
  <1>4. SpeRequestOK(Idle)
    BY DEF SpeRequestOK, Idle
  <1>5. /\ DOMAIN request' = Clients /\ UNCHANGED <<runs, jobs>>
        /\ \A x \in Clients : request'[x] = request[x] \/ SpeRequestOK(request'[x])
    BY <1>4 DEF CommitUpdate, SpeInv
  <1>6. \A x \in DOMAIN runs' : SpeRunOK(runs[x])'
    BY <1>3, <1>5, SpeRunStaysOK DEF SpeInv
  <1>7. QED
    BY <1>3, <1>5, <1>6, StepKeepsSpeInv DEF SpeInv

\* What the other steps have in common: one run is replaced by one that matches.
LEMMA RunReplacedKeepsSpeInv ==
    ASSUME SpeInv, [Next]_vars, UNCHANGED rules,
           NEW x \in DOMAIN runs, NEW run, SpeRunOK(run), runs' = [runs EXCEPT ![x] = run],
           \A j \in DOMAIN jobs' : (j \in DOMAIN jobs /\ jobs'[j].run = jobs[j].run) \/ jobs'[j].run = x,
           DOMAIN request' = Clients,
           \A c \in Clients : request'[c] = request[c] \/ request'[c] = Idle
    PROVE  SpeInv'
  <1>1. /\ IsSequence(runs') /\ DOMAIN runs' = DOMAIN runs /\ runs'[x] = run
        /\ \A y \in DOMAIN runs \ {x} : runs'[y] = runs[y]
    BY Replaced DEF SpeInv
  <1>2. RulesGrow
    BY DEF SpeInv, RulesGrow
  <1>3. \A y \in DOMAIN runs' : SpeRunOK(runs'[y])
    BY <1>1 DEF SpeInv
  <1>4. \A y \in DOMAIN runs' : SpeRunOK(runs[y])'
    BY <1>3 DEF SpeRunOK
  <1>5. SpeRequestOK(Idle)
    BY DEF SpeRequestOK, Idle
  <1>6. QED
    BY <1>1, <1>2, <1>4, <1>5, StepKeepsSpeInv DEF SpeInv

LEMMA SpeCommitRetryKeepsInv ==
    ASSUME SpeInv, [Next]_vars, NEW c \in Clients, CommitRetry(c)
    PROVE  SpeInv'
  <1>1. PICK x \in DOMAIN runs : x = request[c].run
    BY DEF CommitRetry, SpeInv, SpeRequestOK
  <1>2. PICK old : old = runs[x] /\ SpeRunOK(old)
    BY DEF SpeInv
  <1>3. PICK run : run = [old EXCEPT !.status = "PENDING", !.job = Len(jobs) + 1]
    OBVIOUS
  <1>4. runs' = [runs EXCEPT ![x] = run]
    BY <1>1, <1>2, <1>3 DEF CommitRetry
  <1>5. SpeRunOK(run)
    <2>1. /\ DOMAIN run = RunFields /\ run.status = "PENDING" /\ run.snapshot = old.snapshot
          /\ run.rows = old.rows /\ run.effective = old.effective /\ run.results = old.results
      BY <1>2, <1>3 DEF SpeRunOK, RunFields
    <2>2. run.status \notin Completed
      BY <2>1 DEF Completed
    <2>3. QED
      BY <1>2, <2>1, <2>2 DEF SpeRunOK
  <1>6. PICK job : job.run = x /\ jobs' = Append(jobs, job)
    <2>1. PICK job : job = NewJob(x, runs[x].snapshot, runs[x].domain)
      OBVIOUS
    <2>2. job.run = x
      BY <2>1 DEF NewJob
    <2>3. QED
      BY <1>1, <2>1, <2>2 DEF CommitRetry
  <1>7. \A j \in DOMAIN jobs' : (j \in DOMAIN jobs /\ jobs'[j].run = jobs[j].run) \/ jobs'[j].run = x
    <2>1. /\ Len(jobs) \in Nat /\ DOMAIN jobs = 1 .. Len(jobs)
          /\ DOMAIN jobs' = 1 .. (Len(jobs) + 1) /\ jobs'[Len(jobs) + 1] = job
          /\ \A j \in 1 .. Len(jobs) : jobs'[j] = jobs[j]
      BY <1>6, Appended DEF SpeInv, QueueInv, RowsOK
    <2>2. QED
      BY <1>6, <2>1
  <1>8. /\ DOMAIN request' = Clients /\ UNCHANGED rules
        /\ \A y \in Clients : request'[y] = request[y] \/ request'[y] = Idle
    BY DEF CommitRetry, SpeInv
  <1>9. QED
    BY <1>4, <1>5, <1>7, <1>8, RunReplacedKeepsSpeInv

LEMMA SpeReviewKeepsInv ==
    ASSUME SpeInv, [Next]_vars, NEW c \in Clients, NEW x \in DOMAIN runs, NEW q, NEW verdict,
           Review(c, x, q, verdict)
    PROVE  SpeInv'
  <1>1. PICK old : old = runs[x] /\ SpeRunOK(old)
    BY DEF SpeInv
  <1>2. PICK was : q \in DOMAIN old.results /\ was = old.results[q] /\ DOMAIN was = ResultFieldsOf
    BY <1>1 DEF Review, SpeRunOK, SpeMatches
  <1>3. PICK result, results :
          /\ result = [was EXCEPT !.reviewed = verdict]
          /\ results = [old.results EXCEPT ![q] = result]
    OBVIOUS
  <1>4. PICK run : run = [old EXCEPT !.results = results]
    OBVIOUS
  <1>5. runs' = [runs EXCEPT ![x] = run]
    BY <1>1, <1>2, <1>3, <1>4 DEF Review
  <1>6. DOMAIN result = ResultFieldsOf /\ result.status = was.status /\ result.source = was.source
    BY <1>2, <1>3 DEF ResultFieldsOf
  <1>7. /\ DOMAIN results = DOMAIN old.results /\ results[q] = result
        /\ \A p \in DOMAIN old.results \ {q} : results[p] = old.results[p]
    BY <1>2, <1>3
  <1>8. /\ DOMAIN run = RunFields /\ run.status = old.status /\ run.snapshot = old.snapshot
        /\ run.rows = old.rows /\ run.effective = old.effective /\ run.results = results
    BY <1>1, <1>4 DEF SpeRunOK, RunFields
  <1>9. SpeRunOK(run)
    <2>1. ASSUME NEW p \in DOMAIN run.results
          PROVE  /\ p \in DOMAIN run.rows
                 /\ SpeMatches(run.results[p], rules[p][run.rows[p]].rule, Snapshots[run.snapshot],
                               run.effective)
      BY <1>1, <1>2, <1>6, <1>7, <1>8 DEF SpeRunOK, SpeMatches
    <2>2. QED
      BY <1>1, <1>7, <1>8, <2>1 DEF SpeRunOK
  <1>10. UNCHANGED <<rules, jobs, request>>
    BY DEF Review
  <1>11. QED
    BY <1>5, <1>9, <1>10, RunReplacedKeepsSpeInv DEF SpeInv

\* The end of an attempt gives the run a status and results that its inputs account for.
LEMMA SpeEndedKeepsInv ==
    ASSUME SpeInv, [Next]_vars, NEW j \in DOMAIN jobs, NEW x \in DOMAIN runs, x = jobs[j].run,
           NEW status, NEW results,
           jobs' = [jobs EXCEPT ![j].status = status],
           runs' = [runs EXCEPT ![x].status = status, ![x].results = results],
           UNCHANGED <<rules, request>>,
           status \in Completed => DOMAIN results = DOMAIN runs[x].rows,
           \A q \in DOMAIN results :
              /\ q \in DOMAIN runs[x].rows
              /\ SpeMatches(results[q], rules[q][runs[x].rows[q]].rule, Snapshots[runs[x].snapshot],
                            runs[x].effective)
    PROVE  SpeInv'
  <1>1. PICK old, was : old = runs[x] /\ SpeRunOK(old) /\ was = jobs[j] /\ DOMAIN was = JobFields
    BY DEF SpeInv, QueueInv, RowsOK
  <1>2. PICK run, job : /\ run = [old EXCEPT !.status = status, !.results = results]
                        /\ job = [was EXCEPT !.status = status]
    OBVIOUS
  <1>3. runs' = [runs EXCEPT ![x] = run] /\ jobs' = [jobs EXCEPT ![j] = job]
    BY <1>1, <1>2
  <1>4. /\ DOMAIN run = RunFields /\ run.status = status /\ run.snapshot = old.snapshot
        /\ run.rows = old.rows /\ run.effective = old.effective /\ run.results = results
    BY <1>1, <1>2 DEF SpeRunOK, RunFields
  <1>5. SpeRunOK(run)
    BY <1>1, <1>4 DEF SpeRunOK
  <1>6. job.run = was.run
    BY <1>1, <1>2 DEF JobFields
  <1>7. \A i \in DOMAIN jobs' : i \in DOMAIN jobs /\ jobs'[i].run = jobs[i].run
    BY <1>1, <1>3, <1>6
  <1>8. /\ DOMAIN request' = Clients /\ UNCHANGED rules
        /\ \A c \in Clients : request'[c] = request[c] \/ request'[c] = Idle
    BY DEF SpeInv
  <1>9. SpeInv /\ [Next]_vars /\ x \in DOMAIN runs
    OBVIOUS
  <1>10. QED
    BY ONLY <1>3, <1>5, <1>7, <1>8, <1>9, RunReplacedKeepsSpeInv

LEMMA SpeWorkersKeepInv ==
    ASSUME SpeInv, [Next]_vars, NEW w \in Workers, WorkerStep(w) \/ Crash(w)
    PROVE  SpeInv'
  <1>1. CASE Claim(w)
    <2>1. PICK j \in DOMAIN jobs :
             /\ jobs' = [jobs EXCEPT ![j].status = "PROCESSING", ![j].attempts = @ + 1]
             /\ runs' = [runs EXCEPT ![jobs[j].run].status = "PROCESSING"]
             /\ UNCHANGED <<rules, request>>
      BY <1>1 DEF Claim
    <2>2. PICK x \in DOMAIN runs : x = jobs[j].run
      BY DEF SpeInv
    <2>3. PICK old, was : old = runs[x] /\ SpeRunOK(old) /\ was = jobs[j] /\ DOMAIN was = JobFields
      BY DEF SpeInv, QueueInv, RowsOK
    <2>4. PICK run, job : /\ run = [old EXCEPT !.status = "PROCESSING"]
                          /\ job = [was EXCEPT !.status = "PROCESSING", !.attempts = @ + 1]
      OBVIOUS
    <2>5. runs' = [runs EXCEPT ![x] = run] /\ jobs' = [jobs EXCEPT ![j] = job]
      BY <2>1, <2>2, <2>3, <2>4
    <2>6. /\ DOMAIN run = RunFields /\ run.status = "PROCESSING" /\ run.snapshot = old.snapshot
          /\ run.rows = old.rows /\ run.effective = old.effective /\ run.results = old.results
      BY <2>3, <2>4 DEF SpeRunOK, RunFields
    <2>7. SpeRunOK(run)
      <3>1. run.status \notin Completed
        BY <2>6 DEF Completed
      <3>2. QED
        BY <2>3, <2>6, <3>1 DEF SpeRunOK
    <2>8. job.run = was.run
      BY <2>3, <2>4 DEF JobFields
    <2>9. \A i \in DOMAIN jobs' : i \in DOMAIN jobs /\ jobs'[i].run = jobs[i].run
      BY <2>3, <2>5, <2>8
    <2>10. QED
      BY <2>1, <2>5, <2>7, <2>9, RunReplacedKeepsSpeInv DEF SpeInv
  <1>2. CASE Complete(w)
    <2>1. PICK j \in DOMAIN jobs : j = worker[w]
      BY <1>2 DEF Complete, SpeInv, QueueInv, HeldOK
    <2>2. PICK x \in DOMAIN runs : x = jobs[j].run
      BY DEF SpeInv
    <2>3. PICK rows, records, day :
             rows = runs[x].rows /\ records = Snapshots[runs[x].snapshot] /\ day = runs[x].effective
      OBVIOUS
    <2>4. PICK outcome :
             outcome = [q \in DOMAIN rows |-> Evaluate(rules[q][rows[q]].rule, records, day)]
      OBVIOUS
    <2>5. PICK status, results :
             /\ Ended(w, status, results)
             /\ results = [q \in DOMAIN outcome |-> NewResult(outcome[q])]
      BY <1>2, <2>1, <2>2, <2>3, <2>4 DEF Complete, EffectiveAt
    <2>6. \A q \in DOMAIN rows : SpeMatches(results[q], rules[q][rows[q]].rule, records, day)
      BY <2>4, <2>5 DEF SpeMatches, NewResult, ResultFieldsOf
    <2>7. DOMAIN results = DOMAIN rows
      BY <2>4, <2>5
    <2>8. /\ jobs' = [jobs EXCEPT ![j].status = status]
          /\ runs' = [runs EXCEPT ![x].status = status, ![x].results = results]
          /\ UNCHANGED <<rules, request>>
      BY <2>1, <2>2, <2>5 DEF Ended
    <2>9. QED
      BY <2>2, <2>3, <2>6, <2>7, <2>8, SpeEndedKeepsInv
  <1>3. CASE Fail(w)
    <2>1. PICK j \in DOMAIN jobs : j = worker[w]
      BY <1>3 DEF Fail, SpeInv, QueueInv, HeldOK
    <2>2. PICK x \in DOMAIN runs : x = jobs[j].run
      BY DEF SpeInv
    <2>3. PICK status : Ended(w, status, runs[x].results) /\ status \in {"PENDING", "FAILED"}
      BY <1>3, <2>1, <2>2 DEF Fail
    <2>4. /\ jobs' = [jobs EXCEPT ![j].status = status]
          /\ runs' = [runs EXCEPT ![x].status = status, ![x].results = runs[x].results]
          /\ UNCHANGED <<rules, request>>
      BY <2>1, <2>2, <2>3 DEF Ended
    <2>5. status \notin Completed
      BY <2>3 DEF Completed
    <2>6. SpeRunOK(runs[x])
      BY DEF SpeInv
    <2>7. QED
      BY <2>2, <2>4, <2>5, <2>6, SpeEndedKeepsInv DEF SpeRunOK
  <1>4. CASE Crash(w)
    <2>1. UNCHANGED <<rules, runs, jobs, request>>
      BY <1>4 DEF Crash
    <2>2. RulesGrow
      BY <2>1 DEF SpeInv, RulesGrow
    <2>3. \A x \in DOMAIN runs' : SpeRunOK(runs[x])'
      BY <2>1, <2>2, SpeRunStaysOK DEF SpeInv
    <2>4. QED
      BY <2>1, <2>2, <2>3, StepKeepsSpeInv DEF SpeInv
  <1>5. QED
    BY <1>1, <1>2, <1>3, <1>4 DEF WorkerStep

LEMMA NextSpeInv == SpeInv /\ [Next]_vars => SpeInv'
  <1> SUFFICES ASSUME SpeInv, [Next]_vars PROVE SpeInv'
    OBVIOUS
  <1>1. CASE Synchronise \/ UNCHANGED vars
    <2>1. UNCHANGED <<rules, runs, jobs, request>>
      BY <1>1 DEF Synchronise, vars
    <2>2. RulesGrow
      BY <2>1 DEF SpeInv, RulesGrow
    <2>3. \A x \in DOMAIN runs' : SpeRunOK(runs[x])'
      BY <2>1, <2>2, SpeRunStaysOK DEF SpeInv
    <2>4. QED
      BY <2>1, <2>2, <2>3, StepKeepsSpeInv DEF SpeInv
  <1>2. ASSUME NEW c \in Clients, ClientStep(c) PROVE SpeInv'
    BY <1>2, SpeBeginCreateKeepsInv, SpeRequestsKeepInv, SpeCommitCreateKeepsInv,
       SpeCommitRetryKeepsInv, SpeCommitUpdateKeepsInv, SpeReviewKeepsInv DEF ClientStep
  <1>3. ASSUME NEW w \in Workers, WorkerStep(w) \/ Crash(w) PROVE SpeInv'
    BY <1>3, SpeWorkersKeepInv
  <1>4. QED
    BY <1>1, <1>2, <1>3 DEF Next

LEMMA SpeInvariant == Spec => []SpeInv
  BY SpeInitInv, NextSpeInv, PTL DEF Spec

\* Completed specialized runs of one digest agree on every requirement, however often they
\* were retried and whatever was synchronised or overridden in between.
THEOREM SpecializedDigestDecides == Spec => []SameDigestSameResults
  <1>1. SpeInv => SameDigestSameResults
    <2> SUFFICES ASSUME SpeInv, NEW x \in DOMAIN runs, NEW y \in DOMAIN runs,
                        runs[x].status \in Completed, runs[y].status \in Completed,
                        runs[x].snapshot = runs[y].snapshot, runs[x].rows = runs[y].rows,
                        runs[x].effective = runs[y].effective, NEW q \in DOMAIN runs[x].results
                 PROVE  runs[x].results[q].status = runs[y].results[q].status
      BY DEF SameDigestSameResults
    <2>1. q \in DOMAIN runs[x].results /\ q \in DOMAIN runs[y].results
      BY DEF SpeInv, SpeRunOK
    <2>2. \A z \in {x, y} : runs[z].results[q].status =
             Evaluate(rules[q][runs[z].rows[q]].rule, Snapshots[runs[z].snapshot], runs[z].effective).status
      BY <2>1 DEF SpeInv, SpeRunOK, SpeMatches
    <2>3. QED
      BY <2>2
  <1>2. QED
    BY <1>1, SpeInvariant, PTL

-----------------------------------------------------------------------------
(* The least place of a set of places.                                     *)

LEMMA LeastOfNats ==
    ASSUME NEW S \in SUBSET Nat, S # {}
    PROVE  \E n \in S : \A m \in S : n <= m
  <1>1. PICK R : R = {ss \in Nat \X Nat : ss[1] < ss[2]}
    OBVIOUS
  <1>2. IsWellFoundedOn(R, Nat)
    BY <1>1, NatLessThanWellFounded, Zenon DEF OpToRel
  <1>3. PICK x \in S : \A y \in S : ~(<<y, x>> \in R)
    BY <1>2, WFMin
  <1>4. ASSUME NEW y \in S PROVE x <= y
    <2>1. x \in Nat /\ y \in Nat /\ ~(<<y, x>> \in R)
      BY <1>3
    <2>2. <<y, x>> \in Nat \X Nat /\ <<y, x>>[1] = y /\ <<y, x>>[2] = x
      BY <2>1
    <2>3. ~(y < x)
      BY <1>1, <2>1, <2>2
    <2>4. QED
      BY <2>1, <2>3
  <1>5. QED
    BY <1>4

LEMMA LeastPlace == ASSUME NEW S \in SUBSET Nat, S # {} PROVE Min(S) \in S
  BY LeastOfNats DEF Min

-----------------------------------------------------------------------------
(* COMPLIES rests on a record of the snapshot.                             *)

\* What a record has to be for its requirement to be met.
Supports(record, records, day) ==
    /\ \E n \in DOMAIN records : record = records[n]
    /\ "CONFLICTING" \notin record.links
    /\ ({record.status} \cup record.links) \cap {"VERIFIED", "SUPPORTED"} # {}
    /\ record.status \notin {"REJECTED", "EXPIRED"}
    /\ record.expires # Null => record.expires >= day
    /\ record.kind = "EXPERIENCE" => record.execution = "COMPLETED"

RecordsOK(records) ==
    /\ DOMAIN records \in SUBSET Nat
    /\ \A n \in DOMAIN records : /\ records[n].expires \in Nat \cup {Null}
                                 /\ records[n].kind = "EXPERIENCE" => records[n].expires = Null

LEMMA ResolutionFields ==
    ASSUME NEW record, NEW usability, NEW warning
    PROVE  /\ Resolution(record, usability, warning).record = record
           /\ Resolution(record, usability, warning).usability = usability
           /\ Resolution(record, usability, warning).warning = warning
  BY DEF Resolution

LEMMA CompliesUsable ==
    ASSUME NEW r, VerdictOf(r) = "COMPLIES"
    PROVE  /\ r.usability \notin {"CONFLICTING", "MISSING", "DECLARED_ONLY", "REJECTED", "EXPIRED"}
           /\ r.warning \notin {"VALUE_BELOW_REQUIRED", "COUNT_BELOW_REQUIRED"}
  BY DEF VerdictOf

LEMMA UsableRecord ==
    ASSUME NEW record,
           RecordUsability(record) \notin {"CONFLICTING", "MISSING", "DECLARED_ONLY", "REJECTED", "EXPIRED"}
    PROVE  /\ "CONFLICTING" \notin record.links
           /\ ({record.status} \cup record.links) \cap {"VERIFIED", "SUPPORTED"} # {}
           /\ record.status \notin {"REJECTED", "EXPIRED"}
  BY DEF RecordUsability

LEMMA FirstUsableSupports ==
    ASSUME NEW records, RecordsOK(records), NEW found \in SUBSET DOMAIN records, NEW day \in Nat,
           \A n \in found : records[n].kind # "EXPERIENCE",
           VerdictOf(FirstUsable(records, found, day)) = "COMPLIES"
    PROVE  Supports(FirstUsable(records, found, day).record, records, day)
  <1>1. PICK r : r = FirstUsable(records, found, day)
    OBVIOUS
  <1>2. r.usability \notin {"CONFLICTING", "MISSING", "DECLARED_ONLY", "REJECTED", "EXPIRED"}
    BY <1>1, CompliesUsable
  <1>3. found # {}
    BY <1>1, <1>2, ResolutionFields DEF FirstUsable, Nothing
  <1>4. Min(found) \in found
    BY <1>3, LeastPlace DEF RecordsOK
  <1>5. PICK record : record = records[Min(found)]
    OBVIOUS
  <1>6. PICK past : past <=> (record.expires # Null /\ record.expires < day)
    OBVIOUS
  <1>7. r = Resolution(record, IF past THEN "EXPIRED" ELSE RecordUsability(record), Null)
    BY <1>1, <1>3, <1>5, <1>6 DEF FirstUsable
  <1>8. r.record = record /\ r.usability = (IF past THEN "EXPIRED" ELSE RecordUsability(record))
    BY <1>7, ResolutionFields
  <1>9. ~past /\ r.usability = RecordUsability(record)
    BY <1>2, <1>8
  <1>10. record.expires # Null => record.expires >= day
    BY <1>4, <1>5, <1>6, <1>9 DEF RecordsOK
  <1>11. QED
    BY <1>1, <1>2, <1>4, <1>5, <1>8, <1>9, <1>10, UsableRecord DEF Supports

\* One of the contracts that are not rejected, if it counts.
LEMMA ContractSupports ==
    ASSUME NEW records, RecordsOK(records), NEW n \in DOMAIN records, NEW warning, NEW day,
           records[n].kind = "EXPERIENCE",
           VerdictOf(ExperienceResolution(records[n], warning)) = "COMPLIES"
    PROVE  Supports(ExperienceResolution(records[n], warning).record, records, day)
  <1>1. PICK r, record : r = ExperienceResolution(records[n], warning) /\ record = records[n]
    OBVIOUS
  <1>2. r.usability \notin {"CONFLICTING", "MISSING", "DECLARED_ONLY", "REJECTED", "EXPIRED"}
    BY <1>1, CompliesUsable
  <1>3. record.execution = "COMPLETED"
    BY <1>1, <1>2, ResolutionFields DEF ExperienceResolution
  <1>4. r.record = record /\ r.usability = RecordUsability(record)
    BY <1>1, <1>3, ResolutionFields DEF ExperienceResolution
  <1>5. record.expires = Null
    BY <1>1 DEF RecordsOK
  <1>6. QED
    BY <1>1, <1>2, <1>3, <1>4, <1>5, UsableRecord DEF Supports

LEMMA UnusableSaysNothing ==
    ASSUME NEW record, NEW usability, NEW warning,
           usability = "MISSING" \/ warning \in {"VALUE_BELOW_REQUIRED", "COUNT_BELOW_REQUIRED"}
    PROVE  VerdictOf(Resolution(record, usability, warning)) # "COMPLIES"
  BY CompliesUsable, ResolutionFields

LEMMA ExperienceSupports ==
    ASSUME NEW rule, NEW records, RecordsOK(records), NEW day,
           VerdictOf(ResolveExperience(rule, records)) = "COMPLIES"
    PROVE  Supports(ResolveExperience(rule, records).record, records, day)
  <1>1. PICK contracts : contracts = {n \in OfKind(records, {"EXPERIENCE"}, {}) : records[n].status # "REJECTED"}
    OBVIOUS
  <1>2. contracts \in SUBSET DOMAIN records /\ \A n \in contracts : records[n].kind = "EXPERIENCE"
    BY <1>1 DEF OfKind
  <1>3. ASSUME NEW S \in SUBSET contracts, S # {} PROVE Min(S) \in S
    BY <1>2, <1>3, LeastPlace DEF RecordsOK
  <1>4. ASSUME NEW n \in contracts, NEW warning,
               ResolveExperience(rule, records) = ExperienceResolution(records[n], warning)
        PROVE  Supports(ResolveExperience(rule, records).record, records, day)
    BY <1>2, <1>4, ContractSupports
  <1>5. ASSUME NEW record, NEW usability, NEW warning,
               usability = "MISSING" \/ warning \in {"VALUE_BELOW_REQUIRED", "COUNT_BELOW_REQUIRED"}
        PROVE  ResolveExperience(rule, records) # Resolution(record, usability, warning)
    BY <1>5, UnusableSaysNothing
  <1>6. contracts # {}
    <2>1. contracts = {} => ResolveExperience(rule, records) = Nothing
      BY <1>1 DEF ResolveExperience
    <2>2. QED
      BY <1>5, <2>1 DEF Nothing
  <1>7. CASE ResolveExperience(rule, records) = ResolveCount(rule, records, contracts)
    <2>1. PICK completed : completed = {n \in contracts : records[n].execution = "COMPLETED"}
      OBVIOUS
    <2>2. PICK place : place = Min(IF completed # {} THEN completed ELSE contracts)
      OBVIOUS
    <2>3. place \in contracts
      BY <1>3, <1>6, <2>1, <2>2
    <2>4. PICK first : first = records[place]
      OBVIOUS
    <2>5. \/ ResolveExperience(rule, records) = ExperienceResolution(first, Null)
          \/ ResolveExperience(rule, records) = Resolution(first, RecordUsability(first), "COUNT_BELOW_REQUIRED")
      BY <1>7, <2>1, <2>2, <2>4 DEF ResolveCount
    <2>6. QED
      BY <1>4, <1>5, <2>3, <2>4, <2>5
  <1>8. CASE ResolveExperience(rule, records) = ResolveValue(rule, records, contracts)
    <2>1. \E ends \in SUBSET contracts :
             \/ \E record, warning : ResolveExperience(rule, records) = Resolution(record, "MISSING", warning)
             \/ ResolveExperience(rule, records) = ExperienceResolution(records[Min(contracts)], "VALUE_BELOW_REQUIRED")
             \/ /\ ends # {}
                /\ ResolveExperience(rule, records) = ExperienceResolution(records[Min(ends)], Null)
      <3> DEFINE required == IF rule.number \notin {Null, 0} THEN rule.number ELSE Null
                 foreign(c) == Null \notin {rule.currency, c.currency} /\ rule.currency # c.currency
                 ends == {n \in contracts :
                            /\ records[n].execution = "COMPLETED"
                            /\ \/ foreign(records[n]) \/ AttributableValue(records[n]) = Null
                               \/ AttributableValue(records[n]) >= required}
                 first == records[Min(contracts)]
                 end == records[Min(ends)]
      <3>1. ResolveExperience(rule, records) =
              IF required = Null THEN Resolution(first, "MISSING", Null)
              ELSE IF ends = {} THEN ExperienceResolution(first, "VALUE_BELOW_REQUIRED")
              ELSE IF foreign(end) THEN Resolution(end, "MISSING", "CURRENCY_MISMATCH")
              ELSE IF AttributableValue(end) = Null
                THEN Resolution(end, "MISSING", "CONSORTIUM_PERCENTAGE_MISSING")
              ELSE ExperienceResolution(end, Null)
        BY <1>8 DEF ResolveValue
      <3>2. ends \in SUBSET contracts
        OBVIOUS
      <3> HIDE DEF required, foreign, ends
      <3>3. QED
        BY <3>1, <3>2
    <2>2. QED
      BY <1>3, <1>4, <1>5, <1>6, <2>1
  <1>9. ASSUME NEW warning, ResolveExperience(rule, records) = ResolveMatch(rule, records, contracts, warning)
        PROVE  Supports(ResolveExperience(rule, records).record, records, day)
    <2>1. PICK matching : matching = {n \in contracts : rule.expected \in records[n].words}
      OBVIOUS
    <2>2. PICK first : first = records[Min(contracts)]
      OBVIOUS
    <2>3. \/ ResolveExperience(rule, records) = Resolution(first, "MISSING", Null)
          \/ ResolveExperience(rule, records) = Resolution(first, "MISSING", warning)
          \/ /\ matching # {}
             /\ ResolveExperience(rule, records) = ExperienceResolution(records[Min(matching)], Null)
      BY <1>9, <2>1, <2>2 DEF ResolveMatch
    <2>4. QED
      BY <1>3, <1>4, <1>5, <2>1, <2>3
  <1>10. CASE ResolveExperience(rule, records) = ExperienceResolution(records[Min(contracts)], Null)
    BY <1>3, <1>4, <1>6, <1>10
  <1>11. QED
    BY <1>1, <1>6, <1>7, <1>8, <1>9, <1>10 DEF ResolveExperience

LEMMA EvaluateSupports ==
    ASSUME NEW rule, NEW records, RecordsOK(records), NEW day \in Nat,
           Evaluate(rule, records, day).status = "COMPLIES"
    PROVE  Supports(Evaluate(rule, records, day).source, records, day)
  <1>1. PICK resolution : resolution = Resolve(rule, records, day)
    OBVIOUS
  <1>2. rule.mapped /\ VerdictOf(resolution) = "COMPLIES"
        /\ Evaluate(rule, records, day).source = resolution.record
    BY <1>1 DEF Evaluate
  <1>3. ASSUME NEW kinds, NEW words, "EXPERIENCE" \notin kinds,
               resolution = FirstUsable(records, OfKind(records, kinds, words), day)
        PROVE  Supports(Evaluate(rule, records, day).source, records, day)
    <2>1. PICK found : found = OfKind(records, kinds, words)
      OBVIOUS
    <2>2. found \in SUBSET DOMAIN records /\ \A n \in found : records[n].kind # "EXPERIENCE"
      BY <1>3, <2>1 DEF OfKind
    <2>3. VerdictOf(FirstUsable(records, found, day)) = "COMPLIES"
      BY <1>2, <1>3, <2>1
    <2>4. QED
      BY <1>2, <1>3, <2>1, <2>2, <2>3, FirstUsableSupports
  <1>4. CASE resolution = ResolveLegal(rule, records, day)
    <2>1. \E kinds \in {{"RUP"}, {"REGISTRATION"}, {"DOCUMENT"}} : \E words :
             resolution = FirstUsable(records, OfKind(records, kinds, words), day)
      BY <1>4, Zenon DEF ResolveLegal
    <2>2. QED
      BY <1>3, <2>1
  <1>5. CASE resolution = ResolveExperience(rule, records)
    BY <1>2, <1>5, ExperienceSupports
  <1>6. CASE resolution = ResolveTechnical(rule, records, day)
    <2>1. PICK kinds : kinds = {rule.subject} \cap {"CERTIFICATION", "PERSON", "CAPABILITY"}
      OBVIOUS
    <2>2. resolution = FirstUsable(records, OfKind(records, kinds, {rule.expected} \ {Null}), day)
      BY <1>6, <2>1 DEF ResolveTechnical
    <2>3. QED
      BY <1>3, <2>1, <2>2
  <1>7. CASE resolution = Nothing
    BY <1>2, <1>7, UnusableSaysNothing DEF Nothing
  <1>8. QED
    BY <1>1, <1>2, <1>4, <1>5, <1>6, <1>7 DEF Resolve

\* evaluate_specialized_requirement says COMPLIES only of a record of the snapshot that somebody
\* supported or verified and nobody disputes, that has not ended on the effective date of the
\* run, and that is no running contract, whatever the rules say and however often a run was retried.
THEOREM CompliesOnEvidence == Spec => []ComplianceBacked
  <1>1. SpeInv => ComplianceBacked
    <2> SUFFICES ASSUME SpeInv, NEW x \in DOMAIN runs, NEW q \in DOMAIN runs[x].results,
                        runs[x].results[q].status = "COMPLIES"
                 PROVE  /\ runs[x].results[q].source \in ToSet(Snapshots[runs[x].snapshot])
                        /\ Supports(runs[x].results[q].source, Snapshots[runs[x].snapshot],
                                    runs[x].effective)
      BY DEF ComplianceBacked, Supports
    <2>1. PICK run, result, rule, records, day :
             /\ run = runs[x] /\ result = run.results[q] /\ rule = rules[q][run.rows[q]].rule
             /\ records = Snapshots[run.snapshot] /\ day = run.effective
      OBVIOUS
    <2>2. SpeMatches(result, rule, records, day) /\ run.snapshot \in DOMAIN Snapshots /\ day \in Closings
      BY <2>1 DEF SpeInv, SpeRunOK
    <2>3. RecordsOK(records) /\ day \in Nat
      <3>1. records \in Seq(Range(records)) /\ day \in Nat
        BY <2>1, <2>2, EvaluationsAssumption
      <3>2. DOMAIN records = 1 .. Len(records) /\ Len(records) \in Nat
        BY <3>1
      <3>3. \A n \in DOMAIN records : records[n] \in Range(records)
        BY DEF Range
      <3>4. \A r \in Range(records) : /\ r.expires \in Nat \cup {Null}
                                      /\ r.kind = "EXPERIENCE" => r.expires = Null
        BY <2>1, <2>2, EvaluationsAssumption
      <3>5. QED
        BY <3>1, <3>2, <3>3, <3>4 DEF RecordsOK
    <2>4. Supports(result.source, records, day)
      <3>1. Evaluate(rule, records, day).status = "COMPLIES"
            /\ Evaluate(rule, records, day).source = result.source
        BY <2>1, <2>2 DEF SpeMatches
      <3>2. QED
        BY <2>3, <3>1, EvaluateSupports
    <2>5. QED
      BY <2>1, <2>4 DEF Supports, ToSet
  <1>2. QED
    BY <1>1, SpeInvariant, PTL

-----------------------------------------------------------------------------
(* FinancialEvaluation.                                                    *)

FinRunFields == {"status", "job", "snapshot", "versions", "results", "closing"}
FinJobFields == {"status", "run", "snapshot"}
ResultFields == {"status", "period", "review", "reviewed"}

\* Rules are only added to.
FinRulesGrow ==
    /\ DOMAIN finRules' = DOMAIN finRules
    /\ \A q \in DOMAIN finRules : /\ IsSequence(finRules'[q])
                                  /\ \A n \in DOMAIN finRules[q] : n \in DOMAIN finRules'[q]
                                                                /\ finRules'[q][n] = finRules[q][n]

FinRows ==
    /\ DOMAIN finRules = Fin!Requirements /\ \A q \in Fin!Requirements : IsSequence(finRules[q])
    /\ IsSequence(finRuns)
    /\ IsSequence(finJobs) /\ \A j \in DOMAIN finJobs : DOMAIN finJobs[j] = FinJobFields
    /\ DOMAIN finWorker = FinWorkers /\ DOMAIN finRequest = Clients

\* A result says what the evaluation of its inputs says; a review stands beside it.
Matches(result, rule, periods, date) ==
    /\ DOMAIN result = ResultFields
    /\ result.status = Fin!Evaluate(rule, periods, date).status
    /\ result.period = Fin!Evaluate(rule, periods, date).period

\* The versions of a run exist, and its results, also those that a failed attempt left,
\* are what they and the date that its worker read give.
RunOK(run) ==
    /\ DOMAIN run = FinRunFields
    /\ run.snapshot \in DOMAIN FinSnapshots
    /\ DOMAIN run.versions = Fin!Requirements
    /\ \A q \in Fin!Requirements : run.versions[q] \in DOMAIN finRules[q]
    /\ run.status \in Fin!Completed => DOMAIN run.results = Fin!Requirements
    /\ \A q \in DOMAIN run.results :
          /\ q \in Fin!Requirements
          /\ Matches(run.results[q], finRules[q][run.versions[q]], FinSnapshots[run.snapshot], run.closing)

\* A run knows its latest job. The index lets one job of a snapshot be active, which
\* then is the latest one of its run.
FinLinks ==
    /\ \A j \in DOMAIN finJobs :
          /\ finJobs[j].run \in DOMAIN finRuns /\ finJobs[j].snapshot = finRuns[finJobs[j].run].snapshot
          /\ finJobs[j].status \in Fin!Active => /\ finRuns[finJobs[j].run].job = j
                                                 /\ finRuns[finJobs[j].run].status = finJobs[j].status
    /\ \A x \in DOMAIN finRuns : finRuns[x].status \in Fin!Active =>
          /\ finRuns[x].job \in DOMAIN finJobs
          /\ finJobs[finRuns[x].job].run = x /\ finJobs[finRuns[x].job].status = finRuns[x].status
    /\ \A i, j \in DOMAIN finJobs :
          (finJobs[i].status \in Fin!Active /\ finJobs[j].status \in Fin!Active
             /\ finJobs[i].snapshot = finJobs[j].snapshot) => i = j

FinHolders ==
    /\ \A w \in FinWorkers : finWorker[w] # Fin!Free =>
          /\ finWorker[w].job \in DOMAIN finJobs /\ finJobs[finWorker[w].job].status = "PROCESSING"
    /\ \A v, w \in FinWorkers :
          (finWorker[v] # Fin!Free /\ finWorker[w] # Fin!Free /\ finWorker[v].job = finWorker[w].job) => v = w

\* What a request has read: the versions that it goes on to commit are there, or it is
\* about to add them to rules that have none.
FinRequestOK(r) ==
    /\ r.op = "retry" => r.run \in DOMAIN finRuns
    /\ r.op \in {"create", "update"} => \A q \in DOMAIN r.added : IsSequence(r.added[q])
    /\ r.op = "create" =>
          /\ r.snapshot \in DOMAIN FinSnapshots
          /\ DOMAIN r.versions = Fin!Requirements
          /\ \A q \in Fin!Requirements :
                IF q \in DOMAIN r.added THEN r.versions[q] \in DOMAIN r.added[q] /\ r.base[q] = 0
                ELSE r.versions[q] \in DOMAIN finRules[q]

FinInv ==
    /\ FinRows
    /\ \A x \in DOMAIN finRuns : RunOK(finRuns[x])
    /\ FinLinks
    /\ FinHolders
    /\ \A c \in Clients : FinRequestOK(finRequest[c])

LEMMA FinInitInv == Fin!Init => FinInv
  <1> SUFFICES ASSUME Fin!Init PROVE FinInv
    OBVIOUS
  <1>1. IsSequence(<<>>)
    BY DEF IsSequence
  <1>2. FinRows
    BY <1>1 DEF Fin!Init, FinRows
  <1>3. FinLinks /\ FinHolders
    BY DEF Fin!Init, FinLinks, FinHolders, Fin!Free
  <1>4. \A c \in Clients : FinRequestOK(finRequest[c])
    BY DEF Fin!Init, FinRequestOK, Fin!Idle
  <1>5. QED
    BY <1>2, <1>3, <1>4 DEF Fin!Init, FinInv


LEMMA RunStaysOK ==
    ASSUME DOMAIN finRules = Fin!Requirements, FinRulesGrow, NEW run, RunOK(run)
    PROVE  RunOK(run)'
  BY DEF RunOK, FinRulesGrow

LEMMA RequestStaysOK ==
    ASSUME DOMAIN finRules = Fin!Requirements, FinRulesGrow, DOMAIN finRuns \subseteq DOMAIN finRuns',
           NEW r, FinRequestOK(r)
    PROVE  FinRequestOK(r)'
  BY DEF FinRequestOK, FinRulesGrow

\* A step of clients that touches no run and no job.
LEMMA RulesStepKeepsFinInv ==
    ASSUME FinInv, UNCHANGED <<finRuns, finJobs, finWorker>>, FinRulesGrow,
           DOMAIN finRequest' = Clients,
           \A c \in Clients : finRequest'[c] = finRequest[c] \/ FinRequestOK(finRequest'[c])
    PROVE  FinInv'
  <1>1. FinRows'
    BY DEF FinInv, FinRows, FinRulesGrow
  <1>2. \A x \in DOMAIN finRuns' : RunOK(finRuns[x])'
    BY RunStaysOK DEF FinInv, FinRows
  <1>3. \A c \in Clients : FinRequestOK(finRequest[c])'
    <2>1. \A c \in Clients : FinRequestOK(finRequest'[c])
      BY DEF FinInv
    <2>2. ASSUME NEW r, FinRequestOK(r) PROVE FinRequestOK(r)'
      BY <2>2, RequestStaysOK DEF FinInv, FinRows
    <2>3. QED
      BY <2>1, <2>2 DEF FinRequestOK
  <1>4. QED
    BY <1>1, <1>2, <1>3 DEF FinInv, FinLinks, FinHolders

LEMMA ReadingKeepsFinInv ==
    ASSUME FinInv, NEW c \in Clients, NEW r, FinRequestOK(r),
           finRequest' = [finRequest EXCEPT ![c] = r], UNCHANGED <<finRules, finRuns, finJobs, finWorker>>
    PROVE  FinInv'
  <1>1. FinRulesGrow
    BY DEF FinRulesGrow, FinInv, FinRows
  <1>2. /\ DOMAIN finRequest' = Clients /\ finRequest'[c] = r
        /\ \A x \in Clients \ {c} : finRequest'[x] = finRequest[x]
    BY DEF FinInv, FinRows
  <1>3. QED
    BY <1>1, <1>2, RulesStepKeepsFinInv

LEMMA BeginCreateKeepsFinInv ==
    ASSUME FinInv, NEW c \in Clients, NEW snapshot \in DOMAIN FinSnapshots, NEW force,
           Fin!BeginCreate(c, snapshot, force)
    PROVE  FinInv'
  <1>1. PICK r : /\ finRequest' = [finRequest EXCEPT ![c] = r] /\ r.op = "create"
                 /\ r.snapshot = snapshot /\ r.versions = Fin!Versions /\ r.added = Fin!Added
                 /\ r.base = [q \in Fin!Requirements |-> Len(finRules[q])]
    <2>1. PICK base : base = [q \in Fin!Requirements |-> Len(finRules[q])]
      OBVIOUS
    <2>2. PICK r : r = [op |-> "create", snapshot |-> snapshot, versions |-> Fin!Versions,
                        added |-> Fin!Added, base |-> base]
      OBVIOUS
    <2>3. finRequest' = [finRequest EXCEPT ![c] = r]
      BY <2>1, <2>2 DEF Fin!BeginCreate
    <2>4. /\ r.op = "create" /\ r.snapshot = snapshot /\ r.versions = Fin!Versions /\ r.added = Fin!Added
          /\ r.base = base
      BY <2>2
    <2>5. QED
      BY <2>1, <2>3, <2>4
  <1>2. \A q \in DOMAIN r.added : /\ q \in Fin!Requirements /\ finRules[q] = <<>>
                                  /\ IsSequence(r.added[q]) /\ DOMAIN r.added[q] = {1}
    BY <1>1, Single DEF Fin!Added
  <1>3. \A q \in Fin!Requirements : finRules[q] = <<>> => q \in DOMAIN r.added
    BY <1>1 DEF Fin!Added
  <1>4. \A q \in Fin!Requirements : finRules[q] # <<>> => Len(finRules[q]) \in DOMAIN finRules[q]
    <2>1. ASSUME NEW q \in Fin!Requirements, finRules[q] # <<>> PROVE Len(finRules[q]) \in DOMAIN finRules[q]
      <3>1. PICK S : finRules[q] \in Seq(S)
        BY DEF FinInv, FinRows, IsSequence
      <3>2. QED
        BY <2>1, <3>1
    <2>2. QED
      BY <2>1
  <1>5. FinRequestOK(r)
    <2>1. DOMAIN r.versions = Fin!Requirements
      BY <1>1 DEF Fin!Versions
    <2>2. \A q \in Fin!Requirements :
             IF q \in DOMAIN r.added THEN r.versions[q] \in DOMAIN r.added[q] /\ r.base[q] = 0
             ELSE r.versions[q] \in DOMAIN finRules[q]
      BY <1>1, <1>2, <1>3, <1>4 DEF Fin!Versions
    <2>3. QED
      BY <1>1, <1>2, <2>1, <2>2 DEF FinRequestOK
  <1>6. QED
    BY <1>1, <1>5, ReadingKeepsFinInv DEF Fin!BeginCreate

LEMMA RequestsKeepFinInv ==
    ASSUME FinInv, NEW c \in Clients,
           \/ \E x \in DOMAIN finRuns : Fin!BeginRetry(c, x)
           \/ \E q \in Fin!Requirements : \/ Fin!BeginRead(c, q)
                                          \/ \E update \in FinUpdates : Fin!BeginUpdate(c, q, update)
           \/ Fin!Refused(c)
    PROVE  FinInv'
  <1>1. CASE \E x \in DOMAIN finRuns : Fin!BeginRetry(c, x)
    <2>1. PICK x \in DOMAIN finRuns : Fin!BeginRetry(c, x)
      BY <1>1
    <2>2. PICK r : finRequest' = [finRequest EXCEPT ![c] = r] /\ r = [op |-> "retry", run |-> x]
      BY <2>1 DEF Fin!BeginRetry
    <2>3. FinRequestOK(r)
      BY <2>2 DEF FinRequestOK
    <2>4. QED
      BY <2>1, <2>2, <2>3, ReadingKeepsFinInv DEF Fin!BeginRetry
  <1>2. CASE \E q \in Fin!Requirements : Fin!BeginRead(c, q)
    <2>1. PICK q \in Fin!Requirements : Fin!BeginRead(c, q)
      BY <1>2
    <2>2. PICK r : /\ finRequest' = [finRequest EXCEPT ![c] = r] /\ r.op = "update"
                   /\ r.added = [p \in {q} |-> Fin!Added[q]]
      <3>1. PICK added, base : /\ added = [p \in {q} |-> Fin!Added[q]]
                               /\ base = [p \in {q} |-> 0]
        OBVIOUS
      <3>2. PICK r : r = [op |-> "update", base |-> base, added |-> added]
        OBVIOUS
      <3>3. finRequest' = [finRequest EXCEPT ![c] = r]
        BY <2>1, <3>1, <3>2 DEF Fin!BeginRead
      <3>4. r.op = "update" /\ r.added = added
        BY <3>2
      <3>5. QED
        BY <3>1, <3>3, <3>4
    <2>3. IsSequence(Fin!Added[q])
      BY <2>1, Single DEF Fin!BeginRead, Fin!Added
    <2>4. FinRequestOK(r)
      BY <2>2, <2>3 DEF FinRequestOK
    <2>5. QED
      BY <2>1, <2>2, <2>4, ReadingKeepsFinInv DEF Fin!BeginRead
  <1>3. CASE \E q \in Fin!Requirements, update \in FinUpdates : Fin!BeginUpdate(c, q, update)
    <2>1. PICK q \in Fin!Requirements, update \in FinUpdates : Fin!BeginUpdate(c, q, update)
      BY <1>3
    <2>2. PICK r, first, rule :
             /\ finRequest' = [finRequest EXCEPT ![c] = r] /\ r.op = "update"
             /\ r.added = [p \in {q} |-> first \o <<rule>>]
             /\ first = IF finRules[q] = <<>> THEN Fin!Added[q] ELSE <<>>
      <3> DEFINE latest == IF finRules[q] = <<>> THEN Fin!Added[q] ELSE finRules[q]
      <3>1. PICK first, rule : /\ first = IF finRules[q] = <<>> THEN Fin!Added[q] ELSE <<>>
                               /\ rule = Fin!Override(Fin!Last(latest), update)
        OBVIOUS
      <3>2. PICK added, base : /\ added = [p \in {q} |-> first \o <<rule>>]
                               /\ base = [p \in {q} |-> Len(finRules[q])]
        OBVIOUS
      <3>3. PICK r : r = [op |-> "update", base |-> base, added |-> added]
        OBVIOUS
      <3>4. finRequest' = [finRequest EXCEPT ![c] = r]
        <4>1. finRequest' = [finRequest EXCEPT ![c] =
                 [op |-> "update", base |-> [p \in {q} |-> Len(finRules[q])],
                  added |-> [p \in {q} |-> (IF finRules[q] = <<>> THEN latest ELSE <<>>)
                                              \o <<Fin!Override(Fin!Last(latest), update)>>]]]
          BY <2>1 DEF Fin!BeginUpdate
        <4>2. first = (IF finRules[q] = <<>> THEN latest ELSE <<>>)
          BY <3>1
        <4> HIDE DEF latest
        <4>3. QED
          BY <3>1, <3>2, <3>3, <4>1, <4>2
      <3>5. r.op = "update" /\ r.added = added
        BY <3>3
      <3>6. r.added = [p \in {q} |-> first \o <<rule>>]
        BY ONLY <3>2, <3>5
      <3>7. first = IF finRules[q] = <<>> THEN Fin!Added[q] ELSE <<>>
        BY ONLY <3>1
      <3>8. QED
        BY ONLY <3>4, <3>5, <3>6, <3>7, Zenon
    <2>3. IsSequence(first)
      <3>1. finRules[q] = <<>> => IsSequence(Fin!Added[q])
        BY Single DEF Fin!Added
      <3>2. IsSequence(<<>>)
        BY DEF IsSequence
      <3>3. QED
        BY <2>2, <3>1, <3>2
    <2>4. IsSequence(first \o <<rule>>)
      BY <2>3, Single, Concatenated
    <2>5. FinRequestOK(r)
      BY <2>2, <2>4 DEF FinRequestOK
    <2>6. QED
      BY <2>1, <2>2, <2>5, ReadingKeepsFinInv DEF Fin!BeginUpdate
  <1>4. CASE Fin!Refused(c)
    BY <1>4, ReadingKeepsFinInv DEF Fin!Refused, FinRequestOK, Fin!Idle
  <1>5. QED
    BY <1>1, <1>2, <1>3, <1>4

\* What a commit adds stands behind what was there.
LEMMA AddingGrows ==
    ASSUME FinInv, NEW r, FinRequestOK(r), r.op \in {"create", "update"}, finRules' = Fin!WithAdded(r)
    PROVE  /\ FinRulesGrow
           /\ \A q \in Fin!Requirements \cap DOMAIN r.added :
                 Len(finRules[q]) = 0 => DOMAIN finRules'[q] = DOMAIN r.added[q]
  <1>1. DOMAIN finRules' = DOMAIN finRules /\ DOMAIN finRules = Fin!Requirements
    BY DEF Fin!WithAdded, FinInv, FinRows
  <1>2. ASSUME NEW q \in Fin!Requirements
        PROVE  /\ IsSequence(finRules'[q])
               /\ \A n \in DOMAIN finRules[q] : n \in DOMAIN finRules'[q] /\ finRules'[q][n] = finRules[q][n]
               /\ (q \in DOMAIN r.added /\ Len(finRules[q]) = 0) => DOMAIN finRules'[q] = DOMAIN r.added[q]
    <2>1. PICK s, t : /\ s = finRules[q] /\ t = (IF q \in DOMAIN r.added THEN r.added[q] ELSE <<>>)
                      /\ finRules'[q] = s \o t
      BY DEF Fin!WithAdded
    <2>2. IsSequence(s) /\ IsSequence(t)
      BY <2>1 DEF FinInv, FinRows, FinRequestOK, IsSequence
    <2>3. /\ IsSequence(s \o t) /\ Len(s) \in Nat /\ Len(t) \in Nat
          /\ DOMAIN s = 1 .. Len(s) /\ DOMAIN t = 1 .. Len(t)
          /\ DOMAIN (s \o t) = 1 .. (Len(s) + Len(t)) /\ \A n \in 1 .. Len(s) : (s \o t)[n] = s[n]
      BY <2>2, Concatenated
    <2>4. \A n \in DOMAIN s : n \in DOMAIN (s \o t) /\ (s \o t)[n] = s[n]
      BY <2>3
    <2>5. Len(s) = 0 => DOMAIN (s \o t) = DOMAIN t
      BY <2>3
    <2>6. QED
      BY <2>1, <2>3, <2>4, <2>5
  <1>3. QED
    BY <1>1, <1>2 DEF FinRulesGrow

LEMMA CommitUpdateKeepsFinInv ==
    ASSUME FinInv, NEW c \in Clients, Fin!CommitUpdate(c)
    PROVE  FinInv'
  <1>1. FinRulesGrow
    BY AddingGrows DEF Fin!CommitUpdate, FinInv
  <1>2. FinRequestOK(Fin!Idle)
    BY DEF FinRequestOK, Fin!Idle
  <1>3. /\ DOMAIN finRequest' = Clients /\ UNCHANGED <<finRuns, finJobs, finWorker>>
        /\ \A x \in Clients : finRequest'[x] = finRequest[x] \/ finRequest'[x] = Fin!Idle
    BY DEF Fin!CommitUpdate, FinInv, FinRows
  <1>4. QED
    BY <1>1, <1>2, <1>3, RulesStepKeepsFinInv

LEMMA CommitCreateKeepsFinInv ==
    ASSUME FinInv, NEW c \in Clients, Fin!CommitCreate(c)
    PROVE  FinInv'
  <1>1. PICK r : r = finRequest[c] /\ FinRequestOK(r) /\ r.op = "create"
    BY DEF Fin!CommitCreate, FinInv
  <1>2. /\ \A j \in DOMAIN finJobs : finJobs[j].status \in Fin!Active => finJobs[j].snapshot # r.snapshot
        /\ \A q \in DOMAIN r.added : Len(finRules[q]) = r.base[q]
        /\ finRules' = Fin!WithAdded(r)
        /\ finRequest' = [finRequest EXCEPT ![c] = Fin!Idle] /\ UNCHANGED finWorker
    BY <1>1 DEF Fin!CommitCreate, Fin!NoActiveJob, Fin!Fits
  <1>3. PICK run, job :
          /\ finRuns' = Append(finRuns, run) /\ finJobs' = Append(finJobs, job)
          /\ DOMAIN run = FinRunFields /\ run.status = "PENDING" /\ run.job = Len(finJobs) + 1
          /\ run.snapshot = r.snapshot /\ run.versions = r.versions /\ run.results = <<>>
          /\ DOMAIN job = FinJobFields /\ job.status = "PENDING" /\ job.run = Len(finRuns) + 1
          /\ job.snapshot = r.snapshot
    BY <1>1 DEF Fin!CommitCreate, Fin!NewRun, Fin!NewJob, FinRunFields, FinJobFields
  <1>4. /\ FinRulesGrow
        /\ \A q \in Fin!Requirements \cap DOMAIN r.added :
              Len(finRules[q]) = 0 => DOMAIN finRules'[q] = DOMAIN r.added[q]
    BY <1>1, <1>2, AddingGrows
  <1>5. /\ IsSequence(finRuns') /\ Len(finRuns) \in Nat /\ DOMAIN finRuns = 1 .. Len(finRuns)
        /\ DOMAIN finRuns' = 1 .. (Len(finRuns) + 1) /\ finRuns'[Len(finRuns) + 1] = run
        /\ \A x \in 1 .. Len(finRuns) : finRuns'[x] = finRuns[x]
    BY <1>3, Appended DEF FinInv, FinRows
  <1>6. /\ IsSequence(finJobs') /\ Len(finJobs) \in Nat /\ DOMAIN finJobs = 1 .. Len(finJobs)
        /\ DOMAIN finJobs' = 1 .. (Len(finJobs) + 1) /\ finJobs'[Len(finJobs) + 1] = job
        /\ \A j \in 1 .. Len(finJobs) : finJobs'[j] = finJobs[j]
    BY <1>3, Appended DEF FinInv, FinRows
  <1>7. /\ \A x \in DOMAIN finRuns' : x \in DOMAIN finRuns \/ (x = Len(finRuns) + 1 /\ finRuns'[x] = run)
        /\ \A x \in DOMAIN finRuns : x \in DOMAIN finRuns' /\ finRuns'[x] = finRuns[x] /\ x # Len(finRuns) + 1
        /\ Len(finRuns) + 1 \in DOMAIN finRuns'
    BY <1>5
  <1>8. /\ \A j \in DOMAIN finJobs' : j \in DOMAIN finJobs \/ (j = Len(finJobs) + 1 /\ finJobs'[j] = job)
        /\ \A j \in DOMAIN finJobs : j \in DOMAIN finJobs' /\ finJobs'[j] = finJobs[j]
        /\ Len(finJobs) + 1 \in DOMAIN finJobs'
    BY <1>6
  <1>9. /\ DOMAIN finRequest' = Clients
        /\ \A x \in Clients : finRequest'[x] = finRequest[x] \/ finRequest'[x] = Fin!Idle
    BY <1>2 DEF FinInv, FinRows
  <1>10. FinRows'
    BY <1>2, <1>3, <1>4, <1>5, <1>6, <1>8, <1>9 DEF FinInv, FinRows, FinRulesGrow
  <1>11. \A x \in DOMAIN finRuns' : RunOK(finRuns[x])'
    <2>1. \A q \in Fin!Requirements : run.versions[q] \in DOMAIN finRules'[q]
      <3>1. ASSUME NEW q \in Fin!Requirements, q \in DOMAIN r.added
            PROVE  run.versions[q] \in DOMAIN finRules'[q]
        BY <1>1, <1>2, <1>3, <1>4, <3>1 DEF FinRequestOK
      <3>2. ASSUME NEW q \in Fin!Requirements, q \notin DOMAIN r.added
            PROVE  run.versions[q] \in DOMAIN finRules'[q]
        BY <1>1, <1>3, <1>4, <3>2 DEF FinRequestOK, FinRulesGrow, FinInv, FinRows
      <3>3. QED
        BY <3>1, <3>2
    <2>2. DOMAIN run.versions = Fin!Requirements
      BY <1>1, <1>3 DEF FinRequestOK
    <2>3. DOMAIN run.results = {} /\ run.status \notin Fin!Completed
      BY <1>3 DEF Fin!Completed
    <2>4. RunOK(run)'
      BY <1>1, <1>3, <2>1, <2>2, <2>3 DEF RunOK, FinRequestOK
    <2>5. \A x \in DOMAIN finRuns : RunOK(finRuns[x])'
      <3>1. \A x \in DOMAIN finRuns : \A y : y = finRuns[x] => RunOK(y)'
        BY <1>4, RunStaysOK DEF FinInv, FinRows
      <3>2. QED
        BY <3>1, <1>7
    <2>6. ASSUME NEW x \in DOMAIN finRuns' PROVE RunOK(finRuns[x])'
      BY <1>7, <2>4, <2>5
    <2>7. QED
      BY <2>6
  <1>12. FinLinks'
    <2>1. \A j \in DOMAIN finJobs' :
             /\ finJobs'[j].run \in DOMAIN finRuns' /\ finJobs'[j].snapshot = finRuns'[finJobs'[j].run].snapshot
             /\ finJobs'[j].status \in Fin!Active => /\ finRuns'[finJobs'[j].run].job = j
                                                     /\ finRuns'[finJobs'[j].run].status = finJobs'[j].status
      BY <1>3, <1>5, <1>7, <1>8 DEF FinInv, FinLinks
    <2>2. \A x \in DOMAIN finRuns' : finRuns'[x].status \in Fin!Active =>
             /\ finRuns'[x].job \in DOMAIN finJobs'
             /\ finJobs'[finRuns'[x].job].run = x /\ finJobs'[finRuns'[x].job].status = finRuns'[x].status
      BY <1>3, <1>6, <1>7, <1>8 DEF FinInv, FinLinks
    <2>3. \A i, j \in DOMAIN finJobs' :
             (finJobs'[i].status \in Fin!Active /\ finJobs'[j].status \in Fin!Active
                /\ finJobs'[i].snapshot = finJobs'[j].snapshot) => i = j
      BY <1>2, <1>3, <1>8 DEF FinInv, FinLinks
    <2>4. QED
      BY <2>1, <2>2, <2>3 DEF FinLinks, Fin!Active
  <1>13. FinHolders'
    BY <1>2, <1>8 DEF FinInv, FinHolders, Fin!Free
  <1>14. \A x \in Clients : FinRequestOK(finRequest[x])'
    <2>1. FinRequestOK(Fin!Idle)
      BY DEF FinRequestOK, Fin!Idle
    <2>2. \A x \in Clients : FinRequestOK(finRequest'[x])
      BY <1>9, <2>1 DEF FinInv
    <2>3. ASSUME NEW s, FinRequestOK(s) PROVE FinRequestOK(s)'
      BY <2>3, <1>4, <1>7, RequestStaysOK DEF FinInv, FinRows
    <2>4. QED
      BY <2>2, <2>3 DEF FinRequestOK
  <1>15. QED
    BY <1>10, <1>11, <1>12, <1>13, <1>14 DEF FinInv

\* A step that leaves the rules alone, and the requests or drops them.
LEMMA RowsStepKeepsFinInv ==
    ASSUME FinInv, UNCHANGED finRules, DOMAIN finRuns \subseteq DOMAIN finRuns',
           IsSequence(finRuns'), \A x \in DOMAIN finRuns' : RunOK(finRuns'[x]),
           IsSequence(finJobs'), \A j \in DOMAIN finJobs' : DOMAIN finJobs'[j] = FinJobFields,
           DOMAIN finWorker' = FinWorkers, DOMAIN finRequest' = Clients,
           \A c \in Clients : finRequest'[c] = finRequest[c] \/ finRequest'[c] = Fin!Idle,
           FinLinks', FinHolders'
    PROVE  FinInv'
  <1>1. FinRows'
    BY DEF FinInv, FinRows
  <1>2. \A x \in DOMAIN finRuns' : RunOK(finRuns[x])'
    BY DEF RunOK
  <1>3. FinRequestOK(Fin!Idle)
    BY DEF FinRequestOK, Fin!Idle
  <1>4. \A c \in Clients : FinRequestOK(finRequest'[c])
    BY <1>3 DEF FinInv
  <1>5. \A c \in Clients : FinRequestOK(finRequest[c])'
    BY <1>4 DEF FinRequestOK
  <1>6. QED
    BY <1>1, <1>2, <1>5 DEF FinInv

LEMMA CommitRetryKeepsFinInv ==
    ASSUME FinInv, NEW c \in Clients, Fin!CommitRetry(c)
    PROVE  FinInv'
  <1>1. PICK x \in DOMAIN finRuns : x = finRequest[c].run
    BY DEF Fin!CommitRetry, FinInv, FinRequestOK
  <1>2. PICK old : old = finRuns[x] /\ RunOK(old)
    BY DEF FinInv
  <1>3. PICK run, job : /\ run = [old EXCEPT !.status = "PENDING", !.job = Len(finJobs) + 1]
                        /\ job = Fin!NewJob(x, old.snapshot)
    OBVIOUS
  <1>4. /\ \A j \in DOMAIN finJobs : finJobs[j].status \in Fin!Active => finJobs[j].snapshot # old.snapshot
        /\ finRuns' = [finRuns EXCEPT ![x] = run] /\ finJobs' = Append(finJobs, job)
        /\ finRequest' = [finRequest EXCEPT ![c] = Fin!Idle] /\ UNCHANGED <<finRules, finWorker>>
    BY <1>1, <1>2, <1>3 DEF Fin!CommitRetry, Fin!NoActiveJob
  <1>5. /\ DOMAIN job = FinJobFields /\ job.status = "PENDING" /\ job.run = x
        /\ job.snapshot = old.snapshot
    BY <1>3 DEF Fin!NewJob, FinJobFields
  <1>6. /\ DOMAIN run = FinRunFields /\ run.status = "PENDING" /\ run.job = Len(finJobs) + 1
        /\ run.snapshot = old.snapshot /\ run.versions = old.versions
        /\ run.results = old.results /\ run.closing = old.closing
    BY <1>2, <1>3 DEF RunOK, FinRunFields
  <1>7. RunOK(run)
    <2>1. run.status \notin Fin!Completed
      BY <1>6 DEF Fin!Completed
    <2>2. QED
      BY <1>2, <1>6, <2>1 DEF RunOK
  <1>8. /\ IsSequence(finRuns') /\ DOMAIN finRuns' = DOMAIN finRuns /\ finRuns'[x] = run
        /\ \A y \in DOMAIN finRuns \ {x} : finRuns'[y] = finRuns[y]
    BY <1>4, Replaced DEF FinInv, FinRows
  <1>9. /\ IsSequence(finJobs') /\ Len(finJobs) \in Nat /\ DOMAIN finJobs = 1 .. Len(finJobs)
        /\ DOMAIN finJobs' = 1 .. (Len(finJobs) + 1) /\ finJobs'[Len(finJobs) + 1] = job
        /\ \A j \in 1 .. Len(finJobs) : finJobs'[j] = finJobs[j]
    BY <1>4, Appended DEF FinInv, FinRows
  <1>10. /\ \A j \in DOMAIN finJobs' : j \in DOMAIN finJobs \/ (j = Len(finJobs) + 1 /\ finJobs'[j] = job)
         /\ \A j \in DOMAIN finJobs : j \in DOMAIN finJobs' /\ finJobs'[j] = finJobs[j]
         /\ Len(finJobs) + 1 \in DOMAIN finJobs'
    BY <1>9
  <1>11. FinLinks'
    <2>1. \A j \in DOMAIN finJobs : finJobs[j].status \in Fin!Active => finJobs[j].run # x
      BY <1>2, <1>4 DEF FinInv, FinLinks
    <2>2. \A j \in DOMAIN finJobs' :
             /\ finJobs'[j].run \in DOMAIN finRuns' /\ finJobs'[j].snapshot = finRuns'[finJobs'[j].run].snapshot
             /\ finJobs'[j].status \in Fin!Active => /\ finRuns'[finJobs'[j].run].job = j
                                                     /\ finRuns'[finJobs'[j].run].status = finJobs'[j].status
      BY <1>2, <1>5, <1>6, <1>8, <1>10, <2>1 DEF FinInv, FinLinks
    <2>3. \A y \in DOMAIN finRuns' : finRuns'[y].status \in Fin!Active =>
             /\ finRuns'[y].job \in DOMAIN finJobs'
             /\ finJobs'[finRuns'[y].job].run = y /\ finJobs'[finRuns'[y].job].status = finRuns'[y].status
      BY <1>5, <1>6, <1>8, <1>9, <1>10 DEF FinInv, FinLinks
    <2>4. \A i, j \in DOMAIN finJobs' :
             (finJobs'[i].status \in Fin!Active /\ finJobs'[j].status \in Fin!Active
                /\ finJobs'[i].snapshot = finJobs'[j].snapshot) => i = j
      BY <1>4, <1>5, <1>10 DEF FinInv, FinLinks
    <2>5. QED
      BY <2>2, <2>3, <2>4 DEF FinLinks, Fin!Active
  <1>12. FinHolders'
    BY <1>4, <1>10 DEF FinInv, FinHolders, Fin!Free
  <1>13. /\ DOMAIN finRequest' = Clients
         /\ \A y \in Clients : finRequest'[y] = finRequest[y] \/ finRequest'[y] = Fin!Idle
    BY <1>4 DEF FinInv, FinRows
  <1>14. \A j \in DOMAIN finJobs' : DOMAIN finJobs'[j] = FinJobFields
    BY <1>5, <1>10 DEF FinInv, FinRows
  <1>15. \A y \in DOMAIN finRuns' : RunOK(finRuns'[y])
    BY <1>7, <1>8 DEF FinInv
  <1>16. DOMAIN finWorker' = FinWorkers
    BY <1>4 DEF FinInv, FinRows
  <1>17. QED
    BY <1>4, <1>8, <1>9, <1>11, <1>12, <1>13, <1>14, <1>15, <1>16, RowsStepKeepsFinInv

LEMMA ReviewKeepsFinInv ==
    ASSUME FinInv, NEW c \in Clients, NEW x \in DOMAIN finRuns, NEW q, NEW verdict,
           Fin!Review(c, x, q, verdict)
    PROVE  FinInv'
  <1>1. PICK old : old = finRuns[x] /\ RunOK(old)
    BY DEF FinInv
  <1>2. PICK was : q \in DOMAIN old.results /\ was = old.results[q] /\ DOMAIN was = ResultFields
    BY <1>1 DEF Fin!Review, RunOK, Matches
  <1>3. PICK result, results :
          /\ result = [was EXCEPT !.reviewed = verdict]
          /\ results = [old.results EXCEPT ![q] = result]
    OBVIOUS
  <1>4. PICK run : run = [old EXCEPT !.results = results]
    OBVIOUS
  <1>5. finRuns' = [finRuns EXCEPT ![x] = run]
    BY <1>1, <1>2, <1>3, <1>4 DEF Fin!Review
  <1>6. DOMAIN result = ResultFields /\ result.status = was.status /\ result.period = was.period
    BY <1>2, <1>3 DEF ResultFields
  <1>7. /\ DOMAIN results = DOMAIN old.results /\ results[q] = result
        /\ \A p \in DOMAIN old.results \ {q} : results[p] = old.results[p]
    BY <1>2, <1>3
  <1>8. /\ DOMAIN run = FinRunFields /\ run.results = results /\ run.status = old.status
        /\ run.job = old.job /\ run.snapshot = old.snapshot /\ run.versions = old.versions
        /\ run.closing = old.closing
    BY <1>1, <1>4 DEF RunOK, FinRunFields
  <1>9. RunOK(run)
    <2>1. ASSUME NEW p \in DOMAIN run.results
          PROVE  /\ p \in Fin!Requirements
                 /\ Matches(run.results[p], finRules[p][run.versions[p]], FinSnapshots[run.snapshot], run.closing)
      BY <1>1, <1>2, <1>6, <1>7, <1>8 DEF RunOK, Matches
    <2>2. QED
      BY <1>1, <1>7, <1>8, <2>1 DEF RunOK
  <1>10. /\ IsSequence(finRuns') /\ DOMAIN finRuns' = DOMAIN finRuns /\ finRuns'[x] = run
         /\ \A y \in DOMAIN finRuns \ {x} : finRuns'[y] = finRuns[y]
    BY <1>5, Replaced DEF FinInv, FinRows
  <1>11. UNCHANGED <<finRules, finJobs, finRequest, finWorker>>
    BY DEF Fin!Review
  <1>12. \A y \in DOMAIN finRuns : /\ finRuns'[y].status = finRuns[y].status /\ finRuns'[y].job = finRuns[y].job
                                   /\ finRuns'[y].snapshot = finRuns[y].snapshot
    BY <1>1, <1>8, <1>10
  <1>13. FinLinks' /\ FinHolders'
    BY <1>10, <1>11, <1>12 DEF FinInv, FinLinks, FinHolders
  <1>14. \A y \in DOMAIN finRuns' : RunOK(finRuns'[y])
    BY <1>9, <1>10 DEF FinInv
  <1>15. QED
    BY <1>10, <1>11, <1>13, <1>14, RowsStepKeepsFinInv DEF FinInv, FinRows

\* What the steps of workers have in common: they move one active job and its run together.
FinMoves(j, job, run) ==
    LET x == finJobs[j].run IN
    /\ finJobs' = [finJobs EXCEPT ![j] = job] /\ finRuns' = [finRuns EXCEPT ![x] = run]
    /\ DOMAIN job = FinJobFields /\ job.run = x /\ job.snapshot = finJobs[j].snapshot
    /\ run.job = finRuns[x].job /\ run.snapshot = finRuns[x].snapshot /\ run.status = job.status
    /\ RunOK(run)

LEMMA MovesKeepLinks ==
    ASSUME FinInv, NEW j \in DOMAIN finJobs, finJobs[j].status \in Fin!Active, NEW job, NEW run,
           FinMoves(j, job, run)
    PROVE  /\ FinLinks'
           /\ IsSequence(finRuns') /\ DOMAIN finRuns' = DOMAIN finRuns
           /\ \A x \in DOMAIN finRuns' : RunOK(finRuns'[x])
           /\ IsSequence(finJobs') /\ \A i \in DOMAIN finJobs' : DOMAIN finJobs'[i] = FinJobFields
           /\ DOMAIN finJobs' = DOMAIN finJobs /\ finJobs'[j] = job
           /\ \A i \in DOMAIN finJobs \ {j} : finJobs'[i] = finJobs[i]
  <1>1. PICK x \in DOMAIN finRuns : /\ x = finJobs[j].run /\ finRuns[x].job = j
                                    /\ finRuns[x].snapshot = finJobs[j].snapshot
    BY DEF FinInv, FinLinks
  <1>2. /\ finJobs' = [finJobs EXCEPT ![j] = job] /\ finRuns' = [finRuns EXCEPT ![x] = run]
        /\ DOMAIN job = FinJobFields /\ job.run = x /\ job.snapshot = finJobs[j].snapshot
        /\ run.job = j /\ run.snapshot = finJobs[j].snapshot /\ run.status = job.status
        /\ RunOK(run)
    BY <1>1 DEF FinMoves
  <1>3. /\ IsSequence(finRuns') /\ DOMAIN finRuns' = DOMAIN finRuns /\ finRuns'[x] = run
        /\ \A y \in DOMAIN finRuns \ {x} : finRuns'[y] = finRuns[y]
    BY <1>2, Replaced DEF FinInv, FinRows
  <1>4. /\ IsSequence(finJobs') /\ DOMAIN finJobs' = DOMAIN finJobs /\ finJobs'[j] = job
        /\ \A i \in DOMAIN finJobs \ {j} : finJobs'[i] = finJobs[i]
    BY <1>2, Replaced DEF FinInv, FinRows
  <1>5. \A y \in DOMAIN finRuns' : RunOK(finRuns'[y])
    BY <1>2, <1>3 DEF FinInv
  <1>6. \A i \in DOMAIN finJobs' : DOMAIN finJobs'[i] = FinJobFields
    BY <1>2, <1>4 DEF FinInv, FinRows
  <1>7. \A i \in DOMAIN finJobs \ {j} : finJobs[i].status \in Fin!Active => finJobs[i].run # x
    BY <1>1 DEF FinInv, FinLinks
  <1>8. \A i \in DOMAIN finJobs' :
           /\ finJobs'[i].run \in DOMAIN finRuns' /\ finJobs'[i].snapshot = finRuns'[finJobs'[i].run].snapshot
           /\ finJobs'[i].status \in Fin!Active => /\ finRuns'[finJobs'[i].run].job = i
                                                   /\ finRuns'[finJobs'[i].run].status = finJobs'[i].status
    BY <1>1, <1>2, <1>3, <1>4, <1>7 DEF FinInv, FinLinks
  <1>9. \A y \in DOMAIN finRuns' : finRuns'[y].status \in Fin!Active =>
           /\ finRuns'[y].job \in DOMAIN finJobs'
           /\ finJobs'[finRuns'[y].job].run = y /\ finJobs'[finRuns'[y].job].status = finRuns'[y].status
    <2>1. ASSUME NEW y \in DOMAIN finRuns', finRuns'[y].status \in Fin!Active, y # x
          PROVE  finRuns[y].job # j
      BY <2>1, <1>1, <1>3 DEF FinInv, FinLinks
    <2>2. QED
      BY <1>2, <1>3, <1>4, <2>1 DEF FinInv, FinLinks
  <1>10. \A h, i \in DOMAIN finJobs' :
            (finJobs'[h].status \in Fin!Active /\ finJobs'[i].status \in Fin!Active
               /\ finJobs'[h].snapshot = finJobs'[i].snapshot) => h = i
    BY <1>2, <1>4 DEF FinInv, FinLinks
  <1>11. FinLinks'
    BY <1>8, <1>9, <1>10 DEF FinLinks, Fin!Active
  <1>12. QED
    BY <1>3, <1>4, <1>5, <1>6, <1>11

LEMMA FinClaimKeepsInv ==
    ASSUME FinInv, NEW w \in FinWorkers, Fin!Claim(w)
    PROVE  FinInv'
  <1>1. PICK j, held :
          /\ j \in DOMAIN finJobs
          /\ finJobs[j].status = "PENDING"
          /\ finJobs' = [finJobs EXCEPT ![j].status = "PROCESSING"]
          /\ finRuns' = [finRuns EXCEPT ![finJobs[j].run].status = "PROCESSING"]
          /\ finWorker' = [finWorker EXCEPT ![w] = held] /\ held.job = j
          /\ UNCHANGED <<finRules, finRequest>>
    <2>1. PICK j \in DOMAIN finJobs :
             /\ finJobs[j].status = "PENDING"
             /\ finJobs' = [finJobs EXCEPT ![j].status = "PROCESSING"]
             /\ finRuns' = [finRuns EXCEPT ![finJobs[j].run].status = "PROCESSING"]
             /\ finWorker' = [finWorker EXCEPT ![w] = [job |-> j, closing |-> finClosing]]
             /\ UNCHANGED <<finRules, finRequest>>
      BY DEF Fin!Claim
    <2>2. PICK held : held = [job |-> j, closing |-> finClosing]
      OBVIOUS
    <2>3. held.job = j /\ finWorker' = [finWorker EXCEPT ![w] = held]
      BY <2>1, <2>2
    <2>4. QED
      BY <2>1, <2>3
  <1>2. PICK x \in DOMAIN finRuns : x = finJobs[j].run
    BY <1>1 DEF FinInv, FinLinks
  <1>3. PICK was, old : /\ was = finJobs[j] /\ DOMAIN was = FinJobFields
                        /\ old = finRuns[x] /\ RunOK(old)
    BY <1>1, <1>2 DEF FinInv, FinRows
  <1>4. PICK job, run : /\ job = [was EXCEPT !.status = "PROCESSING"]
                        /\ run = [old EXCEPT !.status = "PROCESSING"]
    OBVIOUS
  <1>5. /\ DOMAIN job = FinJobFields /\ job.status = "PROCESSING" /\ job.run = was.run
        /\ job.snapshot = was.snapshot
    BY <1>3, <1>4 DEF FinJobFields
  <1>6. /\ DOMAIN run = FinRunFields /\ run.status = "PROCESSING" /\ run.job = old.job
        /\ run.snapshot = old.snapshot /\ run.versions = old.versions
        /\ run.results = old.results /\ run.closing = old.closing
    BY <1>3, <1>4 DEF RunOK, FinRunFields
  <1>7. RunOK(run)
    <2>1. run.status \notin Fin!Completed
      BY <1>6 DEF Fin!Completed
    <2>2. QED
      BY <1>3, <1>6, <2>1 DEF RunOK
  <1>8. finJobs' = [finJobs EXCEPT ![j] = job] /\ finRuns' = [finRuns EXCEPT ![x] = run]
    BY <1>1, <1>2, <1>3, <1>4
  <1>9. FinMoves(j, job, run) /\ finJobs[j].status \in Fin!Active
    BY <1>1, <1>2, <1>3, <1>5, <1>6, <1>7, <1>8 DEF FinMoves, Fin!Active
  <1>10. /\ FinLinks'
         /\ IsSequence(finRuns') /\ DOMAIN finRuns' = DOMAIN finRuns
         /\ \A y \in DOMAIN finRuns' : RunOK(finRuns'[y])
         /\ IsSequence(finJobs') /\ \A i \in DOMAIN finJobs' : DOMAIN finJobs'[i] = FinJobFields
         /\ DOMAIN finJobs' = DOMAIN finJobs /\ finJobs'[j] = job
         /\ \A i \in DOMAIN finJobs \ {j} : finJobs'[i] = finJobs[i]
    BY <1>1, <1>2, <1>9, MovesKeepLinks
  <1>11. /\ DOMAIN finWorker' = FinWorkers /\ finWorker'[w] = held
         /\ \A v \in FinWorkers \ {w} : finWorker'[v] = finWorker[v]
    BY <1>1 DEF FinInv, FinRows
  <1>12. FinHolders'
    <2>1. \A v \in FinWorkers : finWorker[v] # Fin!Free => finWorker[v].job # j
      BY <1>1 DEF FinInv, FinHolders
    <2>2. \A v \in FinWorkers : finWorker'[v] # Fin!Free =>
             finWorker'[v].job \in DOMAIN finJobs' /\ finJobs'[finWorker'[v].job].status = "PROCESSING"
      BY <1>1, <1>5, <1>10, <1>11, <2>1 DEF FinInv, FinHolders
    <2>3. QED
      BY <1>1, <1>11, <2>1, <2>2 DEF FinInv, FinHolders, Fin!Free
  <1>13. QED
    BY <1>1, <1>10, <1>11, <1>12, RowsStepKeepsFinInv DEF FinInv, FinRows

LEMMA FreedKeepsFinHolders ==
    ASSUME FinInv, NEW w \in FinWorkers, finWorker[w] # Fin!Free,
           finWorker' = [finWorker EXCEPT ![w] = Fin!Free], DOMAIN finJobs' = DOMAIN finJobs,
           \A i \in DOMAIN finJobs \ {finWorker[w].job} : finJobs'[i] = finJobs[i]
    PROVE  FinHolders' /\ DOMAIN finWorker' = FinWorkers
  <1>1. /\ DOMAIN finWorker' = FinWorkers /\ finWorker'[w] = Fin!Free
        /\ \A v \in FinWorkers \ {w} : finWorker'[v] = finWorker[v]
    BY DEF FinInv, FinRows
  <1>2. \A v \in FinWorkers : (v # w /\ finWorker[v] # Fin!Free) =>
             finWorker[v].job # finWorker[w].job /\ finWorker[v].job \in DOMAIN finJobs
    BY DEF FinInv, FinHolders
  <1>3. QED
    BY <1>1, <1>2 DEF FinInv, FinHolders, Fin!Free

LEMMA EndedKeepsFinInv ==
    ASSUME FinInv, NEW w \in FinWorkers, finWorker[w] # Fin!Free, NEW status, NEW results,
           Fin!Ended(w, status, results),
           status \in Fin!Completed => DOMAIN results = Fin!Requirements,
           \A q \in DOMAIN results :
              /\ q \in Fin!Requirements
              /\ DOMAIN results[q] = ResultFields
              /\ results[q].status = Fin!Outcome(w)[q].status
              /\ results[q].period = Fin!Outcome(w)[q].period
    PROVE  FinInv'
  <1>1. PICK j \in DOMAIN finJobs : j = finWorker[w].job /\ finJobs[j].status = "PROCESSING"
    BY DEF FinInv, FinHolders
  <1>2. PICK x \in DOMAIN finRuns : x = finJobs[j].run
    BY DEF FinInv, FinLinks
  <1>3. PICK was, old, date : /\ was = finJobs[j] /\ DOMAIN was = FinJobFields
                              /\ old = finRuns[x] /\ RunOK(old) /\ date = finWorker[w].closing
    BY DEF FinInv, FinRows
  <1>4. PICK job, run :
          /\ job = [was EXCEPT !.status = status]
          /\ run = [old EXCEPT !.status = status, !.results = results, !.closing = date]
    OBVIOUS
  <1>5. finJobs' = [finJobs EXCEPT ![j] = job] /\ finRuns' = [finRuns EXCEPT ![x] = run]
    BY <1>1, <1>2, <1>3, <1>4 DEF Fin!Ended
  <1>6. /\ DOMAIN job = FinJobFields /\ job.status = status /\ job.run = was.run
        /\ job.snapshot = was.snapshot
    BY <1>3, <1>4 DEF FinJobFields
  <1>7. /\ DOMAIN run = FinRunFields /\ run.status = status /\ run.job = old.job
        /\ run.snapshot = old.snapshot /\ run.versions = old.versions
        /\ run.results = results /\ run.closing = date
    BY <1>3, <1>4 DEF RunOK, FinRunFields
  <1>8. RunOK(run)
    <2>1. ASSUME NEW q \in DOMAIN results
          PROVE  Matches(results[q], finRules[q][old.versions[q]], FinSnapshots[old.snapshot], date)
      <3>1. q \in Fin!Requirements
        OBVIOUS
      <3>2. Fin!Outcome(w)[q]
              = Fin!Evaluate(finRules[q][old.versions[q]], FinSnapshots[old.snapshot], date)
        BY <1>1, <1>2, <1>3, <3>1 DEF Fin!Outcome, Fin!RuleOf
      <3>3. QED
        BY <3>2 DEF Matches
    <2>2. QED
      BY <1>3, <1>7, <2>1 DEF RunOK
  <1>9. FinMoves(j, job, run) /\ finJobs[j].status \in Fin!Active
    BY <1>1, <1>2, <1>3, <1>5, <1>6, <1>7, <1>8 DEF FinMoves, Fin!Active
  <1>10. /\ FinLinks'
         /\ IsSequence(finRuns') /\ DOMAIN finRuns' = DOMAIN finRuns
         /\ \A y \in DOMAIN finRuns' : RunOK(finRuns'[y])
         /\ IsSequence(finJobs') /\ \A i \in DOMAIN finJobs' : DOMAIN finJobs'[i] = FinJobFields
         /\ DOMAIN finJobs' = DOMAIN finJobs
         /\ \A i \in DOMAIN finJobs \ {j} : finJobs'[i] = finJobs[i]
    BY <1>9, MovesKeepLinks
  <1>11. finWorker' = [finWorker EXCEPT ![w] = Fin!Free] /\ UNCHANGED <<finRules, finRequest>>
    BY DEF Fin!Ended
  <1>12. FinHolders' /\ DOMAIN finWorker' = FinWorkers
    BY <1>1, <1>10, <1>11, FreedKeepsFinHolders
  <1>13. QED
    BY <1>10, <1>11, <1>12, RowsStepKeepsFinInv DEF FinInv, FinRows

LEMMA FinEndsKeepInv ==
    ASSUME FinInv, NEW w \in FinWorkers, Fin!Complete(w) \/ Fin!Fail(w)
    PROVE  FinInv'
  <1>1. finWorker[w] # Fin!Free
    BY DEF Fin!Complete, Fin!Fail
  <1>2. CASE Fin!Complete(w)
    <2>1. PICK status, results :
             /\ Fin!Ended(w, status, results)
             /\ results = [q \in Fin!Requirements |-> Fin!NewResult(Fin!Outcome(w)[q])]
      BY <1>2 DEF Fin!Complete
    <2>2. \A q \in Fin!Requirements :
             /\ DOMAIN results[q] = ResultFields
             /\ results[q].status = Fin!Outcome(w)[q].status
             /\ results[q].period = Fin!Outcome(w)[q].period
      BY <2>1 DEF Fin!NewResult, ResultFields
    <2>3. QED
      BY <1>1, <2>1, <2>2, EndedKeepsFinInv
  <1>3. CASE Fin!Fail(w)
    <2>1. PICK q, results :
             /\ q \in Fin!Requirements
             /\ Fin!Ended(w, "FAILED", results)
             /\ results = [p \in 1 .. q |-> Fin!NewResult(Fin!Outcome(w)[p])]
      BY <1>3 DEF Fin!Fail
    <2>2. \A p \in 1 .. q : p \in Fin!Requirements
      <3>1. PICK S : FinTexts \in Seq(S)
        BY EvaluationsAssumption DEF IsSequence
      <3>2. QED
        BY <2>1, <3>1 DEF Fin!Requirements
    <2>3. \A p \in 1 .. q :
             /\ DOMAIN results[p] = ResultFields
             /\ results[p].status = Fin!Outcome(w)[p].status
             /\ results[p].period = Fin!Outcome(w)[p].period
      BY <2>1 DEF Fin!NewResult, ResultFields
    <2>4. "FAILED" \notin Fin!Completed
      BY DEF Fin!Completed
    <2>5. DOMAIN results = 1 .. q
      BY ONLY <2>1
    <2>6. QED
      BY ONLY FinInv, w \in FinWorkers, <1>1, <2>1, <2>2, <2>3, <2>4, <2>5, EndedKeepsFinInv, Zenon
  <1>4. QED
    BY <1>2, <1>3

LEMMA FinCrashKeepsInv ==
    ASSUME FinInv, NEW w \in FinWorkers, Fin!Crash(w)
    PROVE  FinInv'
  <1>1. /\ finWorker[w] # Fin!Free /\ finWorker' = [finWorker EXCEPT ![w] = Fin!Free]
        /\ UNCHANGED <<finRules, finRuns, finJobs, finRequest>>
    BY DEF Fin!Crash
  <1>2. FinHolders' /\ DOMAIN finWorker' = FinWorkers
    BY <1>1, FreedKeepsFinHolders
  <1>3. QED
    BY <1>1, <1>2, RowsStepKeepsFinInv DEF FinInv, FinRows, FinLinks

LEMMA FinNextInv == FinInv /\ [Fin!Next]_(Fin!vars) => FinInv'
  <1> SUFFICES ASSUME FinInv, [Fin!Next]_(Fin!vars) PROVE FinInv'
    OBVIOUS
  <1>1. CASE Fin!Synchronise \/ UNCHANGED Fin!vars
    <2>1. UNCHANGED <<finRules, finRuns, finJobs, finRequest, finWorker>>
      BY <1>1 DEF Fin!Synchronise, Fin!vars
    <2>2. QED
      BY <2>1, RowsStepKeepsFinInv DEF FinInv, FinRows, FinLinks, FinHolders
  <1>2. ASSUME NEW c \in Clients, Fin!ClientStep(c) PROVE FinInv'
    BY <1>2, BeginCreateKeepsFinInv, RequestsKeepFinInv, CommitCreateKeepsFinInv,
       CommitRetryKeepsFinInv, CommitUpdateKeepsFinInv, ReviewKeepsFinInv DEF Fin!ClientStep
  <1>3. ASSUME NEW w \in FinWorkers, Fin!WorkerStep(w) \/ Fin!Crash(w) PROVE FinInv'
    BY <1>3, FinClaimKeepsInv, FinEndsKeepInv, FinCrashKeepsInv DEF Fin!WorkerStep
  <1>4. QED
    BY <1>1, <1>2, <1>3 DEF Fin!Next

LEMMA FinInvariant == Fin!Spec => []FinInv
  <1>1. Fin!Init => FinInv
    BY FinInitInv
  <1>2. FinInv /\ [Fin!Next]_(Fin!vars) => FinInv'
    BY FinNextInv
  <1>3. QED
    BY <1>1, <1>2, PTL DEF Fin!Spec

\* A financial run waits or is under way exactly while one job of its own is active, in
\* the same state.
THEOREM FinancialRunFollowsJob == Fin!Spec => []RunFollowsFinancialJob
  <1>1. FinInv => RunFollowsFinancialJob
    <2> SUFFICES ASSUME FinInv, NEW x \in DOMAIN finRuns
                 PROVE  LET active == {j \in DOMAIN finJobs : finJobs[j].run = x /\ finJobs[j].status \in Fin!Active}
                        IN  IF finRuns[x].status \in Fin!Active
                            THEN active = {finRuns[x].job} /\ finJobs[finRuns[x].job].status = finRuns[x].status
                            ELSE active = {}
      BY DEF RunFollowsFinancialJob, Fin!RunFollowsJob
    <2>1. \A j \in DOMAIN finJobs : (finJobs[j].run = x /\ finJobs[j].status \in Fin!Active) =>
             finRuns[x].job = j /\ finRuns[x].status \in Fin!Active
      BY DEF FinInv, FinLinks
    <2>2. finRuns[x].status \in Fin!Active =>
             /\ finRuns[x].job \in DOMAIN finJobs /\ finJobs[finRuns[x].job].run = x
             /\ finJobs[finRuns[x].job].status = finRuns[x].status
      BY DEF FinInv, FinLinks
    <2>3. QED
      BY <2>1, <2>2
  <1>2. QED
    BY <1>1, FinInvariant, PTL

\* Completed runs of one digest that were evaluated under one closing date agree on every
\* requirement, whatever rules were written and whatever was retried in between.
THEOREM FinancialDigestDecides == Fin!Spec => []SameInputsSameResults
  <1>1. FinInv => SameInputsSameResults
    <2> SUFFICES ASSUME FinInv, NEW x \in DOMAIN finRuns, NEW y \in DOMAIN finRuns,
                        finRuns[x].status \in Fin!Completed, finRuns[y].status \in Fin!Completed,
                        Fin!Manifest(finRuns[x]) = Fin!Manifest(finRuns[y]),
                        finRuns[x].closing = finRuns[y].closing, NEW q \in Fin!Requirements
                 PROVE  finRuns[x].results[q].status = finRuns[y].results[q].status
      BY DEF SameInputsSameResults, Fin!SameInputsSameResults
    <2>1. finRuns[x].snapshot = finRuns[y].snapshot /\ finRuns[x].versions = finRuns[y].versions
      BY DEF Fin!Manifest
    <2>2. \A z \in {x, y} : finRuns[z].results[q].status =
             Fin!Evaluate(finRules[q][finRuns[z].versions[q]], FinSnapshots[finRuns[z].snapshot], finRuns[z].closing).status
      BY DEF FinInv, RunOK, Matches
    <2>3. QED
      BY <2>1, <2>2
  <1>2. QED
    BY <1>1, FinInvariant, PTL

-----------------------------------------------------------------------------
(* A financial verdict rests on the records of one period.                 *)

LEMMA FinLeastPlace == ASSUME NEW S \in SUBSET Nat, S # {} PROVE Fin!Min(S) \in S
  BY LeastPlace DEF Fin!Min, Min

PeriodOK(period) == DOMAIN period.metrics \in SUBSET Nat

LEMMA UsabilityBacked ==
    ASSUME NEW status, NEW links, Fin!Usability(status, links) \in {"VERIFIED", "SUPPORTED"}
    PROVE  "CONFLICTING" \notin links /\ ({status} \cup links) \cap {"VERIFIED", "SUPPORTED"} # {}
  BY DEF Fin!Usability

\* Records that agree and of which somebody supports the first.
LEMMA DirectBacked ==
    ASSUME NEW period, PeriodOK(period), NEW type, Fin!OfType(period, type) # {},
           Fin!Direct(period, type).value # Null,
           Fin!Direct(period, type).usability \in {"VERIFIED", "SUPPORTED"}
    PROVE  Fin!Backed(type, period)
  <1>1. PICK recorded : recorded = Fin!OfType(period, type)
    OBVIOUS
  <1>2. recorded \in SUBSET DOMAIN period.metrics
    BY <1>1 DEF Fin!OfType
  <1>3. PICK place : place = Fin!Min(recorded) /\ place \in recorded
    BY <1>1, <1>2, FinLeastPlace DEF PeriodOK
  <1>4. PICK first, links : /\ first = period.metrics[place]
                            /\ links = UNION {period.metrics[n].links : n \in recorded}
    OBVIOUS
  <1>5. PICK base : base = [value |-> first.value, unit |-> Fin!MetricUnit(first, period),
                            currency |-> period.currency, usability |-> Fin!Usability(first.status, links),
                            error |-> Null, calculated |-> FALSE]
    OBVIOUS
  <1>6. base.usability = Fin!Usability(first.status, links)
    BY <1>5
  <1>7. PICK found : found = Fin!Direct(period, type)
    OBVIOUS
  <1>8. found = IF \E n \in recorded : period.metrics[n].value # first.value
                THEN [base EXCEPT !.value = Null, !.usability = "CONFLICTING", !.error = "EVIDENCE_CONFLICT"]
                ELSE base
    BY ONLY <1>1, <1>3, <1>4, <1>5, <1>7, Zenon DEF Fin!Direct
  <1>9. [base EXCEPT !.value = Null, !.usability = "CONFLICTING", !.error = "EVIDENCE_CONFLICT"].value = Null
    BY <1>5
  <1>10. /\ \A n \in recorded : period.metrics[n].value = first.value
         /\ Fin!Usability(first.status, links) \in {"VERIFIED", "SUPPORTED"}
    BY <1>6, <1>7, <1>8, <1>9
  <1>11. "CONFLICTING" \notin links /\ ({first.status} \cup links) \cap {"VERIFIED", "SUPPORTED"} # {}
    BY <1>10, UsabilityBacked
  <1>12. \E n \in recorded :
            ({period.metrics[n].status} \cup period.metrics[n].links) \cap {"VERIFIED", "SUPPORTED"} # {}
    <2>1. CASE first.status \in {"VERIFIED", "SUPPORTED"}
      BY <1>3, <1>4, <2>1
    <2>2. CASE first.status \notin {"VERIFIED", "SUPPORTED"}
      <3>1. PICK role \in {"VERIFIED", "SUPPORTED"} : role \in links
        BY <1>11, <2>2
      <3>2. PICK n \in recorded : role \in period.metrics[n].links
        BY <1>4, <3>1
      <3>3. QED
        BY <3>1, <3>2
    <2>3. QED
      BY <2>1, <2>2
  <1>13. \A n \in recorded : "CONFLICTING" \notin period.metrics[n].links
    BY <1>4, <1>11
  <1>14. QED
    BY <1>1, <1>10, <1>12, <1>13 DEF Fin!Backed

LEMMA MissingHasNoValue == ASSUME NEW period PROVE Fin!Missing(period).value = Null
  BY DEF Fin!Missing

LEMMA RecordedBacked ==
    ASSUME NEW period, PeriodOK(period), NEW type, Fin!Recorded(period, type).value # Null,
           Fin!Recorded(period, type).usability \in {"VERIFIED", "SUPPORTED"}
    PROVE  Fin!Backed(type, period)
  <1>1. Fin!OfType(period, type) # {}
    BY MissingHasNoValue DEF Fin!Recorded
  <1>2. QED
    BY <1>1, DirectBacked DEF Fin!Recorded

LEMMA CombinedBacked ==
    ASSUME NEW values, Fin!CombinedUsability(values) \in {"VERIFIED", "SUPPORTED"}
    PROVE  values \subseteq {"VERIFIED", "SUPPORTED"}
  <1>1. PICK worst : worst = Fin!Worst /\ worst = <<"MISSING", "CONFLICTING", "REJECTED", "EXPIRED">>
    BY DEF Fin!Worst
  <1>2. DOMAIN worst = 1 .. 4 /\ \A n \in 1 .. 4 : worst[n] \notin {"VERIFIED", "SUPPORTED"}
    BY <1>1
  <1>3. PICK held : held = {n \in DOMAIN worst : worst[n] \in values}
    OBVIOUS
  <1>4. held = {}
    <2> SUFFICES ASSUME held # {} PROVE FALSE
      OBVIOUS
    <2>1. Fin!Min(held) \in DOMAIN worst
      BY <1>2, <1>3, FinLeastPlace
    <2>2. Fin!CombinedUsability(values) = worst[Fin!Min(held)]
      BY <1>1, <1>3 DEF Fin!CombinedUsability
    <2>3. QED
      BY <1>2, <2>1, <2>2
  <1>5. QED
    BY <1>1, <1>3, <1>4 DEF Fin!CombinedUsability

LEMMA CalculatedBacked ==
    ASSUME NEW period, PeriodOK(period), NEW type, Fin!Calculated(period, type).value # Null,
           Fin!Calculated(period, type).usability \in {"VERIFIED", "SUPPORTED"}
    PROVE  Fin!Backed(Fin!Formula[type][1], period) /\ Fin!Backed(Fin!Formula[type][2], period)
  <1>1. PICK first, second : /\ first = Fin!Recorded(period, Fin!Formula[type][1])
                             /\ second = Fin!Recorded(period, Fin!Formula[type][2])
    OBVIOUS
  <1>2. PICK none : none = [value |-> Null, unit |-> IF type \in Fin!RatioMetrics THEN "ratio" ELSE "COP",
                 currency |-> IF type \in Fin!MoneyMetrics THEN period.currency ELSE Null,
                 usability |-> "MISSING", error |-> Null, calculated |-> TRUE]
    OBVIOUS
  <1>3. PICK found : found = Fin!Calculated(period, type)
    OBVIOUS
  <1>4. PICK value, usability : /\ value = Fin!Calculate(type, first.value, second.value)
                                /\ usability = Fin!CombinedUsability({first.usability, second.usability})
    OBVIOUS
  <1>5. found = IF {first.error, second.error} # {Null}
                  THEN [none EXCEPT !.usability = "CONFLICTING", !.error = "EVIDENCE_CONFLICT"]
                ELSE IF Null \in {first.value, second.value} THEN none
                ELSE IF type \in Fin!RatioMetrics /\ second.value = 0
                  THEN [none EXCEPT !.error = "DIVISION_BY_ZERO"]
                ELSE [none EXCEPT !.value = value, !.usability = usability]
    BY <1>1, <1>2, <1>3, <1>4 DEF Fin!Calculated
  <1>6. /\ none.value = Null
        /\ [none EXCEPT !.usability = "CONFLICTING", !.error = "EVIDENCE_CONFLICT"].value = Null
        /\ [none EXCEPT !.error = "DIVISION_BY_ZERO"].value = Null
        /\ [none EXCEPT !.value = value, !.usability = usability].usability = usability
    BY <1>2
  <1>7. first.value # Null /\ second.value # Null /\ usability \in {"VERIFIED", "SUPPORTED"}
    BY <1>3, <1>5, <1>6
  <1>8. {first.usability, second.usability} \subseteq {"VERIFIED", "SUPPORTED"}
    BY <1>4, <1>7, CombinedBacked
  <1>9. QED
    BY <1>1, <1>7, <1>8, RecordedBacked

LEMMA ResolvedBacked ==
    ASSUME NEW period, PeriodOK(period), NEW metric, Fin!Resolved(period, metric).value # Null,
           Fin!Resolved(period, metric).usability \in {"VERIFIED", "SUPPORTED"}
    PROVE  \A type \in Fin!Sources(metric, period) : Fin!Backed(type, period)
  <1>1. CASE Fin!OfType(period, metric) # {}
    BY <1>1, DirectBacked DEF Fin!Resolved, Fin!Sources
  <1>2. CASE Fin!OfType(period, metric) = {} /\ metric \in DOMAIN Fin!Formula
    <2>1. Fin!Resolved(period, metric) = Fin!Calculated(period, metric)
      BY <1>2 DEF Fin!Resolved
    <2>2. Fin!Sources(metric, period) = {Fin!Formula[metric][1], Fin!Formula[metric][2]}
      BY <1>2 DEF Fin!Sources
    <2>3. QED
      BY <2>1, <2>2, CalculatedBacked
  <1>3. CASE Fin!OfType(period, metric) = {} /\ metric \notin DOMAIN Fin!Formula
    <2>1. Fin!Resolved(period, metric) = Fin!Missing(period)
      BY <1>3 DEF Fin!Resolved
    <2>2. QED
      BY <2>1, MissingHasNoValue
  <1>4. QED
    BY <1>1, <1>2, <1>3

LEMMA VerdictRests ==
    ASSUME NEW rule, NEW periods, NEW closingDate, NEW period,
           \A n \in DOMAIN periods : PeriodOK(periods[n]),
           Fin!Evaluate(rule, periods, closingDate).status \in {"COMPLIES", "DOES_NOT_COMPLY"},
           period = periods[Fin!Evaluate(rule, periods, closingDate).period]
    PROVE  /\ period.status # "REJECTED"
           /\ \A type \in Fin!Sources(rule.metric, period) : Fin!Backed(type, period)
  <1>1. PICK outcome : outcome = Fin!Evaluate(rule, periods, closingDate)
    OBVIOUS
  <1>2. PICK latest, place : latest = Fin!Latest(periods, rule, closingDate) /\ place = CHOOSE x \in latest : TRUE
    OBVIOUS
  <1>3. PICK found : found = Fin!Resolved(periods[place], rule.metric)
    OBVIOUS
  <1>4. PICK verdict, review : /\ verdict = Fin!Compare(rule, found.value)
                               /\ review = (rule.review \/ found.usability # "VERIFIED")
    OBVIOUS
  <1>5. outcome =
          IF ~rule.mapped \/ ~\E x \in DOMAIN periods : latest = {x}
            THEN [status |-> "UNKNOWN", period |-> Null, review |-> TRUE, calculated |-> FALSE]
          ELSE IF found.error = "EVIDENCE_CONFLICT"
            THEN [status |-> "CONFLICTING_EVIDENCE", period |-> place, review |-> TRUE,
                  calculated |-> found.calculated]
          ELSE IF found.value = Null
            THEN [status |-> "UNKNOWN", period |-> place, review |-> TRUE, calculated |-> found.calculated]
          ELSE IF found.usability = "CONFLICTING"
            THEN [status |-> "CONFLICTING_EVIDENCE", period |-> place, review |-> TRUE,
                  calculated |-> found.calculated]
          ELSE IF ~Fin!UnitsAgree(rule, found) \/ found.usability \notin {"VERIFIED", "SUPPORTED"}
            THEN [status |-> "UNKNOWN", period |-> place, review |-> TRUE, calculated |-> found.calculated]
          ELSE [[status |-> verdict, period |-> place, review |-> TRUE, calculated |-> found.calculated]
                  EXCEPT !.review = review]
    BY <1>1, <1>2, <1>3, <1>4 DEF Fin!Evaluate
  <1>6. outcome.status \in {"COMPLIES", "DOES_NOT_COMPLY"}
    BY <1>1
  <1>7. /\ \E x \in DOMAIN periods : latest = {x}
        /\ found.value # Null /\ found.usability \in {"VERIFIED", "SUPPORTED"}
        /\ outcome.period = place
    BY <1>5, <1>6
  <1>8. place \in DOMAIN periods /\ place \in latest
    BY <1>2, <1>7
  <1>9. periods[place].status # "REJECTED"
    BY <1>2, <1>8 DEF Fin!Latest, Fin!Candidates
  <1>10. period = periods[place]
    BY <1>1, <1>7
  <1>11. QED
    BY <1>3, <1>7, <1>8, <1>9, <1>10, ResolvedBacked

\* evaluate_financial_requirement decides only on evidence: whatever rules were overridden and
\* however often a run failed and was retried, a verdict is about a period that was not rejected,
\* and every metric that enters it is recorded without contradiction and supported by somebody.
THEOREM VerdictOnEvidence == Fin!Spec => []VerdictBacked
  <1>1. FinInv => VerdictBacked
    <2> SUFFICES ASSUME FinInv, NEW x \in DOMAIN finRuns, NEW q \in DOMAIN finRuns[x].results,
                        finRuns[x].results[q].status \in {"COMPLIES", "DOES_NOT_COMPLY"},
                        NEW period,
                        period = FinSnapshots[finRuns[x].snapshot][finRuns[x].results[q].period]
                 PROVE  /\ period.status # "REJECTED"
                        /\ \A type \in Fin!Sources(Fin!RuleOf(x, q).metric, period) : Fin!Backed(type, period)
      BY DEF VerdictBacked, Fin!VerdictBacked
    <2>1. PICK run, result, rule, periods :
             /\ run = finRuns[x] /\ result = run.results[q] /\ rule = finRules[q][run.versions[q]]
             /\ periods = FinSnapshots[run.snapshot]
      OBVIOUS
    <2>2. Matches(result, rule, periods, run.closing) /\ run.snapshot \in DOMAIN FinSnapshots
      BY <2>1 DEF FinInv, RunOK
    <2>3. ASSUME NEW n \in DOMAIN periods PROVE PeriodOK(periods[n])
      <3>1. PICK metrics : metrics = periods[n].metrics /\ metrics \in Seq(Range(metrics))
        BY <2>1, <2>2, EvaluationsAssumption
      <3>2. DOMAIN metrics = 1 .. Len(metrics) /\ Len(metrics) \in Nat
        BY <3>1
      <3>3. QED
        BY <3>1, <3>2 DEF PeriodOK
    <2>4. /\ Fin!Evaluate(rule, periods, run.closing).status \in {"COMPLIES", "DOES_NOT_COMPLY"}
          /\ period = periods[Fin!Evaluate(rule, periods, run.closing).period]
      BY <2>1, <2>2 DEF Matches
    <2>5. Fin!RuleOf(x, q) = rule
      BY <2>1 DEF Fin!RuleOf
    <2>6. /\ \A n \in DOMAIN periods : PeriodOK(periods[n])
          /\ Fin!Evaluate(rule, periods, run.closing).status \in {"COMPLIES", "DOES_NOT_COMPLY"}
          /\ period = periods[Fin!Evaluate(rule, periods, run.closing).period]
      BY <2>3, <2>4
    <2>7. period.status # "REJECTED"
      BY ONLY <2>6, VerdictRests
    <2>8. \A type \in Fin!Sources(rule.metric, period) : Fin!Backed(type, period)
      BY ONLY <2>6, VerdictRests
    <2>9. QED
      BY <2>5, <2>7, <2>8
  <1>2. QED
    BY <1>1, FinInvariant, PTL

-----------------------------------------------------------------------------
(* DecisionReports.                                                        *)

PackageFields == {"status", "job", "manifest", "rows", "content"}
ReportJobFields == {"status", "package", "attempts"}
Waiting == {"DRAFT", "GENERATING"}

RepRows ==
    /\ IsSequence(repPackages) /\ DOMAIN repPackages \subseteq 1 .. MaxPackages
    /\ \A p \in DOMAIN repPackages : DOMAIN repPackages[p] = PackageFields
    /\ IsSequence(repJobs) /\ \A j \in DOMAIN repJobs : DOMAIN repJobs[j] = ReportJobFields
    /\ DOMAIN repStorage = 1 .. MaxPackages
    /\ DOMAIN repWorker = RepWorkers /\ DOMAIN repRequest = Clients

\* A package knows its latest job. The index lets one job be active, which then is the
\* latest one of its package.
RepLinks ==
    /\ \A p \in DOMAIN repPackages : /\ repPackages[p].job \in DOMAIN repJobs
                                     /\ repJobs[repPackages[p].job].package = p
    /\ \A j \in DOMAIN repJobs : /\ repJobs[j].package \in DOMAIN repPackages
                                 /\ repJobs[j].status \in Rep!Active => repPackages[repJobs[j].package].job = j
    /\ \A i, j \in DOMAIN repJobs :
          (repJobs[i].status \in Rep!Active /\ repJobs[j].status \in Rep!Active) => i = j
    /\ \A c \in Clients : repRequest[c].op = "retry" => repRequest[c].package \in DOMAIN repPackages

\* A worker holds a job under way that nobody else holds, and what it is about to
\* publish has its files.
RepHolders ==
    /\ \A w \in RepWorkers : repWorker[w] # Rep!Free =>
          /\ DOMAIN repWorker[w] = {"job", "content"}
          /\ repWorker[w].job \in DOMAIN repJobs /\ repJobs[repWorker[w].job].status = "PROCESSING"
          /\ repWorker[w].content # Null => repStorage[repJobs[repWorker[w].job].package] = Files
    /\ \A v, w \in RepWorkers :
          (repWorker[v] # Rep!Free /\ repWorker[w] # Rep!Free /\ repWorker[v].job = repWorker[w].job) => v = w

RepInv == RepRows /\ RepLinks /\ RepHolders /\ Rep!RowsHaveFiles /\ Rep!PackageFollowsJob

LEMMA RepInitInv == Rep!Init => RepInv
  <1> SUFFICES ASSUME Rep!Init PROVE RepInv
    OBVIOUS
  <1>1. IsSequence(<<>>)
    BY DEF IsSequence
  <1>2. RepRows
    BY <1>1 DEF Rep!Init, RepRows
  <1>3. RepLinks
    BY DEF Rep!Init, RepLinks, Rep!Idle
  <1>4. RepHolders
    BY DEF Rep!Init, RepHolders, Rep!Free
  <1>5. QED
    BY <1>2, <1>3, <1>4 DEF Rep!Init, RepInv, Rep!RowsHaveFiles, Rep!PackageFollowsJob

\* A request that writes nothing but what it has read.
LEMMA ReadingKeepsRepInv ==
    ASSUME RepInv, UNCHANGED <<repPackages, repJobs, repStorage, repWorker>>, DOMAIN repRequest' = Clients,
           \A c \in Clients : repRequest'[c].op = "retry" => repRequest'[c].package \in DOMAIN repPackages
    PROVE  RepInv'
  BY DEF RepInv, RepRows, RepLinks, RepHolders, Rep!RowsHaveFiles, Rep!PackageFollowsJob

LEMMA RequestsKeepRepInv ==
    ASSUME RepInv, NEW c \in Clients,
           \/ \E force \in BOOLEAN : Rep!BeginCreate(c, force)
           \/ \E p \in DOMAIN repPackages : Rep!BeginRetry(c, p)
           \/ Rep!Refused(c)
    PROVE  RepInv'
  <1>1. UNCHANGED <<repPackages, repJobs, repStorage, repWorker>>
    BY DEF Rep!BeginCreate, Rep!BeginRetry, Rep!Refused
  <1>2. /\ DOMAIN repRequest' = Clients
        /\ \A x \in Clients : \/ repRequest'[x] = repRequest[x]
                              \/ repRequest'[x].op # "retry"
                              \/ repRequest'[x].package \in DOMAIN repPackages
    <2>1. ASSUME NEW force \in BOOLEAN, Rep!BeginCreate(c, force)
          PROVE  /\ DOMAIN repRequest' = Clients /\ repRequest'[c].op = "create"
                 /\ \A x \in Clients \ {c} : repRequest'[x] = repRequest[x]
      BY <2>1 DEF Rep!BeginCreate, RepInv, RepRows
    <2>2. ASSUME NEW p \in DOMAIN repPackages, Rep!BeginRetry(c, p)
          PROVE  /\ DOMAIN repRequest' = Clients /\ repRequest'[c].package = p
                 /\ \A x \in Clients \ {c} : repRequest'[x] = repRequest[x]
      BY <2>2 DEF Rep!BeginRetry, RepInv, RepRows
    <2>3. ASSUME Rep!Refused(c)
          PROVE  /\ DOMAIN repRequest' = Clients /\ repRequest'[c].op = "idle"
                 /\ \A x \in Clients \ {c} : repRequest'[x] = repRequest[x]
      BY <2>3 DEF Rep!Refused, Rep!Idle, RepInv, RepRows
    <2>4. QED
      BY <2>1, <2>2, <2>3
  <1>3. QED
    BY <1>1, <1>2, ReadingKeepsRepInv DEF RepInv, RepLinks

LEMMA CommitCreateKeepsRepInv ==
    ASSUME RepInv, NEW c \in Clients, Rep!CommitCreate(c)
    PROVE  RepInv'
  <1>1. PICK package, job :
          /\ repPackages' = Append(repPackages, package) /\ repJobs' = Append(repJobs, job)
          /\ DOMAIN package = PackageFields /\ package.status = "DRAFT"
          /\ package.job = Len(repJobs) + 1 /\ package.rows = {}
          /\ DOMAIN job = ReportJobFields /\ job.status = "PENDING" /\ job.package = Len(repPackages) + 1
    BY DEF Rep!CommitCreate, Rep!NewPackage, Rep!NewJob, PackageFields, ReportJobFields
  <1>2. /\ Len(repPackages) < MaxPackages /\ UNCHANGED <<repStorage, repWorker>>
        /\ \A j \in DOMAIN repJobs : repJobs[j].status \notin Rep!Active
        /\ DOMAIN repRequest' = Clients
        /\ \A x \in Clients : repRequest'[x] = repRequest[x] \/ repRequest'[x] = Rep!Idle
    BY DEF Rep!CommitCreate, Rep!NoActiveJob, RepInv, RepRows
  <1>3. /\ IsSequence(repPackages') /\ Len(repPackages) \in Nat /\ DOMAIN repPackages = 1 .. Len(repPackages)
        /\ DOMAIN repPackages' = 1 .. (Len(repPackages) + 1) /\ repPackages'[Len(repPackages) + 1] = package
        /\ \A p \in 1 .. Len(repPackages) : repPackages'[p] = repPackages[p]
    BY <1>1, Appended DEF RepInv, RepRows
  <1>4. /\ IsSequence(repJobs') /\ Len(repJobs) \in Nat /\ DOMAIN repJobs = 1 .. Len(repJobs)
        /\ DOMAIN repJobs' = 1 .. (Len(repJobs) + 1) /\ repJobs'[Len(repJobs) + 1] = job
        /\ \A j \in 1 .. Len(repJobs) : repJobs'[j] = repJobs[j]
    BY <1>1, Appended DEF RepInv, RepRows
  <1>5. \A p \in DOMAIN repPackages' :
           p \in DOMAIN repPackages \/ (p = Len(repPackages) + 1 /\ repPackages'[p] = package)
    BY <1>3
  <1>6. \A j \in DOMAIN repJobs' : j \in DOMAIN repJobs \/ (j = Len(repJobs) + 1 /\ repJobs'[j] = job)
    BY <1>4
  <1>7. /\ \A p \in DOMAIN repPackages : p \in DOMAIN repPackages' /\ repPackages'[p] = repPackages[p]
        /\ \A j \in DOMAIN repJobs : j \in DOMAIN repJobs' /\ repJobs'[j] = repJobs[j]
        /\ Len(repPackages) + 1 \in DOMAIN repPackages' /\ Len(repJobs) + 1 \in DOMAIN repJobs'
        /\ Len(repPackages) + 1 \in 1 .. MaxPackages
    BY <1>2, <1>3, <1>4, EvaluationsAssumption
  <1>8. RepRows'
    BY <1>1, <1>2, <1>3, <1>4, <1>5, <1>6, <1>7 DEF RepInv, RepRows
  <1>9. RepLinks'
    <2>1. \A p \in DOMAIN repPackages' : /\ repPackages'[p].job \in DOMAIN repJobs'
                                         /\ repJobs'[repPackages'[p].job].package = p
      BY <1>1, <1>3, <1>4, <1>5, <1>7 DEF RepInv, RepLinks
    <2>2. \A j \in DOMAIN repJobs' :
             /\ repJobs'[j].package \in DOMAIN repPackages'
             /\ repJobs'[j].status \in Rep!Active => repPackages'[repJobs'[j].package].job = j
      BY <1>1, <1>2, <1>3, <1>4, <1>6, <1>7 DEF RepInv, RepLinks
    <2>3. \A i, j \in DOMAIN repJobs' :
             (repJobs'[i].status \in Rep!Active /\ repJobs'[j].status \in Rep!Active) => i = j
      BY <1>2, <1>6, <1>7
    <2>4. QED
      BY <1>2, <1>7, <2>1, <2>2, <2>3 DEF RepInv, RepLinks, Rep!Idle, Rep!Active
  <1>10. RepHolders'
    BY <1>2, <1>7 DEF RepInv, RepHolders, Rep!Free
  <1>11. Rep!RowsHaveFiles'
    BY <1>1, <1>2, <1>5, <1>7 DEF RepInv, Rep!RowsHaveFiles
  <1>12. Rep!PackageFollowsJob'
    BY <1>1, <1>4, <1>5, <1>7 DEF RepInv, RepLinks, Rep!PackageFollowsJob, Rep!Active
  <1>13. QED
    BY <1>8, <1>9, <1>10, <1>11, <1>12 DEF RepInv

LEMMA CommitRetryKeepsRepInv ==
    ASSUME RepInv, NEW c \in Clients, Rep!CommitRetry(c)
    PROVE  RepInv'
  <1>1. PICK p \in DOMAIN repPackages : p = repRequest[c].package
    BY DEF Rep!CommitRetry, RepInv, RepLinks
  <1>2. PICK job : /\ repJobs' = Append(repJobs, job)
                   /\ DOMAIN job = ReportJobFields /\ job.status = "PENDING" /\ job.package = p
    BY <1>1 DEF Rep!CommitRetry, Rep!NewJob, ReportJobFields
  <1>3. PICK package : /\ repPackages' = [repPackages EXCEPT ![p] = package]
                       /\ DOMAIN package = PackageFields /\ package.status = "DRAFT"
                       /\ package.job = Len(repJobs) + 1 /\ package.rows = repPackages[p].rows
    <2>1. PICK old : old = repPackages[p] /\ DOMAIN old = PackageFields
      BY DEF RepInv, RepRows
    <2>2. PICK package : package = [old EXCEPT !.status = "DRAFT", !.job = Len(repJobs) + 1]
      OBVIOUS
    <2>3. repPackages' = [repPackages EXCEPT ![p] = package]
      BY <1>1, <2>1, <2>2 DEF Rep!CommitRetry
    <2>4. /\ DOMAIN package = PackageFields /\ package.status = "DRAFT"
          /\ package.job = Len(repJobs) + 1 /\ package.rows = old.rows
      BY <2>1, <2>2 DEF PackageFields
    <2>5. QED
      BY <2>1, <2>3, <2>4
  <1>4. /\ UNCHANGED <<repStorage, repWorker>>
        /\ \A j \in DOMAIN repJobs : repJobs[j].status \notin Rep!Active
        /\ DOMAIN repRequest' = Clients
        /\ \A x \in Clients : repRequest'[x] = repRequest[x] \/ repRequest'[x] = Rep!Idle
    BY DEF Rep!CommitRetry, Rep!NoActiveJob, RepInv, RepRows
  <1>5. /\ IsSequence(repPackages') /\ DOMAIN repPackages' = DOMAIN repPackages /\ repPackages'[p] = package
        /\ \A o \in DOMAIN repPackages \ {p} : repPackages'[o] = repPackages[o]
    BY <1>3, Replaced DEF RepInv, RepRows
  <1>6. /\ IsSequence(repJobs') /\ Len(repJobs) \in Nat /\ DOMAIN repJobs = 1 .. Len(repJobs)
        /\ DOMAIN repJobs' = 1 .. (Len(repJobs) + 1) /\ repJobs'[Len(repJobs) + 1] = job
        /\ \A j \in 1 .. Len(repJobs) : repJobs'[j] = repJobs[j]
    BY <1>2, Appended DEF RepInv, RepRows
  <1>7. /\ \A j \in DOMAIN repJobs' : j \in DOMAIN repJobs \/ (j = Len(repJobs) + 1 /\ repJobs'[j] = job)
        /\ \A j \in DOMAIN repJobs : j \in DOMAIN repJobs' /\ repJobs'[j] = repJobs[j]
        /\ Len(repJobs) + 1 \in DOMAIN repJobs'
    BY <1>6
  <1>8. RepRows'
    BY <1>2, <1>3, <1>4, <1>5, <1>6, <1>7 DEF RepInv, RepRows
  <1>9. RepLinks'
    <2>1. \A o \in DOMAIN repPackages' : /\ repPackages'[o].job \in DOMAIN repJobs'
                                         /\ repJobs'[repPackages'[o].job].package = o
      BY <1>2, <1>3, <1>5, <1>6, <1>7 DEF RepInv, RepLinks
    <2>2. \A j \in DOMAIN repJobs' :
             /\ repJobs'[j].package \in DOMAIN repPackages'
             /\ repJobs'[j].status \in Rep!Active => repPackages'[repJobs'[j].package].job = j
      BY <1>2, <1>3, <1>4, <1>5, <1>7 DEF RepInv, RepLinks
    <2>3. \A i, j \in DOMAIN repJobs' :
             (repJobs'[i].status \in Rep!Active /\ repJobs'[j].status \in Rep!Active) => i = j
      BY <1>4, <1>7
    <2>4. QED
      BY <1>4, <1>5, <2>1, <2>2, <2>3 DEF RepInv, RepLinks, Rep!Idle, Rep!Active
  <1>10. RepHolders'
    BY <1>4, <1>7 DEF RepInv, RepHolders, Rep!Free
  <1>11. Rep!RowsHaveFiles'
    BY <1>3, <1>4, <1>5 DEF RepInv, Rep!RowsHaveFiles
  <1>12. Rep!PackageFollowsJob'
    BY <1>2, <1>3, <1>5, <1>6, <1>7 DEF RepInv, RepLinks, Rep!PackageFollowsJob, Rep!Active
  <1>13. QED
    BY <1>8, <1>9, <1>10, <1>11, <1>12 DEF RepInv

\* What the steps of workers have in common: they move one active job and its package
\* together, and no file goes.
Moves(j, job, package) ==
    LET p == repJobs[j].package IN
    /\ repJobs' = [repJobs EXCEPT ![j] = job] /\ repPackages' = [repPackages EXCEPT ![p] = package]
    /\ DOMAIN job = ReportJobFields /\ job.package = p
    /\ DOMAIN package = PackageFields /\ package.job = j
    /\ package.status \in Waiting <=> job.status \in Rep!Active
    /\ package.rows \in {repPackages[p].rows, Files}
    /\ package.rows # repPackages[p].rows => repStorage[p] = Files

LEMMA MovesKeepRows ==
    ASSUME RepInv, NEW j \in DOMAIN repJobs, repJobs[j].status \in Rep!Active, NEW job, NEW package,
           Moves(j, job, package), UNCHANGED repRequest,
           DOMAIN repStorage' = DOMAIN repStorage,
           \A p \in DOMAIN repPackages : repStorage'[p] = repStorage[p],
           DOMAIN repWorker' = RepWorkers
    PROVE  /\ RepRows' /\ RepLinks' /\ Rep!RowsHaveFiles' /\ Rep!PackageFollowsJob'
           /\ DOMAIN repJobs' = DOMAIN repJobs /\ repJobs'[j] = job /\ repJobs'[j].package = repJobs[j].package
           /\ \A i \in DOMAIN repJobs \ {j} : repJobs'[i] = repJobs[i]
  <1>1. PICK p \in DOMAIN repPackages : p = repJobs[j].package /\ repPackages[p].job = j
    BY DEF RepInv, RepLinks
  <1>2. /\ IsSequence(repPackages') /\ DOMAIN repPackages' = DOMAIN repPackages /\ repPackages'[p] = package
        /\ \A o \in DOMAIN repPackages \ {p} : repPackages'[o] = repPackages[o]
    BY <1>1, Replaced DEF RepInv, RepRows, Moves
  <1>3. /\ IsSequence(repJobs') /\ DOMAIN repJobs' = DOMAIN repJobs /\ repJobs'[j] = job
        /\ \A i \in DOMAIN repJobs \ {j} : repJobs'[i] = repJobs[i]
    BY Replaced DEF RepInv, RepRows, Moves
  <1>4. /\ DOMAIN job = ReportJobFields /\ job.package = p
        /\ DOMAIN package = PackageFields /\ package.job = j
        /\ package.status \in Waiting <=> job.status \in Rep!Active
        /\ package.rows \in {repPackages[p].rows, Files}
        /\ package.rows # repPackages[p].rows => repStorage[p] = Files
    BY <1>1 DEF Moves
  <1>5. RepRows'
    BY <1>2, <1>3, <1>4 DEF RepInv, RepRows
  <1>6. RepLinks'
    <2>1. \A o \in DOMAIN repPackages' : /\ repPackages'[o].job \in DOMAIN repJobs'
                                         /\ repJobs'[repPackages'[o].job].package = o
      BY <1>1, <1>2, <1>3, <1>4 DEF RepInv, RepLinks
    <2>2. \A i \in DOMAIN repJobs' :
             /\ repJobs'[i].package \in DOMAIN repPackages'
             /\ repJobs'[i].status \in Rep!Active => repPackages'[repJobs'[i].package].job = i
      BY <1>1, <1>2, <1>3, <1>4 DEF RepInv, RepLinks
    <2>3. \A i \in DOMAIN repJobs' : repJobs'[i].status \in Rep!Active => i = j
      BY <1>3 DEF RepInv, RepLinks
    <2>4. QED
      BY <1>2, <2>1, <2>2, <2>3 DEF RepInv, RepLinks
  <1>7. Rep!RowsHaveFiles'
    BY <1>1, <1>2, <1>4 DEF RepInv, Rep!RowsHaveFiles
  <1>8. Rep!PackageFollowsJob'
    <2>1. ASSUME NEW o \in DOMAIN repPackages
          PROVE  repPackages'[o].status \in Waiting <=> repJobs'[repPackages'[o].job].status \in Rep!Active
      <3>1. CASE o = p
        BY <1>2, <1>3, <1>4, <3>1
      <3>2. CASE o # p
        <4>1. repPackages[o].job # j
          BY <1>1, <3>2 DEF RepInv, RepLinks
        <4>2. repPackages[o].job \in DOMAIN repJobs
          BY DEF RepInv, RepLinks
        <4>3. QED
          BY <4>1, <4>2, <1>2, <1>3, <3>2 DEF RepInv, Rep!PackageFollowsJob, Waiting
      <3>3. QED
        BY <3>1, <3>2
    <2>2. QED
      BY <2>1, <1>2 DEF Rep!PackageFollowsJob, Waiting
  <1>9. QED
    BY <1>1, <1>3, <1>4, <1>5, <1>6, <1>7, <1>8

LEMMA ClaimKeepsRepInv ==
    ASSUME RepInv, NEW w \in RepWorkers, Rep!Claim(w)
    PROVE  RepInv'
  <1>1. PICK j \in DOMAIN repJobs :
          /\ repJobs[j].status = "PENDING"
          /\ repJobs' = [repJobs EXCEPT ![j].status = "PROCESSING", ![j].attempts = @ + 1]
          /\ repPackages' = [repPackages EXCEPT ![repJobs[j].package].status = "GENERATING"]
          /\ repWorker' = [repWorker EXCEPT ![w] = [job |-> j, content |-> Null]]
          /\ UNCHANGED <<repStorage, repRequest>>
    BY DEF Rep!Claim
  <1>2. PICK p \in DOMAIN repPackages : p = repJobs[j].package /\ repPackages[p].job = j
    BY <1>1 DEF RepInv, RepLinks, Rep!Active
  <1>3. PICK old, was : /\ old = repJobs[j] /\ DOMAIN old = ReportJobFields
                        /\ was = repPackages[p] /\ DOMAIN was = PackageFields
    BY DEF RepInv, RepRows
  <1>4. PICK job, package : /\ job = [old EXCEPT !.status = "PROCESSING", !.attempts = @ + 1]
                            /\ package = [was EXCEPT !.status = "GENERATING"]
    OBVIOUS
  <1>5. /\ DOMAIN job = ReportJobFields /\ job.status = "PROCESSING" /\ job.package = old.package
        /\ DOMAIN package = PackageFields /\ package.status = "GENERATING"
        /\ package.job = was.job /\ package.rows = was.rows
    BY <1>3, <1>4 DEF ReportJobFields, PackageFields
  <1>6. Moves(j, job, package)
    BY <1>1, <1>2, <1>3, <1>4, <1>5 DEF Moves, Waiting, Rep!Active
  <1>7. /\ DOMAIN repWorker' = RepWorkers /\ repWorker'[w] = [job |-> j, content |-> Null]
        /\ \A v \in RepWorkers \ {w} : repWorker'[v] = repWorker[v]
    BY <1>1 DEF RepInv, RepRows
  <1>8. repJobs[j].status \in Rep!Active
    BY <1>1 DEF Rep!Active
  <1>9. /\ RepRows' /\ RepLinks' /\ Rep!RowsHaveFiles' /\ Rep!PackageFollowsJob'
        /\ DOMAIN repJobs' = DOMAIN repJobs /\ repJobs'[j] = job
        /\ \A i \in DOMAIN repJobs \ {j} : repJobs'[i] = repJobs[i]
    BY <1>1, <1>6, <1>7, <1>8, MovesKeepRows
  <1>10. RepHolders'
    <2>1. \A v \in RepWorkers : repWorker[v] # Rep!Free => repWorker[v].job # j
      BY <1>1 DEF RepInv, RepHolders
    <2>2. \A v \in RepWorkers : repWorker'[v] # Rep!Free =>
             /\ DOMAIN repWorker'[v] = {"job", "content"}
             /\ repWorker'[v].job \in DOMAIN repJobs' /\ repJobs'[repWorker'[v].job].status = "PROCESSING"
             /\ repWorker'[v].content # Null => repStorage'[repJobs'[repWorker'[v].job].package] = Files
      BY <1>1, <1>5, <1>7, <1>9, <2>1 DEF RepInv, RepHolders
    <2>3. QED
      BY <1>7, <2>1, <2>2 DEF RepInv, RepHolders, Rep!Free
  <1>11. QED
    BY <1>9, <1>10 DEF RepInv

LEMMA RenderKeepsRepInv ==
    ASSUME RepInv, NEW w \in RepWorkers, Rep!Render(w)
    PROVE  RepInv'
  <1>1. PICK j \in DOMAIN repJobs : j = repWorker[w].job /\ repJobs[j].status = "PROCESSING"
    BY DEF Rep!Render, Rep!Working, RepInv, RepHolders
  <1>2. PICK p \in DOMAIN repPackages : p = repJobs[j].package
    BY DEF RepInv, RepLinks
  <1>3. /\ repStorage' = [repStorage EXCEPT ![p] = Files] /\ repStorage[p] = {}
        /\ repWorker[w] # Rep!Free /\ UNCHANGED <<repPackages, repJobs, repRequest>>
    BY <1>1, <1>2 DEF Rep!Render, Rep!PackageOf, Rep!CanSave, Rep!Working
  <1>4. /\ repStorage'[p] = Files /\ DOMAIN repStorage' = DOMAIN repStorage
        /\ \A o \in DOMAIN repPackages \ {p} : repStorage'[o] = repStorage[o]
    BY <1>3 DEF RepInv, RepRows
  <1>5. PICK held : /\ repWorker' = [repWorker EXCEPT ![w] = held]
                    /\ DOMAIN held = {"job", "content"} /\ held.job = j
    <2>1. PICK old : old = repWorker[w] /\ DOMAIN old = {"job", "content"}
      BY <1>3 DEF RepInv, RepHolders
    <2>2. PICK held : held = [old EXCEPT !.content = Rep!ReportSnapshot]
      OBVIOUS
    <2>3. repWorker' = [repWorker EXCEPT ![w] = held]
      BY <2>1, <2>2 DEF Rep!Render
    <2>4. DOMAIN held = {"job", "content"} /\ held.job = old.job
      BY <2>1, <2>2
    <2>5. QED
      BY <1>1, <2>1, <2>3, <2>4
  <1>6. /\ DOMAIN repWorker' = RepWorkers /\ repWorker'[w] = held
        /\ \A v \in RepWorkers \ {w} : repWorker'[v] = repWorker[v]
    BY <1>5 DEF RepInv, RepRows
  <1>7. RepRows' /\ RepLinks' /\ Rep!PackageFollowsJob'
    BY <1>3, <1>4, <1>6 DEF RepInv, RepRows, RepLinks, Rep!PackageFollowsJob
  <1>8. Rep!RowsHaveFiles'
    BY <1>3, <1>4 DEF RepInv, Rep!RowsHaveFiles
  <1>9. RepHolders'
    <2>1. \A v \in RepWorkers : (v # w /\ repWorker[v] # Rep!Free) => repWorker[v].job # j
      BY <1>1, <1>3 DEF RepInv, RepHolders
    <2>2. \A v \in RepWorkers : (v # w /\ repWorker[v] # Rep!Free) =>
              (repStorage[repJobs[repWorker[v].job].package] = Files =>
                   repStorage'[repJobs[repWorker[v].job].package] = Files)
      BY <1>4 DEF RepInv, RepHolders, RepLinks
    <2>3. \A v \in RepWorkers : repWorker'[v] # Rep!Free =>
             /\ DOMAIN repWorker'[v] = {"job", "content"}
             /\ repWorker'[v].job \in DOMAIN repJobs' /\ repJobs'[repWorker'[v].job].status = "PROCESSING"
             /\ repWorker'[v].content # Null => repStorage'[repJobs'[repWorker'[v].job].package] = Files
      BY <1>1, <1>2, <1>3, <1>4, <1>5, <1>6, <2>2 DEF RepInv, RepHolders
    <2>4. QED
      BY <1>5, <1>6, <2>1, <2>3 DEF RepInv, RepHolders, Rep!Free
  <1>10. QED
    BY <1>7, <1>8, <1>9 DEF RepInv

LEMMA FreedKeepsHolders ==
    ASSUME RepInv, NEW w \in RepWorkers, repWorker[w] # Rep!Free,
           repWorker' = [repWorker EXCEPT ![w] = Rep!Free],
           DOMAIN repJobs' = DOMAIN repJobs,
           repJobs'[repWorker[w].job].package = repJobs[repWorker[w].job].package,
           \A i \in DOMAIN repJobs \ {repWorker[w].job} : repJobs'[i] = repJobs[i],
           \A p \in DOMAIN repPackages : repStorage'[p] = repStorage[p]
    PROVE  RepHolders'
  <1>1. /\ DOMAIN repWorker' = RepWorkers /\ repWorker'[w] = Rep!Free
        /\ \A v \in RepWorkers \ {w} : repWorker'[v] = repWorker[v]
    BY DEF RepInv, RepRows
  <1>2. \A v \in RepWorkers : (v # w /\ repWorker[v] # Rep!Free) =>
             repWorker[v].job # repWorker[w].job /\ repWorker[v].job \in DOMAIN repJobs
    BY DEF RepInv, RepHolders
  <1>3. \A v \in RepWorkers : (v # w /\ repWorker[v] # Rep!Free) =>
             repJobs[repWorker[v].job].package \in DOMAIN repPackages
    BY <1>2 DEF RepInv, RepLinks
  <1>4. \A v \in RepWorkers : repWorker'[v] # Rep!Free =>
             /\ DOMAIN repWorker'[v] = {"job", "content"}
             /\ repWorker'[v].job \in DOMAIN repJobs' /\ repJobs'[repWorker'[v].job].status = "PROCESSING"
             /\ repWorker'[v].content # Null => repStorage'[repJobs'[repWorker'[v].job].package] = Files
    BY <1>1, <1>2, <1>3 DEF RepInv, RepHolders
  <1>5. QED
    BY <1>1, <1>4 DEF RepInv, RepHolders, Rep!Free

LEMMA PublishKeepsRepInv ==
    ASSUME RepInv, NEW w \in RepWorkers, Rep!Publish(w)
    PROVE  RepInv'
  <1>1. PICK j \in DOMAIN repJobs : j = repWorker[w].job /\ repJobs[j].status = "PROCESSING"
    BY DEF Rep!Publish, RepInv, RepHolders
  <1>2. PICK p \in DOMAIN repPackages : p = repJobs[j].package /\ repPackages[p].job = j
    BY <1>1 DEF RepInv, RepLinks, Rep!Active
  <1>3. PICK old, was : /\ old = repJobs[j] /\ DOMAIN old = ReportJobFields
                        /\ was = repPackages[p] /\ DOMAIN was = PackageFields
    BY DEF RepInv, RepRows
  <1>4. PICK job, package :
          /\ job = [old EXCEPT !.status = "COMPLETED"]
          /\ package = [was EXCEPT !.status = "COMPLETED", !.rows = Files, !.content = repWorker[w].content]
    OBVIOUS
  <1>5. /\ DOMAIN job = ReportJobFields /\ job.status = "COMPLETED" /\ job.package = old.package
        /\ DOMAIN package = PackageFields /\ package.status = "COMPLETED"
        /\ package.job = was.job /\ package.rows = Files
    BY <1>3, <1>4 DEF ReportJobFields, PackageFields
  <1>6. /\ repJobs' = [repJobs EXCEPT ![j] = job] /\ repPackages' = [repPackages EXCEPT ![p] = package]
        /\ repWorker' = [repWorker EXCEPT ![w] = Rep!Free] /\ UNCHANGED <<repStorage, repRequest>>
        /\ repWorker[w] # Rep!Free /\ repStorage[p] = Files
    BY <1>1, <1>2, <1>3, <1>4 DEF Rep!Publish, Rep!PackageOf, RepInv, RepHolders
  <1>7. Moves(j, job, package)
    BY <1>2, <1>3, <1>5, <1>6 DEF Moves, Waiting, Rep!Active
  <1>8. DOMAIN repWorker' = RepWorkers /\ repJobs[j].status \in Rep!Active
    BY <1>1, <1>6 DEF RepInv, RepRows, Rep!Active
  <1>9. /\ RepRows' /\ RepLinks' /\ Rep!RowsHaveFiles' /\ Rep!PackageFollowsJob'
        /\ DOMAIN repJobs' = DOMAIN repJobs /\ repJobs'[j].package = repJobs[j].package
        /\ \A i \in DOMAIN repJobs \ {j} : repJobs'[i] = repJobs[i]
    BY <1>6, <1>7, <1>8, MovesKeepRows
  <1>10. QED
    BY <1>1, <1>6, <1>9, FreedKeepsHolders DEF RepInv

\* An attempt that fails leaves every file that was there before it.
LEMMA FailuresKeepRepInv ==
    ASSUME RepInv, NEW w \in RepWorkers, Rep!SaveFails(w) \/ Rep!PublishFails(w)
    PROVE  RepInv'
  <1>1. PICK j \in DOMAIN repJobs : j = repWorker[w].job /\ repJobs[j].status = "PROCESSING"
    BY DEF Rep!SaveFails, Rep!PublishFails, Rep!Working, RepInv, RepHolders
  <1>2. PICK p \in DOMAIN repPackages : p = repJobs[j].package /\ repPackages[p].job = j
    BY <1>1 DEF RepInv, RepLinks, Rep!Active
  <1>3. PICK old, was : /\ old = repJobs[j] /\ DOMAIN old = ReportJobFields
                        /\ was = repPackages[p] /\ DOMAIN was = PackageFields
    BY DEF RepInv, RepRows
  <1>4. /\ repWorker[w] # Rep!Free /\ Rep!FailJob(w)
    BY DEF Rep!SaveFails, Rep!PublishFails, Rep!Working
  <1>5. PICK status, reported, job, package :
          /\ \/ status = "PENDING" /\ reported = "GENERATING"
             \/ status = "FAILED" /\ reported = "FAILED"
          /\ job = [old EXCEPT !.status = status]
          /\ package = [was EXCEPT !.status = reported]
          /\ repJobs' = [repJobs EXCEPT ![j] = job] /\ repPackages' = [repPackages EXCEPT ![p] = package]
    <2> DEFINE again == repJobs[repWorker[w].job].attempts < RepAttempts
    <2>1. PICK status, reported : /\ status = (IF again THEN "PENDING" ELSE "FAILED")
                                  /\ reported = (IF again THEN "GENERATING" ELSE "FAILED")
      OBVIOUS
    <2>2. PICK job, package : /\ job = [old EXCEPT !.status = status]
                              /\ package = [was EXCEPT !.status = reported]
      OBVIOUS
    <2>3. repJobs' = [repJobs EXCEPT ![j] = job] /\ repPackages' = [repPackages EXCEPT ![p] = package]
      BY <1>1, <1>2, <1>3, <1>4, <2>1, <2>2 DEF Rep!FailJob, Rep!PackageOf
    <2> HIDE DEF again
    <2>4. QED
      BY <2>1, <2>2, <2>3
  <1>6. /\ DOMAIN job = ReportJobFields /\ job.status = status /\ job.package = old.package
        /\ DOMAIN package = PackageFields /\ package.status = reported
        /\ package.job = was.job /\ package.rows = was.rows
    BY <1>3, <1>5 DEF ReportJobFields, PackageFields
  <1>7. Moves(j, job, package)
    BY <1>2, <1>3, <1>5, <1>6 DEF Moves, Waiting, Rep!Active
  <1>8. DOMAIN repStorage' = DOMAIN repStorage /\ \A o \in DOMAIN repPackages : repStorage'[o] = repStorage[o]
    <2>1. CASE Rep!PublishFails(w)
      BY <2>1 DEF Rep!PublishFails
    <2>2. CASE Rep!SaveFails(w)
      <3>1. PICK stored : /\ repStorage' = [repStorage EXCEPT ![p] = (repStorage[p] \cup stored) \ stored]
                          /\ repStorage[p] # {} => stored = {}
        BY <1>1, <1>2, <2>2 DEF Rep!SaveFails, Rep!PackageOf, Rep!Kept, Rep!CanSave
      <3>2. (repStorage[p] \cup stored) \ stored = repStorage[p]
        BY <3>1
      <3>3. QED
        BY <3>1, <3>2
    <2>3. QED
      BY <2>1, <2>2
  <1>9. /\ repWorker' = [repWorker EXCEPT ![w] = Rep!Free] /\ UNCHANGED repRequest
        /\ DOMAIN repWorker' = RepWorkers /\ repJobs[j].status \in Rep!Active
    BY <1>1, <1>4 DEF Rep!FailJob, RepInv, RepRows, Rep!Active
  <1>10. /\ RepRows' /\ RepLinks' /\ Rep!RowsHaveFiles' /\ Rep!PackageFollowsJob'
         /\ DOMAIN repJobs' = DOMAIN repJobs /\ repJobs'[j].package = repJobs[j].package
         /\ \A i \in DOMAIN repJobs \ {j} : repJobs'[i] = repJobs[i]
    BY <1>7, <1>8, <1>9, MovesKeepRows
  <1>11. QED
    BY <1>1, <1>4, <1>8, <1>9, <1>10, FreedKeepsHolders DEF RepInv

LEMMA CrashKeepsRepInv ==
    ASSUME RepInv, NEW w \in RepWorkers, Rep!Crash(w)
    PROVE  RepInv'
  <1>1. /\ repWorker[w] # Rep!Free /\ repWorker' = [repWorker EXCEPT ![w] = Rep!Free]
        /\ UNCHANGED <<repPackages, repJobs, repStorage, repRequest>>
    BY DEF Rep!Crash
  <1>2. RepHolders'
    BY <1>1, FreedKeepsHolders
  <1>3. QED
    BY <1>1, <1>2 DEF RepInv, RepRows, RepLinks, Rep!RowsHaveFiles, Rep!PackageFollowsJob

LEMMA RepNextInv == RepInv /\ [Rep!Next]_(Rep!vars) => RepInv'
  <1> SUFFICES ASSUME RepInv, [Rep!Next]_(Rep!vars) PROVE RepInv'
    OBVIOUS
  <1>1. CASE UNCHANGED <<repPackages, repJobs, repStorage, repWorker, repRequest>>
    BY <1>1, ReadingKeepsRepInv DEF RepInv, RepRows, RepLinks
  <1>2. CASE \E c \in Clients : \/ \E force \in BOOLEAN : Rep!BeginCreate(c, force)
                                \/ \E p \in DOMAIN repPackages : Rep!BeginRetry(c, p)
                                \/ Rep!Refused(c)
    BY <1>2, RequestsKeepRepInv
  <1>3. CASE \E c \in Clients : Rep!CommitCreate(c) \/ Rep!CommitRetry(c)
    BY <1>3, CommitCreateKeepsRepInv, CommitRetryKeepsRepInv
  <1>4. CASE \E w \in RepWorkers : Rep!WorkerStep(w) \/ Rep!Crash(w)
    BY <1>4, ClaimKeepsRepInv, RenderKeepsRepInv, PublishKeepsRepInv, FailuresKeepRepInv,
       CrashKeepsRepInv DEF Rep!WorkerStep
  <1>5. (Rep!ReviewDecision \/ Rep!UpdateAction \/ UNCHANGED Rep!vars)
           => UNCHANGED <<repPackages, repJobs, repStorage, repWorker, repRequest>>
    BY DEF Rep!ReviewDecision, Rep!UpdateAction, Rep!vars
  <1>6. QED
    BY <1>1, <1>2, <1>3, <1>4, <1>5 DEF Rep!Next

LEMMA RepInvariant == Rep!Spec => []RepInv
  <1>1. Rep!Init => RepInv
    BY RepInitInv
  <1>2. RepInv /\ [Rep!Next]_(Rep!vars) => RepInv'
    BY RepNextInv
  <1>3. QED
    BY <1>1, <1>2, PTL DEF Rep!Spec

\* Every artifact row of a report has its file: no attempt that fails takes away what
\* another has published.
THEOREM ReportRowsHaveFiles == Rep!Spec => []RowsHaveFiles
  <1>1. RepInv => RowsHaveFiles
    BY DEF RepInv, RowsHaveFiles
  <1>2. QED
    BY <1>1, RepInvariant, PTL

\* A package waits or is under way exactly while it has an active job.
THEOREM ReportPackageFollowsJob == Rep!Spec => []PackageFollowsJob
  <1>1. RepInv => PackageFollowsJob
    BY DEF RepInv, PackageFollowsJob
  <1>2. QED
    BY <1>1, RepInvariant, PTL

-----------------------------------------------------------------------------
(* Folds. A sum or a flattening is the last of the values that it passes   *)
(* through, one for each element; that there are such values is shown by   *)
(* counting up, since the definitions of a fold are recursive functions.   *)

\* What holds of 0 and passes from a number to the next holds up to n.
LEMMA CountingUp ==
    ASSUME NEW n \in Nat, NEW P, 0 \in P, \A k \in 0 .. (n - 1) : k \in P => k + 1 \in P
    PROVE  \A k \in 0 .. n : k \in P
  <1> SUFFICES ASSUME NEW k \in 0 .. n, k \notin P
               PROVE  FALSE
    OBVIOUS
  <1> DEFINE Bad == {m \in Nat : m \in 0 .. n /\ m \notin P}
  <1>1. Bad \in SUBSET Nat /\ Bad # {}
    OBVIOUS
  <1>2. PICK m \in Bad : \A y \in Bad : m <= y
    <2> HIDE DEF Bad
    <2>1. QED
      BY <1>1, LeastOfNats
  <1>3. m # 0 /\ m - 1 \in 0 .. (n - 1) /\ m - 1 \notin Bad
    BY <1>2
  <1>4. m - 1 \in P
    BY <1>3
  <1>5. QED
    BY <1>2, <1>3, <1>4

\* Of the numbers up to n + 1 the last is n + 1.
LEMMA LastOfSome ==
    ASSUME NEW n \in Nat, NEW s \in SUBSET (1 .. (n + 1)), n + 1 \in s
    PROVE  Nor!Max(s) = n + 1 /\ s \ {n + 1} \in SUBSET (1 .. n)
  <1>1. \A y \in s : n + 1 >= y
    OBVIOUS
  <1>2. \A x \in s : (\A y \in s : x >= y) => x = n + 1
    OBVIOUS
  <1>3. Nor!Max(s) = n + 1
    BY <1>1, <1>2 DEF Nor!Max
  <1>4. s \ {n + 1} \in SUBSET (1 .. n)
    OBVIOUS
  <1>5. QED
    BY <1>3, <1>4

\* The recursive functions of the two folds, on the subsets of 1 .. n.
TakesOn(run, answer, n, g) ==
    g = [s \in SUBSET (1 .. n) |->
           IF s = {} THEN run ELSE Nor!Take(g[s \ {Nor!Max(s)}], answer[Nor!Max(s)])]
SumsOn(batches, n, g) ==
    g = [s \in SUBSET (1 .. n) |->
           IF s = {} THEN 0 ELSE g[s \ {Nor!Max(s)}] + batches[Nor!Max(s)].candidates]

LEMMA SomeMax ==
    ASSUME NEW n \in Nat, NEW s \in SUBSET (1 .. n), s # {}
    PROVE  s \ {Nor!Max(s)} \in SUBSET (1 .. n)
OBVIOUS

LEMMA TakesExist ==
    ASSUME NEW run, NEW answer, NEW n \in Nat
    PROVE  \E g : TakesOn(run, answer, n, g)
  <1> DEFINE P == {k \in 0 .. n : \E g : TakesOn(run, answer, k, g)}
  <1>1. 0 \in P
    <2>1. 1 .. 0 = {} /\ SUBSET (1 .. 0) = {{}}
      OBVIOUS
    <2>2. TakesOn(run, answer, 0, [s \in {{}} |-> run])
      BY <2>1 DEF TakesOn
    <2>3. QED
      BY <2>2
  <1>2. ASSUME NEW k \in 0 .. (n - 1), k \in P PROVE k + 1 \in P
    <2>1. PICK g : TakesOn(run, answer, k, g)
      BY <1>2
    <2>2. k \in Nat /\ k + 1 \in 0 .. n
      OBVIOUS
    <2> DEFINE h == [s \in SUBSET (1 .. (k + 1)) |->
                       IF k + 1 \in s THEN Nor!Take(g[s \ {k + 1}], answer[k + 1]) ELSE g[s]]
    <2>3. ASSUME NEW s \in SUBSET (1 .. (k + 1)), k + 1 \notin s
          PROVE  s \in SUBSET (1 .. k) /\ h[s] = g[s]
      BY <2>2, <2>3
    <2>4. ASSUME NEW s \in SUBSET (1 .. (k + 1)), s # {}
          PROVE  h[s] = Nor!Take(h[s \ {Nor!Max(s)}], answer[Nor!Max(s)])
      <3>1. CASE k + 1 \in s
        <4>1. Nor!Max(s) = k + 1 /\ s \ {k + 1} \in SUBSET (1 .. k)
          BY <2>2, <3>1, LastOfSome
        <4>2. s \ {k + 1} \in SUBSET (1 .. (k + 1)) /\ k + 1 \notin s \ {k + 1}
          OBVIOUS
        <4>3. h[s \ {k + 1}] = g[s \ {k + 1}]
          BY <4>2, <2>3
        <4>4. h[s] = Nor!Take(g[s \ {k + 1}], answer[k + 1])
          BY <3>1
        <4>5. QED
          BY ONLY <4>1, <4>3, <4>4
      <3>2. CASE k + 1 \notin s
        <4>1. s \in SUBSET (1 .. k) /\ h[s] = g[s]
          BY <2>3, <3>2
        <4>2. g[s] = Nor!Take(g[s \ {Nor!Max(s)}], answer[Nor!Max(s)])
          BY <2>1, <2>4, <4>1 DEF TakesOn
        <4>3. s \ {Nor!Max(s)} \in SUBSET (1 .. (k + 1)) /\ k + 1 \notin s \ {Nor!Max(s)}
          BY <3>2
        <4>4. h[s \ {Nor!Max(s)}] = g[s \ {Nor!Max(s)}]
          BY <2>3, <4>3
        <4>5. QED
          BY ONLY <4>1, <4>2, <4>4
      <3>3. QED
        BY <3>1, <3>2
    <2>5. h[{}] = run
      <3>1. {} \in SUBSET (1 .. (k + 1)) /\ k + 1 \notin {}
        OBVIOUS
      <3>2. h[{}] = g[{}] /\ {} \in SUBSET (1 .. k)
        BY <2>3, <3>1
      <3>3. QED
        BY <2>1, <3>2 DEF TakesOn
    <2>6. h = [s \in SUBSET (1 .. (k + 1)) |-> h[s]]
      OBVIOUS
    <2>7. TakesOn(run, answer, k + 1, h)
      <3> HIDE DEF h
      <3>1. \A s \in SUBSET (1 .. (k + 1)) :
               h[s] = IF s = {} THEN run ELSE Nor!Take(h[s \ {Nor!Max(s)}], answer[Nor!Max(s)])
        BY <2>4, <2>5
      <3>2. QED
        BY <2>6, <3>1 DEF TakesOn
    <2>8. QED
      BY <2>2, <2>7
  <1>3. n \in 0 .. n
    OBVIOUS
  <1> HIDE DEF P
  <1>4. n \in P
    BY <1>1, <1>2, <1>3, CountingUp
  <1>5. QED
    BY <1>4 DEF P

\* The run after an answer, and the runs that it passes through, one candidate at a time.
Taken(run, answer) == Nor!FoldLeft(Nor!Take, run, answer)

LEMMA TakenInTurn ==
    ASSUME NEW run, NEW answer, Len(answer) \in Nat, DOMAIN answer = 1 .. Len(answer)
    PROVE  \E t : /\ t[0] = run /\ t[Len(answer)] = Taken(run, answer)
                  /\ \A k \in 0 .. (Len(answer) - 1) : t[k + 1] = Nor!Take(t[k], answer[k + 1])
  <1> DEFINE n == Len(answer)
             g == CHOOSE h : h = [s \in SUBSET DOMAIN answer |->
                     IF s = {} THEN run ELSE Nor!Take(h[s \ {Nor!Max(s)}], answer[Nor!Max(s)])]
             t == [k \in 0 .. n |-> g[1 .. k]]
  <1>1. Taken(run, answer) = g[1 .. n]
    BY DEF Taken, Nor!FoldLeft, Nor!MapThenFoldSet
  <1>2. TakesOn(run, answer, n, g)
    <2>1. \E h : h = [s \in SUBSET DOMAIN answer |->
                        IF s = {} THEN run ELSE Nor!Take(h[s \ {Nor!Max(s)}], answer[Nor!Max(s)])]
      <3>1. PICK h : TakesOn(run, answer, Len(answer), h)
        BY TakesExist
      <3>2. h = [s \in SUBSET DOMAIN answer |->
                   IF s = {} THEN run ELSE Nor!Take(h[s \ {Nor!Max(s)}], answer[Nor!Max(s)])]
        BY <3>1 DEF TakesOn
      <3>3. QED
        BY <3>2
    <2>2. g = [s \in SUBSET DOMAIN answer |->
                 IF s = {} THEN run ELSE Nor!Take(g[s \ {Nor!Max(s)}], answer[Nor!Max(s)])]
      BY <2>1
    <2> HIDE DEF g
    <2>3. QED
      BY <2>2 DEF TakesOn
  <1> HIDE DEF g, n
  <1>3. n \in Nat
    BY DEF n
  <1>4. t[0] = run
    <2>1. 1 .. 0 = {} /\ {} \in SUBSET (1 .. n) /\ 0 \in 0 .. n
      BY <1>3
    <2>2. g[{}] = run
      BY <1>2, <2>1 DEF TakesOn
    <2>3. QED
      BY <2>1, <2>2
  <1>5. ASSUME NEW k \in 0 .. (n - 1) PROVE t[k + 1] = Nor!Take(t[k], answer[k + 1])
    <2>1. /\ k \in Nat /\ k \in 0 .. n /\ k + 1 \in 0 .. n /\ k + 1 \in 1 .. (k + 1)
          /\ 1 .. (k + 1) \in SUBSET (1 .. n) /\ 1 .. (k + 1) # {}
      <3>1. k \in Nat /\ k \in 0 .. n /\ k + 1 \in 0 .. n /\ k + 1 \in 1 .. (k + 1)
        BY <1>3
      <3>2. \A m \in 1 .. (k + 1) : m \in 1 .. n
        BY <1>3
      <3>3. QED
        BY <3>1, <3>2
    <2>2. Nor!Max(1 .. (k + 1)) = k + 1
      BY <2>1, LastOfSome
    <2>3. (1 .. (k + 1)) \ {k + 1} = 1 .. k
      BY <2>1
    <2>4. g[1 .. (k + 1)] = Nor!Take(g[(1 .. (k + 1)) \ {Nor!Max(1 .. (k + 1))}],
                                     answer[Nor!Max(1 .. (k + 1))])
      BY <1>2, <2>1 DEF TakesOn
    <2>5. g[1 .. (k + 1)] = Nor!Take(g[1 .. k], answer[k + 1])
      BY ONLY <2>2, <2>3, <2>4
    <2>6. t[k + 1] = g[1 .. (k + 1)] /\ t[k] = g[1 .. k]
      BY <2>1
    <2>7. QED
      BY ONLY <2>5, <2>6
  <1>6. t[n] = g[1 .. n]
    BY <1>3
  <1>7. QED
    BY <1>1, <1>4, <1>5, <1>6 DEF n

LEMMA SumsExist ==
    ASSUME NEW batches, NEW n \in Nat
    PROVE  \E g : SumsOn(batches, n, g)
  <1> DEFINE P == {k \in 0 .. n : \E g : SumsOn(batches, k, g)}
  <1>1. 0 \in P
    <2>1. 1 .. 0 = {} /\ SUBSET (1 .. 0) = {{}}
      OBVIOUS
    <2>2. SumsOn(batches, 0, [s \in {{}} |-> 0])
      BY <2>1 DEF SumsOn
    <2>3. QED
      BY <2>2
  <1>2. ASSUME NEW k \in 0 .. (n - 1), k \in P PROVE k + 1 \in P
    <2>1. PICK g : SumsOn(batches, k, g)
      BY <1>2
    <2>2. k \in Nat /\ k + 1 \in 0 .. n
      OBVIOUS
    <2> DEFINE h == [s \in SUBSET (1 .. (k + 1)) |->
                       IF k + 1 \in s THEN g[s \ {k + 1}] + batches[k + 1].candidates ELSE g[s]]
    <2>3. ASSUME NEW s \in SUBSET (1 .. (k + 1)), k + 1 \notin s
          PROVE  s \in SUBSET (1 .. k) /\ h[s] = g[s]
      BY <2>2, <2>3
    <2>4. ASSUME NEW s \in SUBSET (1 .. (k + 1)), s # {}
          PROVE  h[s] = h[s \ {Nor!Max(s)}] + batches[Nor!Max(s)].candidates
      <3>1. CASE k + 1 \in s
        <4>1. Nor!Max(s) = k + 1 /\ s \ {k + 1} \in SUBSET (1 .. k)
          BY <2>2, <3>1, LastOfSome
        <4>2. s \ {k + 1} \in SUBSET (1 .. (k + 1)) /\ k + 1 \notin s \ {k + 1}
          OBVIOUS
        <4>3. h[s \ {k + 1}] = g[s \ {k + 1}]
          BY <4>2, <2>3
        <4>4. h[s] = g[s \ {k + 1}] + batches[k + 1].candidates
          BY <3>1
        <4>5. QED
          BY ONLY <4>1, <4>3, <4>4
      <3>2. CASE k + 1 \notin s
        <4>1. s \in SUBSET (1 .. k) /\ h[s] = g[s]
          BY <2>3, <3>2
        <4>2. g[s] = g[s \ {Nor!Max(s)}] + batches[Nor!Max(s)].candidates
          BY <2>1, <2>4, <4>1 DEF SumsOn
        <4>3. s \ {Nor!Max(s)} \in SUBSET (1 .. (k + 1)) /\ k + 1 \notin s \ {Nor!Max(s)}
          BY <3>2
        <4>4. h[s \ {Nor!Max(s)}] = g[s \ {Nor!Max(s)}]
          BY <2>3, <4>3
        <4>5. QED
          BY ONLY <4>1, <4>2, <4>4
      <3>3. QED
        BY <3>1, <3>2
    <2>5. h[{}] = 0
      <3>1. {} \in SUBSET (1 .. (k + 1)) /\ k + 1 \notin {}
        OBVIOUS
      <3>2. h[{}] = g[{}] /\ {} \in SUBSET (1 .. k)
        BY <2>3, <3>1
      <3>3. QED
        BY <2>1, <3>2 DEF SumsOn
    <2>6. h = [s \in SUBSET (1 .. (k + 1)) |-> h[s]]
      OBVIOUS
    <2>7. SumsOn(batches, k + 1, h)
      <3> HIDE DEF h
      <3>1. \A s \in SUBSET (1 .. (k + 1)) :
               h[s] = IF s = {} THEN 0 ELSE h[s \ {Nor!Max(s)}] + batches[Nor!Max(s)].candidates
        BY <2>4, <2>5
      <3>2. QED
        BY <2>6, <3>1 DEF SumsOn
    <2>8. QED
      BY <2>2, <2>7
  <1>3. n \in 0 .. n
    OBVIOUS
  <1> HIDE DEF P
  <1>4. n \in P
    BY <1>1, <1>2, <1>3, CountingUp
  <1>5. QED
    BY <1>4 DEF P

\* The sums of the candidates of the first batches.
CandidatesOf(batches) == Nor!FoldLeft(LAMBDA n, b : n + b.candidates, 0, batches)

LEMMA SummedInTurn ==
    ASSUME NEW batches, NEW n \in Nat, DOMAIN batches = 1 .. n
    PROVE  \E t : /\ t[0] = 0 /\ t[n] = CandidatesOf(batches)
                  /\ \A k \in 0 .. (n - 1) : t[k + 1] = t[k] + batches[k + 1].candidates
  <1> DEFINE g == CHOOSE h : h = [s \in SUBSET DOMAIN batches |->
                     IF s = {} THEN 0 ELSE h[s \ {Nor!Max(s)}] + batches[Nor!Max(s)].candidates]
             t == [k \in 0 .. n |-> g[1 .. k]]
  <1>1. CandidatesOf(batches) = g[1 .. n]
    BY DEF CandidatesOf, Nor!FoldLeft, Nor!MapThenFoldSet
  <1>2. SumsOn(batches, n, g)
    <2>1. \E h : h = [s \in SUBSET DOMAIN batches |->
                        IF s = {} THEN 0 ELSE h[s \ {Nor!Max(s)}] + batches[Nor!Max(s)].candidates]
      <3>1. PICK h : SumsOn(batches, n, h)
        BY SumsExist
      <3>2. h = [s \in SUBSET DOMAIN batches |->
                   IF s = {} THEN 0 ELSE h[s \ {Nor!Max(s)}] + batches[Nor!Max(s)].candidates]
        BY <3>1 DEF SumsOn
      <3>3. QED
        BY <3>2
    <2>2. g = [s \in SUBSET DOMAIN batches |->
                 IF s = {} THEN 0 ELSE g[s \ {Nor!Max(s)}] + batches[Nor!Max(s)].candidates]
      BY <2>1
    <2> HIDE DEF g
    <2>3. QED
      BY <2>2 DEF SumsOn
  <1> HIDE DEF g
  <1>3. n \in Nat
    OBVIOUS
  <1>4. t[0] = 0
    <2>1. 1 .. 0 = {} /\ {} \in SUBSET (1 .. n) /\ 0 \in 0 .. n
      BY <1>3
    <2>2. g[{}] = 0
      BY <1>2, <2>1 DEF SumsOn
    <2>3. QED
      BY <2>1, <2>2
  <1>5. ASSUME NEW k \in 0 .. (n - 1) PROVE t[k + 1] = t[k] + batches[k + 1].candidates
    <2>1. /\ k \in Nat /\ k \in 0 .. n /\ k + 1 \in 0 .. n /\ k + 1 \in 1 .. (k + 1)
          /\ 1 .. (k + 1) \in SUBSET (1 .. n) /\ 1 .. (k + 1) # {}
      <3>1. k \in Nat /\ k \in 0 .. n /\ k + 1 \in 0 .. n /\ k + 1 \in 1 .. (k + 1)
        BY <1>3
      <3>2. \A m \in 1 .. (k + 1) : m \in 1 .. n
        BY <1>3
      <3>3. QED
        BY <3>1, <3>2
    <2>2. Nor!Max(1 .. (k + 1)) = k + 1
      BY <2>1, LastOfSome
    <2>3. (1 .. (k + 1)) \ {k + 1} = 1 .. k
      BY <2>1
    <2>4. g[1 .. (k + 1)] = g[(1 .. (k + 1)) \ {Nor!Max(1 .. (k + 1))}]
                                + batches[Nor!Max(1 .. (k + 1))].candidates
      BY <1>2, <2>1 DEF SumsOn
    <2>5. g[1 .. (k + 1)] = g[1 .. k] + batches[k + 1].candidates
      BY ONLY <2>2, <2>3, <2>4
    <2>6. t[k + 1] = g[1 .. (k + 1)] /\ t[k] = g[1 .. k]
      BY <2>1
    <2>7. QED
      BY ONLY <2>5, <2>6
  <1>6. t[n] = g[1 .. n]
    BY <1>3
  <1>7. QED
    BY <1>1, <1>4, <1>5, <1>6

\* A sequence of sequences, flattened, is one.
FlattensOn(seqs, n, g) == g = [i \in 1 .. n |-> IF i = 1 THEN seqs[i] ELSE g[i - 1] \o seqs[i]]

LEMMA FlattensExist ==
    ASSUME NEW seqs, NEW n \in Nat
    PROVE  \E g : FlattensOn(seqs, n, g)
  <1> DEFINE P == {k \in 0 .. n : \E g : FlattensOn(seqs, k, g)}
  <1>1. 0 \in P
    <2>1. FlattensOn(seqs, 0, [i \in 1 .. 0 |-> seqs[i]])
      BY DEF FlattensOn
    <2>2. QED
      BY <2>1
  <1>2. ASSUME NEW k \in 0 .. (n - 1), k \in P PROVE k + 1 \in P
    <2>1. PICK g : FlattensOn(seqs, k, g)
      BY <1>2
    <2>2. k \in Nat /\ k + 1 \in 0 .. n
      OBVIOUS
    <2> DEFINE h == [i \in 1 .. (k + 1) |->
                       IF i = k + 1 THEN (IF i = 1 THEN seqs[i] ELSE g[i - 1] \o seqs[i]) ELSE g[i]]
    <2>3. ASSUME NEW i \in 1 .. (k + 1)
          PROVE  h[i] = IF i = 1 THEN seqs[i] ELSE h[i - 1] \o seqs[i]
      <3>1. i # 1 => i - 1 \in 1 .. (k + 1) /\ i - 1 # k + 1 /\ i - 1 \in 1 .. k
        BY <2>2
      <3>2. i # 1 => h[i - 1] = g[i - 1]
        BY <3>1
      <3>3. CASE i = k + 1
        BY <3>2, <3>3
      <3>4. CASE i # k + 1
        <4>1. i \in 1 .. k /\ h[i] = g[i]
          BY <2>2, <3>4
        <4>2. g[i] = IF i = 1 THEN seqs[i] ELSE g[i - 1] \o seqs[i]
          BY <2>1, <4>1 DEF FlattensOn
        <4>3. QED
          BY ONLY <3>2, <4>1, <4>2
      <3>5. QED
        BY <3>3, <3>4
    <2>4. h = [i \in 1 .. (k + 1) |-> h[i]]
      OBVIOUS
    <2>5. FlattensOn(seqs, k + 1, h)
      <3> HIDE DEF h
      <3>1. QED
        BY <2>3, <2>4 DEF FlattensOn
    <2>6. QED
      BY <2>2, <2>5
  <1>3. n \in 0 .. n
    OBVIOUS
  <1> HIDE DEF P
  <1>4. n \in P
    BY <1>1, <1>2, <1>3, CountingUp
  <1>5. QED
    BY <1>4 DEF P

LEMMA Flattened ==
    ASSUME NEW seqs, Len(seqs) \in Nat, DOMAIN seqs = 1 .. Len(seqs), IsSequence(seqs),
           \A i \in DOMAIN seqs : IsSequence(seqs[i])
    PROVE  IsSequence(Nor!FlattenSeq(seqs))
  <1>1. CASE Len(seqs) = 0
    BY <1>1 DEF Nor!FlattenSeq
  <1>2. CASE Len(seqs) # 0
    <2> DEFINE g == CHOOSE h : h = [i \in 1 .. Len(seqs) |->
                                      IF i = 1 THEN seqs[i] ELSE h[i - 1] \o seqs[i]]
    <2>1. Nor!FlattenSeq(seqs) = g[Len(seqs)]
      BY <1>2 DEF Nor!FlattenSeq
    <2>2. \E h : h = [i \in 1 .. Len(seqs) |-> IF i = 1 THEN seqs[i] ELSE h[i - 1] \o seqs[i]]
      BY FlattensExist DEF FlattensOn
    <2>3. g = [i \in 1 .. Len(seqs) |-> IF i = 1 THEN seqs[i] ELSE g[i - 1] \o seqs[i]]
      BY <2>2
    <2> HIDE DEF g
    <2> DEFINE P == {k \in 0 .. Len(seqs) : k # 0 => IsSequence(g[k])}
    <2>4. 0 \in P
      OBVIOUS
    <2>5. ASSUME NEW k \in 0 .. (Len(seqs) - 1), k \in P PROVE k + 1 \in P
      <3>1. k + 1 \in 1 .. Len(seqs) /\ k + 1 \in 0 .. Len(seqs) /\ (k + 1) - 1 = k /\ k \in Nat
        OBVIOUS
      <3>2. g[k + 1] = IF k + 1 = 1 THEN seqs[k + 1] ELSE g[(k + 1) - 1] \o seqs[k + 1]
        BY <2>3, <3>1
      <3>3. CASE k = 0
        BY <3>1, <3>2, <3>3
      <3>4. CASE k # 0
        <4>1. k + 1 # 1
          BY <3>1, <3>4
        <4>2. g[(k + 1) - 1] = g[k]
          BY <3>1
        <4>3. g[k + 1] = g[k] \o seqs[k + 1]
          BY ONLY <3>2, <4>1, <4>2
        <4>4. IsSequence(g[k]) /\ IsSequence(seqs[k + 1])
          BY <2>5, <3>1, <3>4
        <4>5. IsSequence(g[k + 1])
          BY ONLY <4>3, <4>4, Concatenated
        <4>6. QED
          BY ONLY <3>1, <4>5
      <3>5. QED
        BY <3>3, <3>4
    <2>6. Len(seqs) \in 0 .. Len(seqs)
      OBVIOUS
    <2> HIDE DEF P
    <2>7. Len(seqs) \in P
      BY <2>4, <2>5, <2>6, CountingUp
    <2>8. QED
      BY <1>2, <2>1, <2>7 DEF P
  <1>3. QED
    BY <1>1, <1>2

LEMMA LengthOfSequence ==
    ASSUME NEW s, IsSequence(s), NEW n \in Nat, DOMAIN s = 1 .. n
    PROVE  Len(s) = n
  <1>1. PICK S : s \in Seq(S)
    BY DEF IsSequence
  <1>2. Len(s) \in Nat /\ DOMAIN s = 1 .. Len(s)
    BY <1>1, LenProperties
  <1>3. \A m \in Nat : m \in DOMAIN s <=> m \in 1 .. n
    OBVIOUS
  <1>4. QED
    BY <1>2, <1>3

\* Batches that nobody has answered have no candidates, and an answer adds its own.
BatchesOK(batches) ==
    /\ \E n \in Nat : DOMAIN batches = 1 .. n
    /\ \A b \in DOMAIN batches :
          /\ DOMAIN batches[b] = {"status", "candidates", "segments"}
          /\ batches[b].candidates \in Nat
          /\ batches[b].status # "COMPLETED" => batches[b].candidates = 0

LEMMA SumsOfNone ==
    ASSUME NEW batches, NEW n \in Nat, DOMAIN batches = 1 .. n,
           \A b \in DOMAIN batches : batches[b].candidates = 0
    PROVE  CandidatesOf(batches) = 0
  <1>1. PICK t : /\ t[0] = 0 /\ t[n] = CandidatesOf(batches)
                 /\ \A k \in 0 .. (n - 1) : t[k + 1] = t[k] + batches[k + 1].candidates
    BY SummedInTurn
  <1> DEFINE P == {k \in 0 .. n : t[k] = 0}
  <1>2. 0 \in P
    BY <1>1
  <1>3. ASSUME NEW k \in 0 .. (n - 1), k \in P PROVE k + 1 \in P
    <2>1. k + 1 \in 0 .. n /\ k + 1 \in DOMAIN batches
      OBVIOUS
    <2>2. t[k + 1] = t[k] + batches[k + 1].candidates
      BY <1>1
    <2>3. t[k] = 0 /\ batches[k + 1].candidates = 0
      BY <1>3, <2>1
    <2>4. t[k + 1] = 0
      BY ONLY <2>2, <2>3
    <2>5. QED
      BY <2>1, <2>4
  <1>4. n \in 0 .. n
    OBVIOUS
  <1> HIDE DEF P
  <1>5. n \in P
    BY <1>2, <1>3, <1>4, CountingUp
  <1>6. QED
    BY <1>1, <1>5 DEF P

\* One of n batches that had no candidates gets some.
GrowsBy(old, new, n, b, count) ==
    /\ n \in Nat /\ count \in Nat /\ b \in 1 .. n
    /\ DOMAIN old = 1 .. n /\ DOMAIN new = 1 .. n
    /\ \A i \in 1 .. n : old[i].candidates \in Nat
    /\ old[b].candidates = 0 /\ new[b].candidates = count
    /\ \A i \in (1 .. n) \ {b} : new[i].candidates = old[i].candidates

LEMMA SumsGrow ==
    ASSUME NEW old, NEW new, NEW n, NEW b, NEW count, GrowsBy(old, new, n, b, count)
    PROVE  /\ CandidatesOf(old) \in Nat
           /\ CandidatesOf(new) = CandidatesOf(old) + count
  <1> USE DEF GrowsBy
  <1>0. count \in Nat
    OBVIOUS
  <1>1. PICK t : /\ t[0] = 0 /\ t[n] = CandidatesOf(old)
                 /\ \A k \in 0 .. (n - 1) : t[k + 1] = t[k] + old[k + 1].candidates
    BY SummedInTurn
  <1>2. PICK u : /\ u[0] = 0 /\ u[n] = CandidatesOf(new)
                 /\ \A k \in 0 .. (n - 1) : u[k + 1] = u[k] + new[k + 1].candidates
    BY SummedInTurn
  <1> DEFINE P == {k \in 0 .. n : t[k] \in Nat /\ u[k] = t[k] + (IF b <= k THEN count ELSE 0)}
  <1>3. 0 \in P
    BY <1>1, <1>2
  <1>4. ASSUME NEW k \in 0 .. (n - 1), k \in P PROVE k + 1 \in P
    <2>1. k \in Nat /\ k + 1 \in 0 .. n /\ k + 1 \in 1 .. n /\ b \in Nat
      OBVIOUS
    <2>2. PICK x, y : x = old[k + 1].candidates /\ y = new[k + 1].candidates
      OBVIOUS
    <2>3. t[k + 1] = t[k] + x /\ u[k + 1] = u[k] + y
      BY <1>1, <1>2, <2>2
    <2>4. t[k] \in Nat /\ u[k] = t[k] + (IF b <= k THEN count ELSE 0)
      BY <1>4
    <2>5. x \in Nat
      BY <2>1, <2>2
    <2>6. IF k + 1 = b THEN x = 0 /\ y = count ELSE y = x
      BY <2>1, <2>2
    <2>7. t[k + 1] \in Nat
      BY ONLY <2>3, <2>4, <2>5
    <2>8. u[k + 1] = t[k + 1] + (IF b <= k + 1 THEN count ELSE 0)
      <3>1. CASE k + 1 = b
        BY ONLY <1>0, <2>1, <2>3, <2>4, <2>6, <3>1
      <3>2. CASE k + 1 # b
        <4>1. (b <= k + 1) <=> (b <= k)
          BY <2>1, <3>2
        <4>2. y = x
          BY <2>6, <3>2
        <4>3. QED
          BY ONLY <1>0, <2>3, <2>4, <2>5, <4>1, <4>2
      <3>3. QED
        BY <3>1, <3>2
    <2>9. QED
      BY <2>1, <2>7, <2>8
  <1>5. n \in 0 .. n /\ b <= n
    OBVIOUS
  <1> HIDE DEF P
  <1>6. n \in P
    BY <1>3, <1>4, <1>5, CountingUp
  <1>7. t[n] \in Nat /\ u[n] = t[n] + (IF b <= n THEN count ELSE 0)
    BY <1>6 DEF P
  <1>8. QED
    BY <1>1, <1>2, <1>5, <1>7

-----------------------------------------------------------------------------
(* Every candidate of a batch ends up in the counters of its run.          *)

NorRunFields == {"status", "job", "manifest", "batches", "requirements", "discarded", "relations",
                 "candidates", "accepted", "rejected", "warnings"}

Counted(run) ==
    /\ DOMAIN run = NorRunFields
    /\ IsSequence(run.requirements) /\ IsSequence(run.discarded)
    /\ run.accepted = Len(run.requirements) /\ run.rejected = Len(run.discarded)

\* What run has become with the first k candidates of an answer.
TakenFrom(next, run, k) ==
    /\ Counted(next)
    /\ next.accepted + next.rejected = run.accepted + run.rejected + k
    /\ \A f \in {"status", "job", "batches", "candidates"} : next[f] = run[f]

LEMMA TakeCounts ==
    ASSUME NEW run, NEW next, NEW k \in Nat, Counted(run), TakenFrom(next, run, k), NEW candidate
    PROVE  TakenFrom(Nor!Take(next, candidate), run, k + 1)
  <1>1. PICK reason : reason = Nor!Reason(next, candidate)
    OBVIOUS
  <1>2. PICK kept, rejection : /\ kept = Nor!Persisted(next, candidate)
                               /\ rejection = Nor!Rejection(candidate, reason)
    OBVIOUS
  <1>3. /\ DOMAIN next = NorRunFields
        /\ IsSequence(next.requirements) /\ IsSequence(next.discarded)
        /\ next.accepted = Len(next.requirements) /\ next.rejected = Len(next.discarded)
    BY DEF TakenFrom, Counted
  <1>4. /\ run.accepted \in Nat /\ run.rejected \in Nat
        /\ next.accepted \in Nat /\ next.rejected \in Nat
    BY <1>3, Appended DEF Counted
  <1>5. CASE reason = Null
    <2>1. PICK requirements : requirements = Append(next.requirements, kept)
      OBVIOUS
    <2>2. IsSequence(requirements) /\ Len(requirements) = next.accepted + 1
      <3>1. IsSequence(Append(next.requirements, kept))
            /\ DOMAIN Append(next.requirements, kept) = 1 .. (Len(next.requirements) + 1)
        BY <1>3, Appended
      <3>2. QED
        BY <1>3, <1>4, <2>1, <3>1, LengthOfSequence
    <2>3. PICK after : after = [next EXCEPT !.requirements = requirements, !.accepted = @ + 1]
      OBVIOUS
    <2>4. Nor!Take(next, candidate) = after
      BY <1>1, <1>2, <1>5, <2>1, <2>3 DEF Nor!Take
    <2>5. /\ DOMAIN after = NorRunFields
          /\ after.requirements = requirements /\ after.accepted = next.accepted + 1
          /\ \A f \in NorRunFields \ {"requirements", "accepted"} : after[f] = next[f]
      BY <1>3, <2>3 DEF NorRunFields
    <2>6. Counted(after)
      BY <1>3, <2>2, <2>5 DEF Counted, NorRunFields
    <2>7. after.accepted + after.rejected = run.accepted + run.rejected + (k + 1)
      <3>1. next.accepted + next.rejected = run.accepted + run.rejected + k
        BY DEF TakenFrom
      <3>2. after.rejected = next.rejected /\ after.accepted = next.accepted + 1
        BY <2>5 DEF NorRunFields
      <3>3. QED
        BY ONLY <1>4, <3>1, <3>2, k \in Nat
    <2>8. \A f \in {"status", "job", "batches", "candidates"} : after[f] = run[f]
      BY <2>5 DEF TakenFrom, NorRunFields
    <2>9. QED
      BY <2>4, <2>6, <2>7, <2>8 DEF TakenFrom
  <1>6. CASE reason # Null
    <2>1. PICK discarded : discarded = Append(next.discarded, rejection)
      OBVIOUS
    <2>2. IsSequence(discarded) /\ Len(discarded) = next.rejected + 1
      <3>1. IsSequence(Append(next.discarded, rejection))
            /\ DOMAIN Append(next.discarded, rejection) = 1 .. (Len(next.discarded) + 1)
        BY <1>3, Appended
      <3>2. QED
        BY <1>3, <1>4, <2>1, <3>1, LengthOfSequence
    <2>3. PICK after : after = [next EXCEPT !.discarded = discarded, !.rejected = @ + 1]
      OBVIOUS
    <2>4. Nor!Take(next, candidate) = after
      BY <1>1, <1>2, <1>6, <2>1, <2>3 DEF Nor!Take
    <2>5. /\ DOMAIN after = NorRunFields
          /\ after.discarded = discarded /\ after.rejected = next.rejected + 1
          /\ \A f \in NorRunFields \ {"discarded", "rejected"} : after[f] = next[f]
      BY <1>3, <2>3 DEF NorRunFields
    <2>6. Counted(after)
      BY <1>3, <2>2, <2>5 DEF Counted, NorRunFields
    <2>7. after.accepted + after.rejected = run.accepted + run.rejected + (k + 1)
      <3>1. next.accepted + next.rejected = run.accepted + run.rejected + k
        BY DEF TakenFrom
      <3>2. after.accepted = next.accepted /\ after.rejected = next.rejected + 1
        BY <2>5 DEF NorRunFields
      <3>3. QED
        BY ONLY <1>4, <3>1, <3>2, k \in Nat
    <2>8. \A f \in {"status", "job", "batches", "candidates"} : after[f] = run[f]
      BY <2>5 DEF TakenFrom, NorRunFields
    <2>9. QED
      BY <2>4, <2>6, <2>7, <2>8 DEF TakenFrom
  <1>7. QED
    BY <1>5, <1>6

LEMMA AnswerCounts ==
    ASSUME NEW run, Counted(run), NEW answer, Len(answer) \in Nat, DOMAIN answer = 1 .. Len(answer)
    PROVE  TakenFrom(Taken(run, answer), run, Len(answer))
  <1>1. PICK t : /\ t[0] = run /\ t[Len(answer)] = Taken(run, answer)
                 /\ \A k \in 0 .. (Len(answer) - 1) : t[k + 1] = Nor!Take(t[k], answer[k + 1])
    BY TakenInTurn
  <1> DEFINE P == {k \in 0 .. Len(answer) : TakenFrom(t[k], run, k)}
  <1>2. 0 \in P
    <2>1. run.accepted \in Nat /\ run.rejected \in Nat
      BY Appended DEF Counted
    <2>2. TakenFrom(run, run, 0)
      BY <2>1 DEF TakenFrom
    <2>3. QED
      BY <1>1, <2>2
  <1>3. ASSUME NEW k \in 0 .. (Len(answer) - 1), k \in P PROVE k + 1 \in P
    <2>1. k \in Nat /\ k + 1 \in 0 .. Len(answer)
      OBVIOUS
    <2>2. TakenFrom(t[k], run, k)
      BY <1>3
    <2>3. TakenFrom(Nor!Take(t[k], answer[k + 1]), run, k + 1)
      BY <2>1, <2>2, TakeCounts
    <2>4. t[k + 1] = Nor!Take(t[k], answer[k + 1])
      BY <1>1
    <2>5. TakenFrom(t[k + 1], run, k + 1)
      BY ONLY <2>3, <2>4
    <2>6. QED
      BY <2>1, <2>5
  <1>4. Len(answer) \in 0 .. Len(answer)
    OBVIOUS
  <1> HIDE DEF P
  <1>5. Len(answer) \in P
    BY <1>2, <1>3, <1>4, CountingUp
  <1>6. TakenFrom(t[Len(answer)], run, Len(answer))
    BY <1>5 DEF P
  <1>7. QED
    BY ONLY <1>1, <1>6

NorRunOK(run) ==
    /\ Counted(run)
    /\ run.status \in Nor!Status
    /\ BatchesOK(run.batches)
    /\ run.candidates = CandidatesOf(run.batches)
    /\ run.candidates = run.accepted + run.rejected

\* The transaction of a batch: its candidates enter the counters of the run together.
LEMMA BatchCounts ==
    ASSUME NEW run, NorRunOK(run), NEW b \in DOMAIN run.batches, run.batches[b].status # "COMPLETED",
           NEW answer, Len(answer) \in Nat, DOMAIN answer = 1 .. Len(answer)
    PROVE  NorRunOK(Nor!TakeAll(run, b, answer)) /\ Nor!TakeAll(run, b, answer).job = run.job
  <1>1. PICK taken : taken = Taken(run, answer)
    OBVIOUS
  <1>2. TakenFrom(taken, run, Len(answer))
    BY <1>1, AnswerCounts DEF NorRunOK
  <1>3. DOMAIN taken = NorRunFields
    BY <1>2 DEF TakenFrom, Counted
  <1>4. PICK batches : batches = [run.batches EXCEPT ![b].status = "COMPLETED",
                                                     ![b].candidates = Len(answer)]
    OBVIOUS
  <1>5. PICK after : after = [taken EXCEPT !.batches = batches, !.candidates = @ + Len(answer)]
    OBVIOUS
  <1>6. taken.batches = run.batches
    BY <1>2 DEF TakenFrom
  <1>7. Nor!TakeAll(run, b, answer) = after
    <2>1. Nor!TakeAll(run, b, answer) =
            [taken EXCEPT !.batches[b].status = "COMPLETED", !.batches[b].candidates = Len(answer),
                          !.candidates = @ + Len(answer)]
      BY <1>1 DEF Nor!TakeAll, Taken
    <2>2. QED
      BY <1>3, <1>4, <1>5, <1>6, <2>1 DEF NorRunFields
  <1>8. /\ DOMAIN after = NorRunFields /\ after.batches = batches
        /\ after.candidates = run.candidates + Len(answer)
        /\ \A f \in NorRunFields \ {"batches", "candidates"} : after[f] = taken[f]
    BY <1>2, <1>3, <1>5 DEF NorRunFields, TakenFrom
  <1>9. PICK n \in Nat : DOMAIN run.batches = 1 .. n
    BY DEF NorRunOK, BatchesOK
  <1>10. \A i \in 1 .. n : /\ DOMAIN run.batches[i] = {"status", "candidates", "segments"}
                           /\ run.batches[i].candidates \in Nat
                           /\ run.batches[i].status # "COMPLETED" => run.batches[i].candidates = 0
    BY <1>9 DEF NorRunOK, BatchesOK
  <1>11. /\ DOMAIN batches = 1 .. n /\ DOMAIN batches[b] = {"status", "candidates", "segments"}
         /\ batches[b].status = "COMPLETED" /\ batches[b].candidates = Len(answer)
         /\ \A i \in (1 .. n) \ {b} : batches[i] = run.batches[i]
    BY <1>4, <1>9, <1>10
  <1>12. BatchesOK(batches)
    <2>1. b \in 1 .. n
      BY <1>9
    <2>2. ASSUME NEW i \in 1 .. n
          PROVE  /\ DOMAIN batches[i] = {"status", "candidates", "segments"}
                 /\ batches[i].candidates \in Nat
                 /\ batches[i].status # "COMPLETED" => batches[i].candidates = 0
      <3>1. CASE i = b
        BY <1>11, <3>1
      <3>2. CASE i # b
        BY <1>10, <1>11, <3>2
      <3>3. QED
        BY <3>1, <3>2
    <2>3. QED
      BY ONLY <1>11, <2>2, n \in Nat DEF BatchesOK
  <1>13. /\ CandidatesOf(run.batches) \in Nat
         /\ CandidatesOf(batches) = CandidatesOf(run.batches) + Len(answer)
    <2>1. run.batches[b].candidates = 0
      BY <1>9, <1>10
    <2>2. b \in 1 .. n /\ \A i \in (1 .. n) \ {b} : batches[i].candidates = run.batches[i].candidates
      BY <1>9, <1>11
    <2>3. \A i \in 1 .. n : run.batches[i].candidates \in Nat
      BY <1>10
    <2>4. PICK old, count : old = run.batches /\ count = Len(answer)
      OBVIOUS
    <2>5. GrowsBy(old, batches, n, b, count)
      BY <1>9, <1>11, <2>1, <2>2, <2>3, <2>4 DEF GrowsBy
    <2>6. CandidatesOf(old) \in Nat /\ CandidatesOf(batches) = CandidatesOf(old) + count
      BY ONLY <2>5, SumsGrow
    <2>7. QED
      BY ONLY <2>4, <2>6
  <1>14. Counted(after)
    BY <1>2, <1>8 DEF TakenFrom, Counted, NorRunFields
  <1>15. after.candidates = after.accepted + after.rejected
    <2>1. /\ after.accepted = taken.accepted /\ after.rejected = taken.rejected
      BY <1>8 DEF NorRunFields
    <2>2. taken.accepted + taken.rejected = run.accepted + run.rejected + Len(answer)
      BY <1>2 DEF TakenFrom
    <2>3. run.candidates = run.accepted + run.rejected
      BY DEF NorRunOK
    <2>4. QED
      BY ONLY <1>8, <2>1, <2>2, <2>3
  <1>16. after.status = run.status /\ after.job = run.job
    BY <1>2, <1>8 DEF TakenFrom, NorRunFields
  <1>17. after.candidates = CandidatesOf(after.batches)
    <2>1. run.candidates = CandidatesOf(run.batches)
      BY DEF NorRunOK
    <2>2. QED
      BY ONLY <1>8, <1>13, <2>1
  <1>18. QED
    BY <1>7, <1>8, <1>12, <1>14, <1>15, <1>16, <1>17 DEF NorRunOK

-----------------------------------------------------------------------------
(* RequirementNormalization.                                               *)

NorJobFields == {"status", "run", "attempts"}
NorJobOK(job) ==
    /\ DOMAIN job = NorJobFields
    /\ job.status \in Nor!Status /\ job.attempts \in Nat /\ job.attempts <= NorAttempts
    /\ job.status = "PENDING" => job.attempts < NorAttempts

NorRows ==
    /\ norExtracted \in [DOMAIN Documents -> DOMAIN Extractions \cup {Null}]
    /\ IsSequence(norRuns) /\ IsSequence(norJobs)
    /\ \A x \in DOMAIN norRuns : NorRunOK(norRuns[x]) /\ norRuns[x].job \in DOMAIN norJobs
    /\ \A j \in DOMAIN norJobs : NorJobOK(norJobs[j]) /\ norJobs[j].run \in DOMAIN norRuns

NorHolders ==
    /\ DOMAIN norRequest = Clients /\ DOMAIN norWorker = NorWorkers
    /\ \A c \in Clients :
          /\ norRequest[c].op = "create" => IsSequence(norRequest[c].snapshot.segments)
          /\ norRequest[c].op = "retry" => norRequest[c].run \in DOMAIN norRuns
    /\ \A w \in NorWorkers :
          /\ DOMAIN norWorker[w] = {"job", "calls", "related"}
          /\ norWorker[w] # Nor!Free => norWorker[w].job \in DOMAIN norJobs

NorInv == NorRows /\ NorHolders

LEMMA NorInitInv == Nor!Init => NorInv
  <1> SUFFICES ASSUME Nor!Init PROVE NorInv
    OBVIOUS
  <1>1. IsSequence(<<>>)
    BY DEF IsSequence
  <1>2. NorRows
    BY <1>1 DEF Nor!Init, NorRows
  <1>3. NorHolders
    BY DEF Nor!Init, NorHolders, Nor!Idle, Nor!Free
  <1>4. QED
    BY <1>2, <1>3 DEF NorInv

\* No row goes; a row that changes, or comes, is as it should be.
LEMMA RowsKeepNorInv ==
    ASSUME NorInv, norExtracted' = norExtracted, IsSequence(norRuns'), IsSequence(norJobs'),
           DOMAIN norRuns \subseteq DOMAIN norRuns', DOMAIN norJobs \subseteq DOMAIN norJobs',
           \A x \in DOMAIN norRuns' :
               \/ x \in DOMAIN norRuns /\ norRuns'[x] = norRuns[x]
               \/ NorRunOK(norRuns'[x]) /\ norRuns'[x].job \in DOMAIN norJobs',
           \A j \in DOMAIN norJobs' :
               \/ j \in DOMAIN norJobs /\ norJobs'[j] = norJobs[j]
               \/ NorJobOK(norJobs'[j]) /\ norJobs'[j].run \in DOMAIN norRuns',
           DOMAIN norRequest' = Clients, DOMAIN norWorker' = NorWorkers,
           \A c \in Clients : norRequest'[c] \in {norRequest[c], Nor!Idle},
           \A w \in NorWorkers : \/ norWorker'[w] \in {norWorker[w], Nor!Free}
                                 \/ /\ DOMAIN norWorker'[w] = {"job", "calls", "related"}
                                    /\ norWorker'[w].job \in DOMAIN norJobs
    PROVE  NorInv'
  <1>1. \A x \in DOMAIN norRuns : NorRunOK(norRuns[x]) /\ norRuns[x].job \in DOMAIN norJobs
    BY DEF NorInv, NorRows
  <1>2. \A x \in DOMAIN norRuns' : NorRunOK(norRuns'[x]) /\ norRuns'[x].job \in DOMAIN norJobs'
    <2> TAKE x \in DOMAIN norRuns'
    <2>1. CASE x \in DOMAIN norRuns /\ norRuns'[x] = norRuns[x]
      <3>1. NorRunOK(norRuns[x]) /\ norRuns[x].job \in DOMAIN norJobs
        BY <1>1, <2>1
      <3>2. QED
        BY <2>1, <3>1
    <2>2. QED
      BY <2>1
  <1>3. \A j \in DOMAIN norJobs : NorJobOK(norJobs[j]) /\ norJobs[j].run \in DOMAIN norRuns
    BY DEF NorInv, NorRows
  <1>4. \A j \in DOMAIN norJobs' : NorJobOK(norJobs'[j]) /\ norJobs'[j].run \in DOMAIN norRuns'
    <2> TAKE j \in DOMAIN norJobs'
    <2>1. CASE j \in DOMAIN norJobs /\ norJobs'[j] = norJobs[j]
      <3>1. NorJobOK(norJobs[j]) /\ norJobs[j].run \in DOMAIN norRuns
        BY <1>3, <2>1
      <3>2. QED
        BY <2>1, <3>1
    <2>2. QED
      BY <2>1
  <1>5. NorRows'
    BY <1>2, <1>4 DEF NorInv, NorRows
  <1>6. NorHolders'
    BY DEF NorInv, NorHolders, Nor!Idle, Nor!Free
  <1>7. QED
    BY <1>5, <1>6 DEF NorInv

\* What a request reads, and what a document becomes, is of the right sort.
LEMMA ReadingKeepsNorInv ==
    ASSUME NorInv, UNCHANGED <<norRuns, norJobs, norWorker>>,
           norExtracted' \in [DOMAIN Documents -> DOMAIN Extractions \cup {Null}],
           DOMAIN norRequest' = Clients,
           \A c \in Clients :
               /\ norRequest'[c].op = "create" => IsSequence(norRequest'[c].snapshot.segments)
               /\ norRequest'[c].op = "retry" => norRequest'[c].run \in DOMAIN norRuns
    PROVE  NorInv'
  BY DEF NorInv, NorRows, NorHolders

LEMMA SnapshotIsSequence ==
    ASSUME norExtracted \in [DOMAIN Documents -> DOMAIN Extractions \cup {Null}]
    PROVE  IsSequence(Nor!Snapshot.segments)
  <1>1. PICK seqs : seqs = [d \in DOMAIN Documents |->
                        IF norExtracted[d] = Null THEN <<>> ELSE Extractions[norExtracted[d]]]
    OBVIOUS
  <1>2. PICK all : all = Nor!FlattenSeq(seqs)
    OBVIOUS
  <1>3. \A i \in DOMAIN seqs : IsSequence(seqs[i])
    <2> TAKE i \in DOMAIN seqs
    <2>1. CASE norExtracted[i] = Null
      BY <1>1, <2>1 DEF IsSequence
    <2>2. CASE norExtracted[i] # Null
      BY <1>1, <2>2, EvaluationsAssumption DEF IsSequence
    <2>3. QED
      BY <2>1, <2>2
  <1>4. Len(Documents) \in Nat /\ DOMAIN Documents = 1 .. Len(Documents)
    BY EvaluationsAssumption
  <1>5. IsSequence(seqs) /\ Len(seqs) \in Nat /\ DOMAIN seqs = 1 .. Len(seqs)
    <2>1. seqs = [d \in 1 .. Len(Documents) |-> seqs[d]]
      BY <1>1, <1>4
    <2>2. PICK S : S = {seqs[d] : d \in 1 .. Len(Documents)}
      OBVIOUS
    <2>3. seqs \in [1 .. Len(Documents) -> S]
      BY <2>1, <2>2
    <2>4. seqs \in Seq(S)
      BY <1>4, <2>3
    <2>5. QED
      BY <2>4, LenProperties DEF IsSequence
  <1>6. IsSequence(all)
    BY <1>2, <1>3, <1>5, Flattened
  <1>7. PICK S : all \in Seq(S)
    BY <1>6 DEF IsSequence
  <1>8. PICK m : m = IF Len(all) < SegmentLimit THEN Len(all) ELSE SegmentLimit
    OBVIOUS
  <1>9. Nor!Snapshot.segments = SubSeq(all, 1, m)
    BY <1>1, <1>2, <1>8 DEF Nor!Snapshot
  <1>10. SubSeq(all, 1, m) \in Seq(S)
    <2>1. Len(all) \in Nat /\ m \in Nat /\ m <= Len(all)
      BY <1>7, <1>8, LenProperties, EvaluationsAssumption
    <2>2. QED
      BY <1>7, <2>1, SubSeqProperties
  <1>11. QED
    BY <1>9, <1>10 DEF IsSequence

LEMMA BatchesStart ==
    ASSUME NEW segments, IsSequence(segments)
    PROVE  BatchesOK(Nor!Batches(segments)) /\ CandidatesOf(Nor!Batches(segments)) = 0
  <1>1. Len(segments) \in Nat
    BY Appended
  <1>2. PICK n : n = (Len(segments) + BatchLimit - 1) \div BatchLimit
    OBVIOUS
  <1>3. n \in Nat
    BY <1>1, <1>2, EvaluationsAssumption
  <1>4. PICK batches : batches = Nor!Batches(segments)
    OBVIOUS
  <1>5. /\ DOMAIN batches = 1 .. n
        /\ \A b \in DOMAIN batches : /\ DOMAIN batches[b] = {"status", "candidates", "segments"}
                                     /\ batches[b].candidates = 0
    BY <1>2, <1>4 DEF Nor!Batches, Nor!NewBatch
  <1>6. BatchesOK(batches)
    BY <1>3, <1>5 DEF BatchesOK
  <1>7. CandidatesOf(batches) = 0
    BY <1>3, <1>5, SumsOfNone
  <1>8. QED
    BY <1>4, <1>6, <1>7

\* A run whose counters and what they count stay is as it should be.
LEMMA NorRunMoved ==
    ASSUME NEW run, NorRunOK(run), NEW next, DOMAIN next = NorRunFields, next.status \in Nor!Status,
           IsSequence(next.requirements), Len(next.requirements) = Len(run.requirements),
           \A f \in {"batches", "discarded", "candidates", "accepted", "rejected"} : next[f] = run[f]
    PROVE  NorRunOK(next)
  <1>1. /\ next.batches = run.batches /\ next.discarded = run.discarded /\ next.candidates = run.candidates
        /\ next.accepted = run.accepted /\ next.rejected = run.rejected
    OBVIOUS
  <1>2. Counted(next)
    BY <1>1 DEF Counted, NorRunOK
  <1>3. BatchesOK(next.batches) /\ next.candidates = CandidatesOf(next.batches)
    BY <1>1 DEF NorRunOK
  <1>4. next.candidates = next.accepted + next.rejected
    BY <1>1 DEF NorRunOK
  <1>5. QED
    BY <1>2, <1>3, <1>4 DEF NorRunOK

LEMMA NorReadsKeepInv ==
    ASSUME NorInv,
           \/ \E d \in DOMAIN Documents : Nor!Extract(d)
           \/ \E c \in Clients : \/ \E force \in BOOLEAN : Nor!BeginCreate(c, force)
                                 \/ \E x \in DOMAIN norRuns : Nor!BeginRetry(c, x)
                                 \/ Nor!Refused(c)
    PROVE  NorInv'
  <1>1. norExtracted \in [DOMAIN Documents -> DOMAIN Extractions \cup {Null}]
    BY DEF NorInv, NorRows
  <1>2. ASSUME NEW d \in DOMAIN Documents, Nor!Extract(d) PROVE NorInv'
    <2>1. norExtracted' \in [DOMAIN Documents -> DOMAIN Extractions \cup {Null}]
      BY <1>1, <1>2 DEF Nor!Extract
    <2>2. UNCHANGED <<norRuns, norJobs, norWorker, norRequest>>
      BY <1>2 DEF Nor!Extract
    <2>3. QED
      BY <2>1, <2>2, ReadingKeepsNorInv DEF NorInv, NorHolders
  <1>3. ASSUME NEW c \in Clients, NEW asked, norRequest' = [norRequest EXCEPT ![c] = asked],
               UNCHANGED <<norExtracted, norRuns, norJobs, norWorker>>,
               asked.op = "create" => IsSequence(asked.snapshot.segments),
               asked.op = "retry" => asked.run \in DOMAIN norRuns
        PROVE  NorInv'
    <2>1. /\ DOMAIN norRequest' = Clients /\ norRequest'[c] = asked
          /\ \A x \in Clients \ {c} : norRequest'[x] = norRequest[x]
      BY <1>3 DEF NorInv, NorHolders
    <2>2. \A x \in Clients :
             /\ norRequest'[x].op = "create" => IsSequence(norRequest'[x].snapshot.segments)
             /\ norRequest'[x].op = "retry" => norRequest'[x].run \in DOMAIN norRuns
      BY <1>3, <2>1 DEF NorInv, NorHolders
    <2>3. QED
      BY <1>1, <1>3, <2>1, <2>2, ReadingKeepsNorInv
  <1>4. ASSUME NEW c \in Clients, NEW force \in BOOLEAN, Nor!BeginCreate(c, force) PROVE NorInv'
    <2>1. PICK asked : asked = [op |-> "create", snapshot |-> Nor!Snapshot]
      OBVIOUS
    <2>2. norRequest' = [norRequest EXCEPT ![c] = asked]
          /\ UNCHANGED <<norExtracted, norRuns, norJobs, norWorker>>
      BY <1>4, <2>1 DEF Nor!BeginCreate
    <2>3. asked.op = "create" /\ asked.snapshot = Nor!Snapshot
      BY <2>1
    <2>4. IsSequence(asked.snapshot.segments)
      BY <1>1, <2>3, SnapshotIsSequence
    <2>5. QED
      BY <1>3, <2>2, <2>3, <2>4
  <1>5. ASSUME NEW c \in Clients, NEW x \in DOMAIN norRuns, Nor!BeginRetry(c, x) PROVE NorInv'
    <2>1. PICK asked : asked = [op |-> "retry", run |-> x]
      OBVIOUS
    <2>2. norRequest' = [norRequest EXCEPT ![c] = asked]
          /\ UNCHANGED <<norExtracted, norRuns, norJobs, norWorker>>
      BY <1>5, <2>1 DEF Nor!BeginRetry
    <2>3. QED
      BY <1>3, <2>1, <2>2
  <1>6. ASSUME NEW c \in Clients, Nor!Refused(c) PROVE NorInv'
    <2>1. PICK asked : asked = Nor!Idle
      OBVIOUS
    <2>2. norRequest' = [norRequest EXCEPT ![c] = asked]
          /\ UNCHANGED <<norExtracted, norRuns, norJobs, norWorker>>
      BY <1>6, <2>1 DEF Nor!Refused
    <2>3. QED
      BY <1>3, <2>1, <2>2 DEF Nor!Idle
  <1>7. QED
    BY <1>2, <1>4, <1>5, <1>6

LEMMA NewNorJob ==
    ASSUME NEW x PROVE NorJobOK(Nor!NewJob(x)) /\ Nor!NewJob(x).run = x
  BY EvaluationsAssumption DEF NorJobOK, NorJobFields, Nor!NewJob, Nor!Status

LEMMA NewNorRun ==
    ASSUME NEW snapshot, IsSequence(snapshot.segments)
    PROVE  NorRunOK(Nor!NewRun(snapshot)) /\ Nor!NewRun(snapshot).job = Len(norJobs) + 1
  <1>1. PICK run : run = Nor!NewRun(snapshot)
    OBVIOUS
  <1>2. PICK batches : batches = Nor!Batches(snapshot.segments)
    OBVIOUS
  <1>3. BatchesOK(batches) /\ CandidatesOf(batches) = 0
    BY <1>2, BatchesStart
  <1>4. /\ DOMAIN run = NorRunFields /\ run.batches = batches
        /\ run.requirements = <<>> /\ run.discarded = <<>>
        /\ run.candidates = 0 /\ run.accepted = 0 /\ run.rejected = 0
        /\ run.status = "PENDING" /\ run.job = Len(norJobs) + 1
    BY <1>1, <1>2 DEF Nor!NewRun, NorRunFields
  <1>5. IsSequence(<<>>)
    BY DEF IsSequence
  <1>6. Counted(run)
    BY <1>4, <1>5 DEF Counted
  <1>7. NorRunOK(run)
    BY <1>3, <1>4, <1>6 DEF NorRunOK, Nor!Status
  <1>8. QED
    BY <1>1, <1>4, <1>7

LEMMA NorCommitCreateKeepsInv ==
    ASSUME NorInv, NEW c \in Clients, Nor!CommitCreate(c)
    PROVE  NorInv'
  <1>1. PICK snapshot : snapshot = norRequest[c].snapshot /\ IsSequence(snapshot.segments)
    BY DEF Nor!CommitCreate, NorInv, NorHolders
  <1>2. PICK run, job : run = Nor!NewRun(snapshot) /\ job = Nor!NewJob(Len(norRuns) + 1)
    OBVIOUS
  <1>3. NorRunOK(run) /\ run.job = Len(norJobs) + 1 /\ NorJobOK(job) /\ job.run = Len(norRuns) + 1
    BY <1>1, <1>2, NewNorRun, NewNorJob
  <1>4. /\ norRuns' = Append(norRuns, run) /\ norJobs' = Append(norJobs, job)
        /\ norRequest' = [norRequest EXCEPT ![c] = Nor!Idle] /\ UNCHANGED <<norExtracted, norWorker>>
    BY <1>1, <1>2 DEF Nor!CommitCreate
  <1>5. /\ IsSequence(norRuns') /\ Len(norRuns) \in Nat /\ DOMAIN norRuns = 1 .. Len(norRuns)
        /\ DOMAIN norRuns' = 1 .. (Len(norRuns) + 1) /\ norRuns'[Len(norRuns) + 1] = run
        /\ \A x \in 1 .. Len(norRuns) : norRuns'[x] = norRuns[x]
    BY <1>4, Appended DEF NorInv, NorRows
  <1>6. /\ IsSequence(norJobs') /\ Len(norJobs) \in Nat /\ DOMAIN norJobs = 1 .. Len(norJobs)
        /\ DOMAIN norJobs' = 1 .. (Len(norJobs) + 1) /\ norJobs'[Len(norJobs) + 1] = job
        /\ \A j \in 1 .. Len(norJobs) : norJobs'[j] = norJobs[j]
    BY <1>4, Appended DEF NorInv, NorRows
  <1>7. /\ DOMAIN norRuns \subseteq DOMAIN norRuns' /\ Len(norRuns) + 1 \in DOMAIN norRuns'
        /\ \A x \in DOMAIN norRuns' : \/ x \in DOMAIN norRuns /\ norRuns'[x] = norRuns[x]
                                      \/ norRuns'[x] = run
    BY <1>5
  <1>8. /\ DOMAIN norJobs \subseteq DOMAIN norJobs' /\ Len(norJobs) + 1 \in DOMAIN norJobs'
        /\ \A j \in DOMAIN norJobs' : \/ j \in DOMAIN norJobs /\ norJobs'[j] = norJobs[j]
                                      \/ norJobs'[j] = job
    BY <1>6
  <1>9. /\ DOMAIN norRequest' = Clients /\ DOMAIN norWorker' = NorWorkers
        /\ \A x \in Clients : norRequest'[x] \in {norRequest[x], Nor!Idle}
        /\ \A w \in NorWorkers : norWorker'[w] = norWorker[w]
    BY <1>4 DEF NorInv, NorHolders
  <1>10. QED
    BY <1>3, <1>4, <1>5, <1>6, <1>7, <1>8, <1>9, RowsKeepNorInv

\* A run that goes to another status, or to another job, counts as it did.
LEMMA NorRunSet ==
    ASSUME NEW run, NorRunOK(run), NEW status \in Nor!Status, NEW job
    PROVE  /\ NorRunOK([run EXCEPT !.status = status]) /\ [run EXCEPT !.status = status].job = run.job
           /\ NorRunOK([run EXCEPT !.status = status, !.job = job])
           /\ [run EXCEPT !.status = status, !.job = job].job = job
  <1>1. /\ DOMAIN run = NorRunFields /\ IsSequence(run.requirements)
    BY DEF NorRunOK, Counted
  <1>2. PICK moved : moved = [run EXCEPT !.status = status]
    OBVIOUS
  <1>3. PICK handed : handed = [run EXCEPT !.status = status, !.job = job]
    OBVIOUS
  <1>4. /\ DOMAIN moved = NorRunFields /\ moved.status = status
        /\ \A f \in NorRunFields \ {"status"} : moved[f] = run[f]
    BY <1>1, <1>2 DEF NorRunFields
  <1>5. /\ DOMAIN handed = NorRunFields /\ handed.status = status /\ handed.job = job
        /\ \A f \in NorRunFields \ {"status", "job"} : handed[f] = run[f]
    BY <1>1, <1>3 DEF NorRunFields
  <1>6. NorRunOK(moved)
    <2>1. /\ moved.requirements = run.requirements
          /\ \A f \in {"batches", "discarded", "candidates", "accepted", "rejected"} : moved[f] = run[f]
      BY <1>4 DEF NorRunFields
    <2>2. QED
      BY <1>1, <1>4, <2>1, NorRunMoved
  <1>7. NorRunOK(handed)
    <2>1. /\ handed.requirements = run.requirements
          /\ \A f \in {"batches", "discarded", "candidates", "accepted", "rejected"} : handed[f] = run[f]
      BY <1>5 DEF NorRunFields
    <2>2. QED
      BY <1>1, <1>5, <2>1, NorRunMoved
  <1>8. moved.job = run.job
    BY <1>4 DEF NorRunFields
  <1>9. QED
    BY ONLY <1>2, <1>3, <1>5, <1>6, <1>7, <1>8

\* One run and one job change together.
LEMMA RowsReplacedKeepNorInv ==
    ASSUME NorInv, NEW x \in DOMAIN norRuns, NEW run, NorRunOK(run), run.job \in DOMAIN norJobs,
           norRuns' = [norRuns EXCEPT ![x] = run], norExtracted' = norExtracted,
           NEW j \in DOMAIN norJobs, NEW job, NorJobOK(job), job.run \in DOMAIN norRuns,
           norJobs' = [norJobs EXCEPT ![j] = job],
           DOMAIN norRequest' = Clients, DOMAIN norWorker' = NorWorkers,
           \A c \in Clients : norRequest'[c] \in {norRequest[c], Nor!Idle},
           \A w \in NorWorkers : \/ norWorker'[w] \in {norWorker[w], Nor!Free}
                                 \/ /\ DOMAIN norWorker'[w] = {"job", "calls", "related"}
                                    /\ norWorker'[w].job \in DOMAIN norJobs
    PROVE  NorInv'
  <1>1. /\ IsSequence(norRuns') /\ DOMAIN norRuns' = DOMAIN norRuns /\ norRuns'[x] = run
        /\ \A y \in DOMAIN norRuns \ {x} : norRuns'[y] = norRuns[y]
    BY Replaced DEF NorInv, NorRows
  <1>2. /\ IsSequence(norJobs') /\ DOMAIN norJobs' = DOMAIN norJobs /\ norJobs'[j] = job
        /\ \A i \in DOMAIN norJobs \ {j} : norJobs'[i] = norJobs[i]
    BY Replaced DEF NorInv, NorRows
  <1>3. \A y \in DOMAIN norRuns' :
           \/ y \in DOMAIN norRuns /\ norRuns'[y] = norRuns[y]
           \/ NorRunOK(norRuns'[y]) /\ norRuns'[y].job \in DOMAIN norJobs'
    BY <1>1, <1>2
  <1>4. \A i \in DOMAIN norJobs' :
           \/ i \in DOMAIN norJobs /\ norJobs'[i] = norJobs[i]
           \/ NorJobOK(norJobs'[i]) /\ norJobs'[i].run \in DOMAIN norRuns'
    BY <1>1, <1>2
  <1>5. QED
    BY <1>1, <1>2, <1>3, <1>4, RowsKeepNorInv

LEMMA NorCommitRetryKeepsInv ==
    ASSUME NorInv, NEW c \in Clients, Nor!CommitRetry(c)
    PROVE  NorInv'
  <1>1. PICK x \in DOMAIN norRuns : x = norRequest[c].run
    BY DEF Nor!CommitRetry, NorInv, NorHolders
  <1>2. PICK job : job = Nor!NewJob(x)
    OBVIOUS
  <1>3. NorJobOK(job) /\ job.run = x
    BY <1>2, NewNorJob
  <1>4. PICK old : old = norRuns[x] /\ NorRunOK(old)
    BY DEF NorInv, NorRows
  <1>5. PICK run : run = [old EXCEPT !.status = "PENDING", !.job = Len(norJobs) + 1]
    OBVIOUS
  <1>6. NorRunOK(run) /\ run.job = Len(norJobs) + 1
    <2>1. "PENDING" \in Nor!Status
      BY DEF Nor!Status
    <2>2. PICK n : n = Len(norJobs) + 1
      OBVIOUS
    <2>3. run = [old EXCEPT !.status = "PENDING", !.job = n]
      BY <1>5, <2>2
    <2>4. NorRunOK([old EXCEPT !.status = "PENDING", !.job = n])
      BY ONLY <1>4, <2>1, NorRunSet
    <2>5. [old EXCEPT !.status = "PENDING", !.job = n].job = n
      <3>1. DOMAIN old = NorRunFields
        BY <1>4 DEF NorRunOK, Counted
      <3>2. QED
        BY ONLY <3>1 DEF NorRunFields
    <2>6. QED
      BY ONLY <2>2, <2>3, <2>4, <2>5
  <1>7. /\ norRuns' = [norRuns EXCEPT ![x] = run] /\ norJobs' = Append(norJobs, job)
        /\ norRequest' = [norRequest EXCEPT ![c] = Nor!Idle] /\ UNCHANGED <<norExtracted, norWorker>>
    BY <1>1, <1>2, <1>4, <1>5 DEF Nor!CommitRetry
  <1>8. /\ IsSequence(norRuns') /\ DOMAIN norRuns' = DOMAIN norRuns /\ norRuns'[x] = run
        /\ \A y \in DOMAIN norRuns \ {x} : norRuns'[y] = norRuns[y]
    BY <1>7, Replaced DEF NorInv, NorRows
  <1>9. /\ IsSequence(norJobs') /\ Len(norJobs) \in Nat /\ DOMAIN norJobs = 1 .. Len(norJobs)
        /\ DOMAIN norJobs' = 1 .. (Len(norJobs) + 1) /\ norJobs'[Len(norJobs) + 1] = job
        /\ \A j \in 1 .. Len(norJobs) : norJobs'[j] = norJobs[j]
    BY <1>7, Appended DEF NorInv, NorRows
  <1>10. /\ DOMAIN norJobs \subseteq DOMAIN norJobs' /\ Len(norJobs) + 1 \in DOMAIN norJobs'
         /\ \A j \in DOMAIN norJobs' : \/ j \in DOMAIN norJobs /\ norJobs'[j] = norJobs[j]
                                       \/ norJobs'[j] = job
    BY <1>9
  <1>11. \A y \in DOMAIN norRuns' : \/ y \in DOMAIN norRuns /\ norRuns'[y] = norRuns[y]
                                    \/ norRuns'[y] = run
    BY <1>8
  <1>12. /\ DOMAIN norRequest' = Clients /\ DOMAIN norWorker' = NorWorkers
         /\ \A y \in Clients : norRequest'[y] \in {norRequest[y], Nor!Idle}
         /\ \A w \in NorWorkers : norWorker'[w] = norWorker[w]
    BY <1>7 DEF NorInv, NorHolders
  <1>13. QED
    BY <1>3, <1>6, <1>7, <1>8, <1>9, <1>10, <1>11, <1>12, RowsKeepNorInv

LEMMA NorClaimKeepsInv ==
    ASSUME NorInv, NEW w \in NorWorkers, Nor!Claim(w)
    PROVE  NorInv'
  <1>1. PICK j \in DOMAIN norJobs :
          /\ norJobs[j].status = "PENDING"
          /\ norJobs' = [norJobs EXCEPT ![j].status = "PROCESSING", ![j].attempts = @ + 1]
          /\ norRuns' = [norRuns EXCEPT ![norJobs[j].run].status = "PROCESSING"]
          /\ norWorker' = [norWorker EXCEPT ![w] = [job |-> j, calls |-> 0, related |-> FALSE]]
    BY DEF Nor!Claim
  <1>2. PICK old : old = norJobs[j] /\ NorJobOK(old) /\ old.status = "PENDING"
    BY <1>1 DEF NorInv, NorRows
  <1>3. PICK x \in DOMAIN norRuns : x = old.run
    BY <1>2 DEF NorInv, NorRows
  <1>4. PICK job : job = [old EXCEPT !.status = "PROCESSING", !.attempts = @ + 1]
    OBVIOUS
  <1>5. NorJobOK(job) /\ job.run = x
    <2>1. /\ DOMAIN job = NorJobFields /\ job.status = "PROCESSING"
          /\ job.attempts = old.attempts + 1 /\ job.run = old.run
      BY <1>2, <1>4 DEF NorJobOK, NorJobFields
    <2>2. old.attempts \in Nat /\ old.attempts < NorAttempts /\ NorAttempts \in Nat
      BY <1>2, EvaluationsAssumption DEF NorJobOK
    <2>3. QED
      BY <1>3, <2>1, <2>2 DEF NorJobOK, Nor!Status
  <1>6. PICK run0 : run0 = norRuns[x] /\ NorRunOK(run0) /\ run0.job \in DOMAIN norJobs
    BY DEF NorInv, NorRows
  <1>7. PICK run : run = [run0 EXCEPT !.status = "PROCESSING"]
    OBVIOUS
  <1>8. NorRunOK(run) /\ run.job = run0.job
    <2>1. "PROCESSING" \in Nor!Status
      BY DEF Nor!Status
    <2>2. QED
      BY <1>6, <1>7, <2>1, NorRunSet
  <1>9. norJobs' = [norJobs EXCEPT ![j] = job] /\ norRuns' = [norRuns EXCEPT ![x] = run]
    BY <1>1, <1>2, <1>3, <1>4, <1>6, <1>7
  <1>10. /\ DOMAIN norWorker' = NorWorkers /\ UNCHANGED <<norExtracted, norRequest>>
         /\ \A v \in NorWorkers : \/ norWorker'[v] = norWorker[v]
                                  \/ /\ DOMAIN norWorker'[v] = {"job", "calls", "related"}
                                     /\ norWorker'[v].job = j
    BY <1>1 DEF Nor!Claim, NorInv, NorHolders
  <1>11. /\ DOMAIN norRequest' = Clients
         /\ \A c \in Clients : norRequest'[c] \in {norRequest[c], Nor!Idle}
    BY <1>10 DEF NorInv, NorHolders
  <1>12. QED
    BY <1>5, <1>6, <1>8, <1>9, <1>10, <1>11, RowsReplacedKeepNorInv

\* The run that a worker is at.
LEMMA HeldRun ==
    ASSUME NorInv, NEW w \in NorWorkers, norWorker[w] # Nor!Free
    PROVE  /\ norWorker[w].job \in DOMAIN norJobs /\ NorJobOK(norJobs[norWorker[w].job])
           /\ Nor!RunOf(w) \in DOMAIN norRuns /\ NorRunOK(norRuns[Nor!RunOf(w)])
           /\ norJobs[norWorker[w].job].run = Nor!RunOf(w)
           /\ norRuns[Nor!RunOf(w)].job \in DOMAIN norJobs
  BY DEF NorInv, NorRows, NorHolders, Nor!RunOf

\* A worker writes the run that it is at, and goes on with the same job.
LEMMA RunWrittenKeepsNorInv ==
    ASSUME NorInv, NEW w \in NorWorkers, norWorker[w] # Nor!Free,
           NEW run, NorRunOK(run), run.job = norRuns[Nor!RunOf(w)].job,
           norRuns' = [norRuns EXCEPT ![Nor!RunOf(w)] = run],
           UNCHANGED <<norExtracted, norJobs, norRequest>>,
           NEW held, DOMAIN held = {"job", "calls", "related"}, held.job = norWorker[w].job,
           norWorker' = [norWorker EXCEPT ![w] = held]
    PROVE  NorInv'
  <1>1. PICK j, x : j = norWorker[w].job /\ x = Nor!RunOf(w)
    OBVIOUS
  <1>2. PICK job : job = norJobs[j]
    OBVIOUS
  <1>3. /\ j \in DOMAIN norJobs /\ NorJobOK(job) /\ x \in DOMAIN norRuns /\ job.run = x
        /\ run.job \in DOMAIN norJobs
    BY <1>1, <1>2, HeldRun
  <1>4. IsSequence(norJobs)
    BY DEF NorInv, NorRows
  <1>5. norJobs' = [norJobs EXCEPT ![j] = job]
    <2>1. PICK S : norJobs \in Seq(S)
      BY <1>4 DEF IsSequence
    <2>2. QED
      BY <1>2, <2>1
  <1>6. /\ DOMAIN norRequest' = Clients /\ DOMAIN norWorker' = NorWorkers
        /\ \A c \in Clients : norRequest'[c] \in {norRequest[c], Nor!Idle}
        /\ \A v \in NorWorkers : v # w => norWorker'[v] = norWorker[v]
        /\ norWorker'[w] = held
    BY DEF NorInv, NorHolders
  <1>7. \A v \in NorWorkers : \/ norWorker'[v] \in {norWorker[v], Nor!Free}
                              \/ /\ DOMAIN norWorker'[v] = {"job", "calls", "related"}
                                 /\ norWorker'[v].job \in DOMAIN norJobs
    BY <1>1, <1>3, <1>6
  <1>8. norRuns' = [norRuns EXCEPT ![x] = run]
    BY <1>1
  <1>9. QED
    BY <1>3, <1>5, <1>6, <1>7, <1>8, RowsReplacedKeepNorInv

LEMMA ProcessBatchKeepsInv ==
    ASSUME NorInv, NEW w \in NorWorkers, Nor!ProcessBatch(w)
    PROVE  NorInv'
  <1>1. PICK x : x = Nor!RunOf(w)
    OBVIOUS
  <1>2. PICK old : old = norRuns[x] /\ NorRunOK(old)
    BY <1>1, HeldRun DEF Nor!ProcessBatch
  <1>3. PICK b \in Nor!Left(w), answer \in Answers :
          /\ norRuns' = [norRuns EXCEPT ![Nor!RunOf(w)] = Nor!TakeAll(@, b, answer)]
          /\ norWorker' = [norWorker EXCEPT ![w].calls = @ + 1]
    BY DEF Nor!ProcessBatch
  <1>4. b \in DOMAIN old.batches /\ old.batches[b].status # "COMPLETED"
    BY <1>1, <1>2, <1>3 DEF Nor!Left
  <1>5. Len(answer) \in Nat /\ DOMAIN answer = 1 .. Len(answer)
    BY EvaluationsAssumption, LenProperties
  <1>6. PICK run : run = Nor!TakeAll(old, b, answer)
    OBVIOUS
  <1>7. NorRunOK(run) /\ run.job = old.job
    BY <1>2, <1>4, <1>5, <1>6, BatchCounts
  <1>8. norRuns' = [norRuns EXCEPT ![x] = run]
    BY <1>1, <1>2, <1>3, <1>6
  <1>9. PICK holds : holds = norWorker[w] /\ DOMAIN holds = {"job", "calls", "related"}
    BY DEF NorInv, NorHolders
  <1>10. PICK held : held = [holds EXCEPT !.calls = @ + 1]
    OBVIOUS
  <1>11. DOMAIN held = {"job", "calls", "related"} /\ held.job = holds.job
    BY <1>9, <1>10
  <1>12. norWorker' = [norWorker EXCEPT ![w] = held]
    BY <1>3, <1>9, <1>10
  <1>13. norWorker[w] # Nor!Free /\ UNCHANGED <<norExtracted, norJobs, norRequest>>
    BY DEF Nor!ProcessBatch
  <1>14. QED
    BY <1>1, <1>2, <1>7, <1>8, <1>9, <1>11, <1>12, <1>13, RunWrittenKeepsNorInv

\* A sequence has as many elements when each is replaced.
LEMMA Mapped ==
    ASSUME NEW s, IsSequence(s), NEW t, t = [n \in DOMAIN s |-> t[n]]
    PROVE  IsSequence(t) /\ Len(t) = Len(s)
  <1>1. Len(s) \in Nat /\ DOMAIN s = 1 .. Len(s)
    BY Appended
  <1>2. PICK S : S = {t[n] : n \in DOMAIN s}
    OBVIOUS
  <1>3. t \in [1 .. Len(s) -> S]
    BY <1>1, <1>2
  <1>4. t \in Seq(S)
    BY <1>1, <1>3
  <1>5. IsSequence(t) /\ DOMAIN t = 1 .. Len(s)
    BY <1>3, <1>4 DEF IsSequence
  <1>6. QED
    BY <1>1, <1>5, LengthOfSequence

LEMMA ConsolidateKeepsInv ==
    ASSUME NorInv, NEW w \in NorWorkers, Nor!Consolidate(w)
    PROVE  NorInv'
  <1>1. PICK x : x = Nor!RunOf(w)
    OBVIOUS
  <1>2. PICK old : old = norRuns[x] /\ NorRunOK(old)
    BY <1>1, HeldRun DEF Nor!Consolidate
  <1>3. PICK related :
          norRuns' = [norRuns EXCEPT ![Nor!RunOf(w)] = [norRuns[Nor!RunOf(w)] EXCEPT
              !.relations = @ \cup related,
              !.requirements = [n \in DOMAIN @ |->
                  [@[n] EXCEPT !.review =
                       @ \/ norRuns[Nor!RunOf(w)].requirements[n].key \in UNION related]]]]
    BY DEF Nor!Consolidate
  <1>4. DOMAIN old = NorRunFields /\ IsSequence(old.requirements) /\ old.status \in Nor!Status
    BY <1>2 DEF NorRunOK, Counted
  <1>5. PICK run, requirements : run = norRuns'[x] /\ requirements = run.requirements
    OBVIOUS
  <1>6. x \in DOMAIN norRuns /\ IsSequence(norRuns)
    BY <1>1, HeldRun DEF Nor!Consolidate, NorInv, NorRows
  <1>7. /\ DOMAIN run = NorRunFields
        /\ \A f \in NorRunFields \ {"relations", "requirements"} : run[f] = old[f]
    BY <1>1, <1>2, <1>3, <1>4, <1>5, <1>6 DEF NorRunFields
  <1>8. IsSequence(requirements) /\ Len(requirements) = Len(old.requirements)
    <2>1. DOMAIN requirements = DOMAIN old.requirements
          /\ requirements = [n \in DOMAIN requirements |-> requirements[n]]
      BY <1>1, <1>2, <1>3, <1>4, <1>5, <1>6 DEF NorRunFields
    <2>2. requirements = [n \in DOMAIN old.requirements |-> requirements[n]]
      BY <2>1
    <2>3. QED
      BY ONLY <1>4, <2>2, Mapped
  <1>9. norRuns' = [norRuns EXCEPT ![x] = run]
    BY <1>1, <1>3, <1>5, <1>6
  <1>10. NorRunOK(run) /\ run.job = old.job
    <2>1. /\ run.status = old.status /\ run.job = old.job
          /\ \A f \in {"batches", "discarded", "candidates", "accepted", "rejected"} : run[f] = old[f]
      BY <1>7 DEF NorRunFields
    <2>2. QED
      BY <1>2, <1>4, <1>5, <1>7, <1>8, <2>1, NorRunMoved
  <1>11. PICK holds : holds = norWorker[w] /\ DOMAIN holds = {"job", "calls", "related"}
    BY DEF NorInv, NorHolders
  <1>12. PICK held : held = [holds EXCEPT !.related = TRUE]
    OBVIOUS
  <1>13. DOMAIN held = {"job", "calls", "related"} /\ held.job = holds.job
    BY <1>11, <1>12
  <1>14. norWorker' = [norWorker EXCEPT ![w] = held]
    BY <1>11, <1>12 DEF Nor!Consolidate
  <1>15. norWorker[w] # Nor!Free /\ UNCHANGED <<norExtracted, norJobs, norRequest>>
    BY DEF Nor!Consolidate
  <1>16. QED
    BY <1>1, <1>2, <1>9, <1>10, <1>11, <1>13, <1>14, <1>15, RunWrittenKeepsNorInv

LEMMA NorCompleteKeepsInv ==
    ASSUME NorInv, NEW w \in NorWorkers, Nor!Complete(w)
    PROVE  NorInv'
  <1>1. norWorker[w] # Nor!Free
    BY DEF Nor!Complete, Nor!Free
  <1>2. PICK x, j : x = Nor!RunOf(w) /\ j = norWorker[w].job
    OBVIOUS
  <1>3. PICK old, held : old = norRuns[x] /\ held = norJobs[j]
    OBVIOUS
  <1>4. /\ x \in DOMAIN norRuns /\ NorRunOK(old) /\ old.job \in DOMAIN norJobs
        /\ j \in DOMAIN norJobs /\ NorJobOK(held) /\ held.run = x
    BY <1>1, <1>2, <1>3, HeldRun
  <1>5. PICK status \in Nor!Completed :
          /\ norRuns' = [norRuns EXCEPT ![Nor!RunOf(w)].status = status,
                           ![Nor!RunOf(w)].rejected = Len(norRuns[Nor!RunOf(w)].discarded)]
          /\ norJobs' = [norJobs EXCEPT ![norWorker[w].job].status = status]
    <2>1. PICK status : status = IF norRuns[Nor!RunOf(w)].warnings \/ norRuns[Nor!RunOf(w)].discarded # <<>>
                                 THEN "COMPLETED_WITH_WARNINGS" ELSE "COMPLETED"
      OBVIOUS
    <2>2. status \in Nor!Completed
      BY <2>1 DEF Nor!Completed
    <2>3. QED
      BY <2>1, <2>2 DEF Nor!Complete
  <1>6. PICK run : run = [old EXCEPT !.status = status, !.rejected = Len(old.discarded)]
    OBVIOUS
  <1>7. PICK job : job = [held EXCEPT !.status = status]
    OBVIOUS
  <1>8. norRuns' = [norRuns EXCEPT ![x] = run] /\ norJobs' = [norJobs EXCEPT ![j] = job]
    BY <1>2, <1>3, <1>4, <1>5, <1>6, <1>7
  <1>9. /\ DOMAIN old = NorRunFields /\ IsSequence(old.requirements)
        /\ old.rejected = Len(old.discarded)
    BY <1>4 DEF NorRunOK, Counted
  <1>10. /\ DOMAIN run = NorRunFields /\ run.status = status /\ run.rejected = old.rejected
         /\ \A f \in NorRunFields \ {"status", "rejected"} : run[f] = old[f]
    BY <1>6, <1>9 DEF NorRunFields
  <1>11. NorRunOK(run) /\ run.job = old.job
    <2>1. /\ run.requirements = old.requirements /\ run.job = old.job
          /\ \A f \in {"batches", "discarded", "candidates", "accepted", "rejected"} : run[f] = old[f]
      BY <1>10 DEF NorRunFields
    <2>2. run.status \in Nor!Status
      BY <1>10 DEF Nor!Completed, Nor!Status
    <2>3. QED
      BY <1>4, <1>9, <1>10, <2>1, <2>2, NorRunMoved
  <1>12. NorJobOK(job) /\ job.run = x
    <2>1. /\ DOMAIN job = NorJobFields /\ job.status = status
          /\ job.attempts = held.attempts /\ job.run = held.run
      BY <1>4, <1>7 DEF NorJobOK, NorJobFields
    <2>2. QED
      BY <1>4, <2>1 DEF NorJobOK, Nor!Status, Nor!Completed
  <1>13. /\ DOMAIN norRequest' = Clients /\ DOMAIN norWorker' = NorWorkers
         /\ \A c \in Clients : norRequest'[c] \in {norRequest[c], Nor!Idle}
         /\ \A v \in NorWorkers : norWorker'[v] \in {norWorker[v], Nor!Free}
         /\ norExtracted' = norExtracted
    BY DEF Nor!Complete, NorInv, NorHolders
  <1>14. QED
    BY <1>4, <1>8, <1>11, <1>12, <1>13, RowsReplacedKeepNorInv

LEMMA NorFailJobKeepsInv ==
    ASSUME NorInv, NEW w \in NorWorkers, norWorker[w] # Nor!Free,
           NEW retryable \in BOOLEAN, Nor!FailJob(w, retryable)
    PROVE  NorInv'
  <1>1. PICK x, j : x = Nor!RunOf(w) /\ j = norWorker[w].job
    OBVIOUS
  <1>2. PICK old, held : old = norRuns[x] /\ held = norJobs[j]
    OBVIOUS
  <1>3. /\ x \in DOMAIN norRuns /\ NorRunOK(old) /\ old.job \in DOMAIN norJobs
        /\ j \in DOMAIN norJobs /\ NorJobOK(held) /\ held.run = x
    BY <1>1, <1>2, HeldRun
  <1>4. PICK given, told :
          /\ given \in {"PENDING", "FAILED"} /\ told \in {"PROCESSING", "FAILED"}
          /\ given = "PENDING" => held.attempts < NorAttempts
          /\ norJobs' = [norJobs EXCEPT ![norWorker[w].job].status = given]
          /\ norRuns' = [norRuns EXCEPT ![Nor!RunOf(w)].status = told]
    BY <1>1, <1>2 DEF Nor!FailJob
  <1>5. PICK run, job : run = [old EXCEPT !.status = told] /\ job = [held EXCEPT !.status = given]
    OBVIOUS
  <1>6. norRuns' = [norRuns EXCEPT ![x] = run] /\ norJobs' = [norJobs EXCEPT ![j] = job]
    BY <1>1, <1>2, <1>3, <1>4, <1>5
  <1>7. NorRunOK(run) /\ run.job = old.job
    <2>1. told \in Nor!Status
      BY <1>4 DEF Nor!Status
    <2>2. QED
      BY <1>3, <1>5, <2>1, NorRunSet
  <1>8. NorJobOK(job) /\ job.run = x
    <2>1. /\ DOMAIN job = NorJobFields /\ job.status = given
          /\ job.attempts = held.attempts /\ job.run = held.run
      BY <1>3, <1>5 DEF NorJobOK, NorJobFields
    <2>2. QED
      BY <1>3, <1>4, <2>1 DEF NorJobOK, Nor!Status
  <1>9. /\ DOMAIN norRequest' = Clients /\ DOMAIN norWorker' = NorWorkers
        /\ \A c \in Clients : norRequest'[c] \in {norRequest[c], Nor!Idle}
        /\ \A v \in NorWorkers : norWorker'[v] \in {norWorker[v], Nor!Free}
        /\ norExtracted' = norExtracted
    BY DEF Nor!FailJob, NorInv, NorHolders
  <1>10. QED
    BY <1>3, <1>6, <1>7, <1>8, <1>9, RowsReplacedKeepNorInv

LEMMA NorDiesKeepsInv ==
    ASSUME NorInv, NEW w \in NorWorkers, Nor!Dies(w)
    PROVE  NorInv'
  <1>1. UNCHANGED <<norExtracted, norRuns, norJobs, norRequest>>
        /\ norWorker' = [norWorker EXCEPT ![w] = Nor!Free]
    BY DEF Nor!Dies
  <1>2. /\ DOMAIN norWorker' = NorWorkers
        /\ \A v \in NorWorkers : norWorker'[v] \in {norWorker[v], Nor!Free}
    BY <1>1 DEF NorInv, NorHolders
  <1>3. NorRows'
    BY <1>1 DEF NorInv, NorRows
  <1>4. NorHolders'
    BY <1>1, <1>2 DEF NorInv, NorHolders, Nor!Free
  <1>5. QED
    BY <1>3, <1>4 DEF NorInv

LEMMA NorNextInv == NorInv /\ [Nor!Next]_(Nor!vars) => NorInv'
  <1> SUFFICES ASSUME NorInv, [Nor!Next]_(Nor!vars) PROVE NorInv'
    OBVIOUS
  <1>1. CASE UNCHANGED Nor!vars
    BY <1>1 DEF Nor!vars, NorInv, NorRows, NorHolders
  <1>2. ASSUME NEW w \in NorWorkers, Nor!ProviderFails(w) PROVE NorInv'
    <2>1. norWorker[w] # Nor!Free
      BY <1>2 DEF Nor!ProviderFails
    <2>2. \E retryable \in BOOLEAN : Nor!FailJob(w, retryable)
      BY <1>2 DEF Nor!ProviderFails
    <2>3. QED
      BY <2>1, <2>2, NorFailJobKeepsInv
  <1>3. ASSUME NEW w \in NorWorkers, Nor!WorkerStep(w) \/ Nor!Dies(w) PROVE NorInv'
    BY <1>2, <1>3, NorClaimKeepsInv, ProcessBatchKeepsInv, ConsolidateKeepsInv, NorCompleteKeepsInv,
       NorDiesKeepsInv DEF Nor!WorkerStep
  <1>4. ASSUME NEW c \in Clients, Nor!CommitCreate(c) \/ Nor!CommitRetry(c) PROVE NorInv'
    BY <1>4, NorCommitCreateKeepsInv, NorCommitRetryKeepsInv
  <1>5. QED
    BY <1>1, <1>3, <1>4, NorReadsKeepInv DEF Nor!Next

LEMMA NorInvariant == Nor!Spec => []NorInv
  BY NorInitInv, NorNextInv, PTL DEF Nor!Spec

\* Jobs, runs and workers of a normalization name one another, and no job is attempted
\* more often than it may.
THEOREM NormalizationTyping == Nor!Spec => []Nor!TypeOK
  <1>1. NorInv => Nor!TypeOK
    <2> SUFFICES ASSUME NorInv PROVE Nor!TypeOK
      OBVIOUS
    <2>1. \A x \in DOMAIN norRuns : norRuns[x].status \in Nor!Status /\ norRuns[x].job \in DOMAIN norJobs
      BY DEF NorInv, NorRows, NorRunOK
    <2>2. \A j \in DOMAIN norJobs : /\ norJobs[j].status \in Nor!Status
                                    /\ norJobs[j].run \in DOMAIN norRuns
                                    /\ norJobs[j].attempts <= NorAttempts
      BY DEF NorInv, NorRows, NorJobOK
    <2>3. QED
      BY <2>1, <2>2 DEF NorInv, NorRows, NorHolders, Nor!TypeOK
  <1>2. QED
    BY <1>1, NorInvariant, PTL

\* The counters of a run, its requirements and its rejected candidates tell of every
\* candidate of its batches once, whatever the model answers, and whatever attempts,
\* retries and deaths of workers it takes.
THEOREM NormalizationAccounts == Nor!Spec => []CandidatesAccounted
  <1>1. NorInv => CandidatesAccounted
    <2> SUFFICES ASSUME NorInv, NEW x \in DOMAIN norRuns
                 PROVE  /\ norRuns[x].candidates =
                             Nor!FoldLeft(LAMBDA n, b : n + b.candidates, 0, norRuns[x].batches)
                        /\ norRuns[x].candidates = norRuns[x].accepted + norRuns[x].rejected
                        /\ norRuns[x].accepted = Len(norRuns[x].requirements)
                        /\ norRuns[x].rejected = Len(norRuns[x].discarded)
      BY DEF CandidatesAccounted, Nor!CandidatesAccounted, CandidatesOf
    <2>1. NorRunOK(norRuns[x])
      BY DEF NorInv, NorRows
    <2>2. norRuns[x].candidates = CandidatesOf(norRuns[x].batches)
      BY <2>1 DEF NorRunOK
    <2>3. norRuns[x].candidates =
            Nor!FoldLeft(LAMBDA n, b : n + b.candidates, 0, norRuns[x].batches)
      BY <2>2 DEF CandidatesOf
    <2>4. QED
      BY <2>1, <2>3 DEF NorRunOK, Counted
  <1>2. QED
    BY <1>1, NorInvariant, PTL

-----------------------------------------------------------------------------
(* What the columns of the financial evaluation hold.                       *)

\* What the columns of a run may hold, and what a request is about to add to a rule.
FinRunFits(run) ==
    /\ run.status \in Fin!JobStatus
    /\ \A q \in DOMAIN run.results : run.results[q] \in Fin!Result
FinRequestFits(r) ==
    r.op \in {"create", "update"} => \A q \in DOMAIN r.added : r.base[q] + Len(r.added[q]) <= MaxVersions

FinTyping ==
    /\ \A q \in Fin!Requirements : Len(finRules[q]) <= MaxVersions
    /\ \A x \in DOMAIN finRuns : FinRunFits(finRuns[x]) /\ finRuns[x].job \in DOMAIN finJobs
    /\ \A j \in DOMAIN finJobs : finJobs[j].status \in Fin!JobStatus
    /\ \A c \in Clients : FinRequestFits(finRequest[c])

\* Whatever the rule and the periods, an evaluation gives a verdict, about one of the
\* periods or none.
LEMMA FinEvaluateGivesVerdict ==
    ASSUME NEW rule, NEW periods, DOMAIN periods \subseteq Nat, NEW closingDate
    PROVE  LET outcome == Fin!Evaluate(rule, periods, closingDate) IN
           /\ outcome.status \in Fin!Verdict /\ outcome.period \in Nat \cup {Null}
           /\ outcome.review \in BOOLEAN
  <1>1. PICK outcome : outcome = Fin!Evaluate(rule, periods, closingDate)
    OBVIOUS
  <1>2. PICK latest, place : latest = Fin!Latest(periods, rule, closingDate) /\ place = CHOOSE x \in latest : TRUE
    OBVIOUS
  <1>3. PICK found : found = Fin!Resolved(periods[place], rule.metric)
    OBVIOUS
  <1>4. PICK verdict, review : /\ verdict = Fin!Compare(rule, found.value)
                               /\ review = (rule.review \/ found.usability # "VERIFIED")
    OBVIOUS
  <1>5. outcome =
          IF ~rule.mapped \/ ~\E x \in DOMAIN periods : latest = {x}
            THEN [status |-> "UNKNOWN", period |-> Null, review |-> TRUE, calculated |-> FALSE]
          ELSE IF found.error = "EVIDENCE_CONFLICT"
            THEN [status |-> "CONFLICTING_EVIDENCE", period |-> place, review |-> TRUE,
                  calculated |-> found.calculated]
          ELSE IF found.value = Null
            THEN [status |-> "UNKNOWN", period |-> place, review |-> TRUE, calculated |-> found.calculated]
          ELSE IF found.usability = "CONFLICTING"
            THEN [status |-> "CONFLICTING_EVIDENCE", period |-> place, review |-> TRUE,
                  calculated |-> found.calculated]
          ELSE IF ~Fin!UnitsAgree(rule, found) \/ found.usability \notin {"VERIFIED", "SUPPORTED"}
            THEN [status |-> "UNKNOWN", period |-> place, review |-> TRUE, calculated |-> found.calculated]
          ELSE [[status |-> verdict, period |-> place, review |-> TRUE, calculated |-> found.calculated]
                  EXCEPT !.review = review]
    BY <1>1, <1>2, <1>3, <1>4 DEF Fin!Evaluate
  <1>6. verdict \in Fin!Verdict
    BY <1>4 DEF Fin!Compare, Fin!Verdict
  <1>7. review \in BOOLEAN
    BY <1>4
  <1>8. \/ outcome.period = Null
        \/ outcome.period = place /\ \E x \in DOMAIN periods : latest = {x}
    BY <1>5
  <1>9. (\E x \in DOMAIN periods : latest = {x}) => place \in Nat
    BY <1>2
  <1>10. outcome.period \in Nat \cup {Null}
    BY <1>8, <1>9
  <1>11. outcome.status \in {"UNKNOWN", "CONFLICTING_EVIDENCE", verdict}
    BY <1>5
  <1>12. outcome.status \in Fin!Verdict
    BY <1>6, <1>11 DEF Fin!Verdict
  <1>13. outcome.review = TRUE \/ outcome.review = review
    BY <1>5
  <1>14. QED
    BY <1>1, <1>7, <1>10, <1>12, <1>13

LEMMA FinInitTyping == Fin!Init => FinTyping
  <1> SUFFICES ASSUME Fin!Init PROVE FinTyping
    OBVIOUS
  <1>1. DOMAIN finRuns = {} /\ DOMAIN finJobs = {}
    BY DEF Fin!Init
  <1>2. \A q \in Fin!Requirements : Len(finRules[q]) <= MaxVersions
    BY EvaluationsAssumption DEF Fin!Init
  <1>3. \A c \in Clients : FinRequestFits(finRequest[c])
    BY DEF Fin!Init, FinRequestFits, Fin!Idle
  <1>4. QED
    BY <1>1, <1>2, <1>3 DEF FinTyping

\* A step that leaves rules, runs and jobs alone, and writes at most what a request read.
LEMMA ReadingKeepsFinTyping ==
    ASSUME FinInv, FinTyping, NEW c \in Clients, NEW r, FinRequestFits(r),
           finRequest' = [finRequest EXCEPT ![c] = r], UNCHANGED <<finRules, finRuns, finJobs>>
    PROVE  FinTyping'
  <1>1. \A x \in Clients : finRequest'[x] = finRequest[x] \/ finRequest'[x] = r
    BY DEF FinInv, FinRows
  <1>2. \A x \in Clients : FinRequestFits(finRequest'[x])
    BY <1>1 DEF FinTyping
  <1>3. QED
    BY <1>2 DEF FinTyping

LEMMA BeginCreateKeepsFinTyping ==
    ASSUME FinInv, FinTyping, NEW c \in Clients, NEW snapshot, NEW force, Fin!BeginCreate(c, snapshot, force)
    PROVE  FinTyping'
  <1>1. PICK base : base = [q \in Fin!Requirements |-> Len(finRules[q])]
    OBVIOUS
  <1>2. PICK r : r = [op |-> "create", snapshot |-> snapshot, versions |-> Fin!Versions,
                      added |-> Fin!Added, base |-> base]
    OBVIOUS
  <1>3. finRequest' = [finRequest EXCEPT ![c] = r] /\ UNCHANGED <<finRules, finRuns, finJobs>>
    BY <1>1, <1>2 DEF Fin!BeginCreate
  <1>4. r.added = Fin!Added /\ r.base = base
    BY <1>2
  <1>5. ASSUME NEW q \in DOMAIN r.added PROVE r.base[q] + Len(r.added[q]) <= MaxVersions
    <2>1. q \in Fin!Requirements /\ finRules[q] = <<>>
      BY <1>4, <1>5 DEF Fin!Added
    <2>2. Len(r.added[q]) = 1
      BY <1>4, <1>5, Single DEF Fin!Added
    <2>3. r.base[q] = 0
      BY <1>1, <1>4, <2>1
    <2>4. QED
      BY <2>2, <2>3, EvaluationsAssumption
  <1>6. FinRequestFits(r)
    BY <1>5 DEF FinRequestFits
  <1>7. QED
    BY <1>3, <1>6, ReadingKeepsFinTyping

LEMMA BeginUpdateKeepsFinTyping ==
    ASSUME FinInv, FinTyping, NEW c \in Clients, NEW q \in Fin!Requirements, NEW update,
           Fin!BeginUpdate(c, q, update)
    PROVE  FinTyping'
  <1> DEFINE latest == IF finRules[q] = <<>> THEN Fin!Added[q] ELSE finRules[q]
  <1>1. PICK first, rule : /\ first = IF finRules[q] = <<>> THEN Fin!Added[q] ELSE <<>>
                           /\ rule = Fin!Override(Fin!Last(latest), update)
    OBVIOUS
  <1>2. PICK added, base : /\ added = [p \in {q} |-> first \o <<rule>>]
                           /\ base = [p \in {q} |-> Len(finRules[q])]
    OBVIOUS
  <1>3. PICK r : r = [op |-> "update", base |-> base, added |-> added]
    OBVIOUS
  <1>4. finRequest' = [finRequest EXCEPT ![c] =
           [op |-> "update", base |-> [p \in {q} |-> Len(finRules[q])],
            added |-> [p \in {q} |-> (IF finRules[q] = <<>> THEN latest ELSE <<>>)
                                        \o <<Fin!Override(Fin!Last(latest), update)>>]]]
    BY DEF Fin!BeginUpdate
  <1>5. first = (IF finRules[q] = <<>> THEN latest ELSE <<>>)
    BY <1>1
  <1>6. Len(latest) < MaxVersions /\ UNCHANGED <<finRules, finRuns, finJobs>>
    BY DEF Fin!BeginUpdate
  <1>7. /\ finRules[q] = <<>> => Len(Fin!Added[q]) < MaxVersions
        /\ finRules[q] # <<>> => Len(finRules[q]) < MaxVersions
    BY <1>6
  <1> HIDE DEF latest
  <1>8. finRequest' = [finRequest EXCEPT ![c] = r]
    BY <1>1, <1>2, <1>3, <1>4, <1>5
  <1>9. r.added = added /\ r.base = base
    BY <1>3
  <1>10. PICK rows : rows = finRules[q] /\ IsSequence(rows)
    BY DEF FinInv, FinRows
  <1>11. Len(rows) + Len(first \o <<rule>>) <= MaxVersions
    <2>1. CASE rows = <<>>
      <3>1. PICK new : Fin!Added[q] = <<new>>
        BY <1>10, <2>1 DEF Fin!Added
      <3>2. first \o <<rule>> = <<new>> \o <<rule>>
        BY <1>1, <1>10, <2>1, <3>1
      <3>3. Len(<<new>> \o <<rule>>) = 2 /\ Len(rows) = 0 /\ Len(<<new>>) = 1
        BY <2>1
      <3>4. 1 < MaxVersions
        BY <1>7, <1>10, <2>1, <3>1, <3>3
      <3>5. QED
        BY <3>2, <3>3, <3>4, EvaluationsAssumption
    <2>2. CASE rows # <<>>
      <3>1. first \o <<rule>> = <<rule>> /\ Len(<<rule>>) = 1
        BY <1>1, <1>10, <2>2
      <3>2. Len(rows) \in Nat
        BY <1>10, LenProperties DEF IsSequence
      <3>3. Len(rows) < MaxVersions
        BY <1>7, <1>10, <2>2
      <3>4. QED
        BY <3>1, <3>2, <3>3, EvaluationsAssumption
    <2>3. QED
      BY <2>1, <2>2
  <1>12. FinRequestFits(r)
    BY <1>2, <1>9, <1>10, <1>11 DEF FinRequestFits
  <1>13. QED
    BY <1>6, <1>8, <1>12, ReadingKeepsFinTyping

LEMMA RequestsKeepFinTyping ==
    ASSUME FinInv, FinTyping, NEW c \in Clients,
           \/ \E x \in DOMAIN finRuns : Fin!BeginRetry(c, x)
           \/ \E q \in Fin!Requirements : Fin!BeginRead(c, q)
           \/ Fin!Refused(c)
    PROVE  FinTyping'
  <1>1. CASE \E x \in DOMAIN finRuns : Fin!BeginRetry(c, x)
    <2>1. PICK x \in DOMAIN finRuns : Fin!BeginRetry(c, x)
      BY <1>1
    <2>2. PICK r : finRequest' = [finRequest EXCEPT ![c] = r] /\ r = [op |-> "retry", run |-> x]
      BY <2>1 DEF Fin!BeginRetry
    <2>3. FinRequestFits(r)
      BY <2>2 DEF FinRequestFits
    <2>4. QED
      BY <2>1, <2>2, <2>3, ReadingKeepsFinTyping DEF Fin!BeginRetry
  <1>2. CASE \E q \in Fin!Requirements : Fin!BeginRead(c, q)
    <2>1. PICK q \in Fin!Requirements : Fin!BeginRead(c, q)
      BY <1>2
    <2>2. PICK added, base : /\ added = [p \in {q} |-> Fin!Added[q]]
                             /\ base = [p \in {q} |-> 0]
      OBVIOUS
    <2>3. PICK r : r = [op |-> "update", base |-> base, added |-> added]
      OBVIOUS
    <2>4. finRequest' = [finRequest EXCEPT ![c] = r] /\ UNCHANGED <<finRules, finRuns, finJobs>>
      BY <2>1, <2>2, <2>3 DEF Fin!BeginRead
    <2>5. r.added = added /\ r.base = base
      BY <2>3
    <2>6. Len(Fin!Added[q]) = 1
      BY <2>1, Single DEF Fin!BeginRead, Fin!Added
    <2>7. \A p \in DOMAIN r.added : r.base[p] = 0 /\ Len(r.added[p]) = 1
      BY <2>2, <2>5, <2>6
    <2>8. 0 + 1 <= MaxVersions
      BY EvaluationsAssumption
    <2>9. FinRequestFits(r)
      BY <2>7, <2>8 DEF FinRequestFits
    <2>10. QED
      BY <2>4, <2>9, ReadingKeepsFinTyping
  <1>3. CASE Fin!Refused(c)
    <2>1. FinRequestFits(Fin!Idle)
      BY DEF FinRequestFits, Fin!Idle
    <2>2. QED
      BY <1>3, <2>1, ReadingKeepsFinTyping DEF Fin!Refused
  <1>4. QED
    BY <1>1, <1>2, <1>3

\* A commit adds to a rule what its request has read room for.
LEMMA AddingFits ==
    ASSUME FinInv, FinTyping, NEW r, FinRequestOK(r), FinRequestFits(r), r.op \in {"create", "update"},
           Fin!Fits(r), finRules' = Fin!WithAdded(r)
    PROVE  \A q \in Fin!Requirements : Len(finRules'[q]) <= MaxVersions
  <1> SUFFICES ASSUME NEW q \in Fin!Requirements PROVE Len(finRules'[q]) <= MaxVersions
    OBVIOUS
  <1>1. PICK s, t : /\ s = finRules[q] /\ t = (IF q \in DOMAIN r.added THEN r.added[q] ELSE <<>>)
                    /\ finRules'[q] = s \o t
    BY DEF Fin!WithAdded
  <1>2. IsSequence(s) /\ IsSequence(t)
    BY <1>1 DEF FinInv, FinRows, FinRequestOK, IsSequence
  <1>3. Len(s \o t) = Len(s) + Len(t) /\ Len(s) \in Nat /\ Len(t) \in Nat
    <2>1. PICK S : s \in Seq(S)
      BY <1>2 DEF IsSequence
    <2>2. PICK T : t \in Seq(T)
      BY <1>2 DEF IsSequence
    <2>3. s \in Seq(S \cup T) /\ t \in Seq(S \cup T)
      BY <2>1, <2>2
    <2>4. QED
      BY <2>3
  <1>4. CASE q \in DOMAIN r.added
    <2>1. Len(s) = r.base[q] /\ r.base[q] + Len(t) <= MaxVersions
      BY <1>1, <1>4 DEF Fin!Fits, FinRequestFits
    <2>2. Len(finRules'[q]) = Len(s) + Len(t)
      BY <1>1, <1>3
    <2>3. QED
      BY <2>1, <2>2, Zenon
  <1>5. CASE q \notin DOMAIN r.added
    <2>1. t = <<>> /\ Len(s) <= MaxVersions
      BY <1>1, <1>5 DEF FinTyping
    <2>2. Len(t) = 0
      BY <2>1
    <2>3. Len(s) + 0 = Len(s)
      BY <1>3
    <2>4. Len(finRules'[q]) = Len(s) + Len(t)
      BY <1>1, <1>3
    <2>5. QED
      BY <2>1, <2>2, <2>3, <2>4, Zenon
  <1>6. QED
    BY <1>4, <1>5

\* Runs, jobs and requests are created, or replaced.
LEMMA FinChangesKeepTyping ==
    ASSUME FinInv, FinTyping, \A q \in Fin!Requirements : Len(finRules'[q]) <= MaxVersions,
           DOMAIN finJobs \subseteq DOMAIN finJobs',
           \A x \in DOMAIN finRuns' :
              \/ x \in DOMAIN finRuns /\ finRuns'[x] = finRuns[x]
              \/ FinRunFits(finRuns'[x]) /\ finRuns'[x].job \in DOMAIN finJobs',
           \A j \in DOMAIN finJobs' :
              finJobs'[j].status \in Fin!JobStatus \/ (j \in DOMAIN finJobs /\ finJobs'[j] = finJobs[j]),
           \A c \in Clients : finRequest'[c] = finRequest[c] \/ finRequest'[c] = Fin!Idle
    PROVE  FinTyping'
  <1>1. \A x \in DOMAIN finRuns' : FinRunFits(finRuns'[x]) /\ finRuns'[x].job \in DOMAIN finJobs'
    BY DEF FinTyping
  <1>2. \A j \in DOMAIN finJobs' : finJobs'[j].status \in Fin!JobStatus
    BY DEF FinTyping
  <1>3. FinRequestFits(Fin!Idle)
    BY DEF FinRequestFits, Fin!Idle
  <1>4. \A c \in Clients : FinRequestFits(finRequest'[c])
    BY <1>3 DEF FinTyping
  <1>5. QED
    BY <1>1, <1>2, <1>4 DEF FinTyping

LEMMA FinNewJobFits ==
    ASSUME FinInv, NEW run, NEW snapshot, finJobs' = Append(finJobs, Fin!NewJob(run, snapshot))
    PROVE  /\ DOMAIN finJobs \subseteq DOMAIN finJobs' /\ Len(finJobs) + 1 \in DOMAIN finJobs'
           /\ \A j \in DOMAIN finJobs' :
                 finJobs'[j].status \in Fin!JobStatus \/ (j \in DOMAIN finJobs /\ finJobs'[j] = finJobs[j])
  <1>1. PICK job : job = Fin!NewJob(run, snapshot)
    OBVIOUS
  <1>2. job.status \in Fin!JobStatus
    BY <1>1 DEF Fin!NewJob, Fin!JobStatus
  <1>3. /\ Len(finJobs) \in Nat /\ DOMAIN finJobs = 1 .. Len(finJobs)
        /\ DOMAIN finJobs' = 1 .. (Len(finJobs) + 1) /\ finJobs'[Len(finJobs) + 1] = job
        /\ \A j \in 1 .. Len(finJobs) : finJobs'[j] = finJobs[j]
    BY <1>1, Appended DEF FinInv, FinRows
  <1>4. DOMAIN finJobs \subseteq DOMAIN finJobs' /\ Len(finJobs) + 1 \in DOMAIN finJobs'
    BY <1>3
  <1>5. \A j \in DOMAIN finJobs' : finJobs'[j] = job \/ (j \in DOMAIN finJobs /\ finJobs'[j] = finJobs[j])
    BY <1>3
  <1>6. QED
    BY <1>2, <1>4, <1>5

LEMMA CommitUpdateKeepsFinTyping ==
    ASSUME FinInv, FinTyping, NEW c \in Clients, Fin!CommitUpdate(c)
    PROVE  FinTyping'
  <1>1. PICK r : r = finRequest[c] /\ r.op = "update" /\ FinRequestOK(r) /\ FinRequestFits(r)
    BY DEF Fin!CommitUpdate, FinInv, FinTyping
  <1>2. Fin!Fits(r) /\ finRules' = Fin!WithAdded(r) /\ r.op \in {"create", "update"}
    BY <1>1 DEF Fin!CommitUpdate
  <1>3. \A q \in Fin!Requirements : Len(finRules'[q]) <= MaxVersions
    BY <1>1, <1>2, AddingFits
  <1>4. UNCHANGED <<finRuns, finJobs>>
    BY DEF Fin!CommitUpdate
  <1>5. \A x \in Clients : finRequest'[x] = finRequest[x] \/ finRequest'[x] = Fin!Idle
    BY DEF Fin!CommitUpdate, FinInv, FinRows
  <1>6. QED
    BY <1>3, <1>4, <1>5, FinChangesKeepTyping

LEMMA CommitCreateKeepsFinTyping ==
    ASSUME FinInv, FinTyping, NEW c \in Clients, Fin!CommitCreate(c)
    PROVE  FinTyping'
  <1>1. PICK r : r = finRequest[c] /\ r.op = "create" /\ FinRequestOK(r) /\ FinRequestFits(r)
    BY DEF Fin!CommitCreate, FinInv, FinTyping
  <1>2. Fin!Fits(r) /\ finRules' = Fin!WithAdded(r) /\ r.op \in {"create", "update"}
    BY <1>1 DEF Fin!CommitCreate
  <1>3. \A q \in Fin!Requirements : Len(finRules'[q]) <= MaxVersions
    BY <1>1, <1>2, AddingFits
  <1>4. PICK run : run = Fin!NewRun(r)
    OBVIOUS
  <1>5. finRuns' = Append(finRuns, run) /\ finJobs' = Append(finJobs, Fin!NewJob(Len(finRuns) + 1, r.snapshot))
    BY <1>1, <1>4 DEF Fin!CommitCreate
  <1>6. run.status = "PENDING" /\ run.job = Len(finJobs) + 1 /\ run.results = <<>>
    BY <1>4 DEF Fin!NewRun
  <1>7. FinRunFits(run)
    BY <1>6 DEF FinRunFits, Fin!JobStatus
  <1>8. /\ DOMAIN finJobs \subseteq DOMAIN finJobs' /\ Len(finJobs) + 1 \in DOMAIN finJobs'
        /\ \A j \in DOMAIN finJobs' :
              finJobs'[j].status \in Fin!JobStatus \/ (j \in DOMAIN finJobs /\ finJobs'[j] = finJobs[j])
    BY <1>5, FinNewJobFits
  <1>9. /\ Len(finRuns) \in Nat /\ DOMAIN finRuns = 1 .. Len(finRuns)
        /\ DOMAIN finRuns' = 1 .. (Len(finRuns) + 1) /\ finRuns'[Len(finRuns) + 1] = run
        /\ \A x \in 1 .. Len(finRuns) : finRuns'[x] = finRuns[x]
    BY <1>5, Appended DEF FinInv, FinRows
  <1>10. \A x \in DOMAIN finRuns' : finRuns'[x] = run \/ (x \in DOMAIN finRuns /\ finRuns'[x] = finRuns[x])
    BY <1>9
  <1>11. \A x \in DOMAIN finRuns' :
            \/ x \in DOMAIN finRuns /\ finRuns'[x] = finRuns[x]
            \/ FinRunFits(finRuns'[x]) /\ finRuns'[x].job \in DOMAIN finJobs'
    BY <1>6, <1>7, <1>8, <1>10
  <1>12. \A x \in Clients : finRequest'[x] = finRequest[x] \/ finRequest'[x] = Fin!Idle
    BY DEF Fin!CommitCreate, FinInv, FinRows
  <1>13. QED
    BY <1>3, <1>8, <1>11, <1>12, FinChangesKeepTyping

\* One run is replaced by one that fits, with its job or another.
LEMMA RunReplacedKeepsFinTyping ==
    ASSUME FinInv, FinTyping, UNCHANGED finRules, NEW x \in DOMAIN finRuns, NEW run,
           finRuns' = [finRuns EXCEPT ![x] = run], FinRunFits(run), run.job \in DOMAIN finJobs',
           DOMAIN finJobs \subseteq DOMAIN finJobs',
           \A j \in DOMAIN finJobs' :
              finJobs'[j].status \in Fin!JobStatus \/ (j \in DOMAIN finJobs /\ finJobs'[j] = finJobs[j]),
           \A c \in Clients : finRequest'[c] = finRequest[c] \/ finRequest'[c] = Fin!Idle
    PROVE  FinTyping'
  <1>1. /\ DOMAIN finRuns' = DOMAIN finRuns /\ finRuns'[x] = run
        /\ \A y \in DOMAIN finRuns \ {x} : finRuns'[y] = finRuns[y]
    BY Replaced DEF FinInv, FinRows
  <1>2. \A y \in DOMAIN finRuns' :
           \/ y \in DOMAIN finRuns /\ finRuns'[y] = finRuns[y]
           \/ FinRunFits(finRuns'[y]) /\ finRuns'[y].job \in DOMAIN finJobs'
    BY <1>1
  <1>3. \A q \in Fin!Requirements : Len(finRules'[q]) <= MaxVersions
    BY DEF FinTyping
  <1>4. QED
    BY <1>2, <1>3, FinChangesKeepTyping

LEMMA CommitRetryKeepsFinTyping ==
    ASSUME FinInv, FinTyping, NEW c \in Clients, Fin!CommitRetry(c)
    PROVE  FinTyping'
  <1>1. PICK x \in DOMAIN finRuns : x = finRequest[c].run
    BY DEF Fin!CommitRetry, FinInv, FinRequestOK
  <1>2. PICK old : old = finRuns[x] /\ RunOK(old) /\ FinRunFits(old)
    BY DEF FinInv, FinTyping
  <1>3. PICK run : run = [old EXCEPT !.status = "PENDING", !.job = Len(finJobs) + 1]
    OBVIOUS
  <1>4. /\ finRuns' = [finRuns EXCEPT ![x] = run] /\ finJobs' = Append(finJobs, Fin!NewJob(x, old.snapshot))
        /\ UNCHANGED finRules
    BY <1>1, <1>2, <1>3 DEF Fin!CommitRetry
  <1>5. run.status = "PENDING" /\ run.job = Len(finJobs) + 1 /\ run.results = old.results
    BY <1>2, <1>3 DEF RunOK, FinRunFields
  <1>6. FinRunFits(run)
    BY <1>2, <1>5 DEF FinRunFits, Fin!JobStatus
  <1>7. /\ DOMAIN finJobs \subseteq DOMAIN finJobs' /\ Len(finJobs) + 1 \in DOMAIN finJobs'
        /\ \A j \in DOMAIN finJobs' :
              finJobs'[j].status \in Fin!JobStatus \/ (j \in DOMAIN finJobs /\ finJobs'[j] = finJobs[j])
    BY <1>4, FinNewJobFits
  <1>8. \A y \in Clients : finRequest'[y] = finRequest[y] \/ finRequest'[y] = Fin!Idle
    BY DEF Fin!CommitRetry, FinInv, FinRows
  <1>9. run.job \in DOMAIN finJobs'
    BY <1>5, <1>7
  <1>10. QED
    BY <1>4, <1>6, <1>7, <1>8, <1>9, RunReplacedKeepsFinTyping

LEMMA ReviewKeepsFinTyping ==
    ASSUME FinInv, FinTyping, NEW c \in Clients, NEW x \in DOMAIN finRuns, NEW q, NEW verdict \in Fin!Verdict,
           Fin!Review(c, x, q, verdict)
    PROVE  FinTyping'
  <1>1. PICK old : old = finRuns[x] /\ RunOK(old) /\ FinRunFits(old)
    BY DEF FinInv, FinTyping
  <1>2. PICK was : q \in DOMAIN old.results /\ was = old.results[q] /\ was \in Fin!Result
    BY <1>1 DEF Fin!Review, FinRunFits
  <1>3. PICK result, results :
          /\ result = [was EXCEPT !.reviewed = verdict]
          /\ results = [old.results EXCEPT ![q] = result]
    OBVIOUS
  <1>4. PICK run : run = [old EXCEPT !.results = results]
    OBVIOUS
  <1>5. finRuns' = [finRuns EXCEPT ![x] = run]
    BY <1>1, <1>2, <1>3, <1>4 DEF Fin!Review
  <1>6. result \in Fin!Result
    BY <1>2, <1>3 DEF Fin!Result
  <1>7. \A p \in DOMAIN results : results[p] \in Fin!Result
    BY <1>1, <1>3, <1>6 DEF FinRunFits
  <1>8. run.results = results /\ run.status = old.status /\ run.job = old.job
    BY <1>1, <1>4 DEF RunOK, FinRunFields
  <1>9. FinRunFits(run)
    BY <1>1, <1>7, <1>8 DEF FinRunFits
  <1>10. UNCHANGED <<finRules, finJobs, finRequest>>
    BY DEF Fin!Review
  <1>11. run.job \in DOMAIN finJobs'
    BY <1>1, <1>8, <1>10 DEF FinTyping
  <1>12. QED
    BY <1>5, <1>9, <1>10, <1>11, RunReplacedKeepsFinTyping

LEMMA FinClaimKeepsTyping ==
    ASSUME FinInv, FinTyping, NEW w \in FinWorkers, Fin!Claim(w)
    PROVE  FinTyping'
  <1>1. PICK j \in DOMAIN finJobs :
          /\ finJobs' = [finJobs EXCEPT ![j].status = "PROCESSING"]
          /\ finRuns' = [finRuns EXCEPT ![finJobs[j].run].status = "PROCESSING"]
          /\ UNCHANGED <<finRules, finRequest>>
    BY DEF Fin!Claim
  <1>2. PICK x \in DOMAIN finRuns : x = finJobs[j].run
    BY <1>1 DEF FinInv, FinLinks
  <1>3. PICK was, old : /\ was = finJobs[j] /\ DOMAIN was = FinJobFields
                        /\ old = finRuns[x] /\ RunOK(old) /\ FinRunFits(old)
    BY <1>1, <1>2 DEF FinInv, FinRows, FinTyping
  <1>4. PICK job, run : /\ job = [was EXCEPT !.status = "PROCESSING"]
                        /\ run = [old EXCEPT !.status = "PROCESSING"]
    OBVIOUS
  <1>5. job.status = "PROCESSING"
    BY <1>3, <1>4 DEF FinJobFields
  <1>6. run.status = "PROCESSING" /\ run.job = old.job /\ run.results = old.results
    BY <1>3, <1>4 DEF RunOK, FinRunFields
  <1>7. finJobs' = [finJobs EXCEPT ![j] = job] /\ finRuns' = [finRuns EXCEPT ![x] = run]
    BY <1>1, <1>2, <1>3, <1>4
  <1>8. FinRunFits(run)
    BY <1>3, <1>6 DEF FinRunFits, Fin!JobStatus
  <1>9. /\ DOMAIN finJobs' = DOMAIN finJobs /\ finJobs'[j] = job
        /\ \A i \in DOMAIN finJobs \ {j} : finJobs'[i] = finJobs[i]
    BY <1>7, Replaced DEF FinInv, FinRows
  <1>10. \A i \in DOMAIN finJobs' :
            finJobs'[i].status \in Fin!JobStatus \/ (i \in DOMAIN finJobs /\ finJobs'[i] = finJobs[i])
    BY <1>5, <1>9 DEF Fin!JobStatus
  <1>11. run.job \in DOMAIN finJobs' /\ DOMAIN finJobs \subseteq DOMAIN finJobs'
    BY <1>3, <1>6, <1>9 DEF FinTyping
  <1>12. QED
    BY <1>1, <1>7, <1>8, <1>10, <1>11, RunReplacedKeepsFinTyping

LEMMA FinEndedKeepsTyping ==
    ASSUME FinInv, FinTyping, NEW w \in FinWorkers, finWorker[w] # Fin!Free, NEW status \in Fin!JobStatus,
           NEW results, Fin!Ended(w, status, results), \A q \in DOMAIN results : results[q] \in Fin!Result
    PROVE  FinTyping'
  <1>1. PICK j \in DOMAIN finJobs : j = finWorker[w].job
    BY DEF FinInv, FinHolders
  <1>2. PICK x \in DOMAIN finRuns : x = finJobs[j].run
    BY DEF FinInv, FinLinks
  <1>3. PICK was, old, date : /\ was = finJobs[j] /\ DOMAIN was = FinJobFields
                              /\ old = finRuns[x] /\ RunOK(old) /\ date = finWorker[w].closing
    BY DEF FinInv, FinRows
  <1>4. PICK job, run :
          /\ job = [was EXCEPT !.status = status]
          /\ run = [old EXCEPT !.status = status, !.results = results, !.closing = date]
    OBVIOUS
  <1>5. /\ finJobs' = [finJobs EXCEPT ![j] = job] /\ finRuns' = [finRuns EXCEPT ![x] = run]
        /\ UNCHANGED <<finRules, finRequest>>
    BY <1>1, <1>2, <1>3, <1>4 DEF Fin!Ended
  <1>6. job.status = status
    BY <1>3, <1>4 DEF FinJobFields
  <1>7. run.status = status /\ run.job = old.job /\ run.results = results
    BY <1>3, <1>4 DEF RunOK, FinRunFields
  <1>8. FinRunFits(run)
    BY <1>7 DEF FinRunFits
  <1>9. /\ DOMAIN finJobs' = DOMAIN finJobs /\ finJobs'[j] = job
        /\ \A i \in DOMAIN finJobs \ {j} : finJobs'[i] = finJobs[i]
    BY <1>5, Replaced DEF FinInv, FinRows
  <1>10. \A i \in DOMAIN finJobs' :
            finJobs'[i].status \in Fin!JobStatus \/ (i \in DOMAIN finJobs /\ finJobs'[i] = finJobs[i])
    BY <1>6, <1>9
  <1>11. run.job \in DOMAIN finJobs' /\ DOMAIN finJobs \subseteq DOMAIN finJobs'
    BY <1>3, <1>7, <1>9 DEF FinTyping
  <1>12. QED
    BY <1>5, <1>8, <1>10, <1>11, RunReplacedKeepsFinTyping

\* Every requirement has an outcome that fits a result.
LEMMA OutcomesFit ==
    ASSUME FinInv, NEW w \in FinWorkers, finWorker[w] # Fin!Free, NEW q \in Fin!Requirements
    PROVE  Fin!NewResult(Fin!Outcome(w)[q]) \in Fin!Result
  <1>1. PICK j \in DOMAIN finJobs : j = finWorker[w].job
    BY DEF FinInv, FinHolders
  <1>2. PICK x \in DOMAIN finRuns : x = finJobs[j].run
    BY DEF FinInv, FinLinks
  <1>3. PICK rule, periods, date :
          /\ rule = finRules[q][finRuns[x].versions[q]] /\ periods = FinSnapshots[finRuns[x].snapshot]
          /\ date = finWorker[w].closing
    OBVIOUS
  <1>4. PICK outcome : outcome = Fin!Evaluate(rule, periods, date) /\ Fin!Outcome(w)[q] = outcome
    BY <1>1, <1>2, <1>3 DEF Fin!Outcome, Fin!RuleOf
  <1>5. DOMAIN periods \subseteq Nat
    <2>1. finRuns[x].snapshot \in DOMAIN FinSnapshots
      BY DEF FinInv, RunOK
    <2>2. periods \in Seq(Range(periods))
      BY <1>3, <2>1, EvaluationsAssumption
    <2>3. QED
      BY <2>2
  <1>6. /\ outcome.status \in Fin!Verdict /\ outcome.period \in Nat \cup {Null}
        /\ outcome.review \in BOOLEAN
    BY <1>4, <1>5, FinEvaluateGivesVerdict
  <1>7. QED
    BY <1>4, <1>6 DEF Fin!NewResult, Fin!Result

LEMMA FinEndsKeepTyping ==
    ASSUME FinInv, FinTyping, NEW w \in FinWorkers, Fin!Complete(w) \/ Fin!Fail(w)
    PROVE  FinTyping'
  <1>1. finWorker[w] # Fin!Free
    BY DEF Fin!Complete, Fin!Fail
  <1>2. CASE Fin!Complete(w)
    <2>1. PICK status, results :
             /\ Fin!Ended(w, status, results) /\ status \in {"COMPLETED_WITH_WARNINGS", "COMPLETED"}
             /\ results = [q \in Fin!Requirements |-> Fin!NewResult(Fin!Outcome(w)[q])]
      BY <1>2 DEF Fin!Complete
    <2>2. \A q \in DOMAIN results : results[q] \in Fin!Result
      BY <1>1, <2>1, OutcomesFit
    <2>3. status \in Fin!JobStatus
      BY <2>1 DEF Fin!JobStatus
    <2>4. QED
      BY <1>1, <2>1, <2>2, <2>3, FinEndedKeepsTyping
  <1>3. CASE Fin!Fail(w)
    <2>1. PICK q, results :
             /\ q \in Fin!Requirements
             /\ Fin!Ended(w, "FAILED", results)
             /\ results = [p \in 1 .. q |-> Fin!NewResult(Fin!Outcome(w)[p])]
      BY <1>3 DEF Fin!Fail
    <2>2. \A p \in 1 .. q : p \in Fin!Requirements
      <3>1. PICK S : FinTexts \in Seq(S)
        BY EvaluationsAssumption DEF IsSequence
      <3>2. QED
        BY <2>1, <3>1 DEF Fin!Requirements
    <2>3. \A p \in DOMAIN results : results[p] \in Fin!Result
      BY <1>1, <2>1, <2>2, OutcomesFit
    <2>4. "FAILED" \in Fin!JobStatus
      BY DEF Fin!JobStatus
    <2>5. QED
      BY <1>1, <2>1, <2>3, <2>4, FinEndedKeepsTyping
  <1>4. QED
    BY <1>2, <1>3

LEMMA FinNextTyping == FinInv /\ FinTyping /\ [Fin!Next]_(Fin!vars) => FinTyping'
  <1> SUFFICES ASSUME FinInv, FinTyping, [Fin!Next]_(Fin!vars) PROVE FinTyping'
    OBVIOUS
  <1>1. CASE UNCHANGED <<finRules, finRuns, finJobs, finRequest>>
    BY <1>1 DEF FinTyping
  <1>2. (Fin!Synchronise \/ (\E w \in FinWorkers : Fin!Crash(w)) \/ UNCHANGED Fin!vars)
           => UNCHANGED <<finRules, finRuns, finJobs, finRequest>>
    BY DEF Fin!Synchronise, Fin!Crash, Fin!vars
  <1>3. ASSUME NEW c \in Clients, Fin!ClientStep(c) PROVE FinTyping'
    BY <1>3, BeginCreateKeepsFinTyping, BeginUpdateKeepsFinTyping, RequestsKeepFinTyping,
       CommitCreateKeepsFinTyping, CommitRetryKeepsFinTyping, CommitUpdateKeepsFinTyping,
       ReviewKeepsFinTyping DEF Fin!ClientStep
  <1>4. ASSUME NEW w \in FinWorkers, Fin!WorkerStep(w) PROVE FinTyping'
    BY <1>4, FinClaimKeepsTyping, FinEndsKeepTyping DEF Fin!WorkerStep
  <1>5. QED
    BY <1>1, <1>2, <1>3, <1>4 DEF Fin!Next

\* Runs, jobs and rules of the financial evaluations stay what their columns say: the versions
\* that a run names stay there, and no rule gets more versions than its requests had room for.
THEOREM FinancialTyping == Fin!Spec => []Fin!TypeOK
  <1>1. Fin!Init => FinTyping
    BY FinInitTyping
  <1>2. FinInv /\ FinTyping /\ [Fin!Next]_(Fin!vars) => FinTyping'
    BY FinNextTyping
  <1>3. FinInv /\ FinTyping => Fin!TypeOK
    BY DEF FinInv, FinRows, RunOK, FinLinks, FinHolders, FinTyping, FinRunFits, Fin!TypeOK
  <1>4. QED
    BY <1>1, <1>2, <1>3, FinInvariant, PTL DEF Fin!Spec

-----------------------------------------------------------------------------
(* What the columns of the specialized evaluation hold.                     *)

\* What the columns of a run and of its job may hold. A job that waits has an attempt
\* left, so that to claim it stays within max_attempts.
SpeJobFits(job) ==
    /\ job.status \in JobStatus
    /\ job.attempts \in Nat /\ job.attempts <= MaxAttempts
    /\ job.status = "PENDING" => job.attempts < MaxAttempts

SpeTyping ==
    /\ \A q \in Requirements : Len(rules[q]) <= MaxRows
    /\ \A x \in DOMAIN runs : runs[x].status \in JobStatus /\ runs[x].job \in DOMAIN jobs
    /\ \A j \in DOMAIN jobs : SpeJobFits(jobs[j])

\* Whatever the rule, the records and the date, an evaluation gives a verdict.
LEMMA EvaluateGivesVerdict == ASSUME NEW rule, NEW records, NEW day
                              PROVE  Evaluate(rule, records, day).status \in Verdict
  <1>1. \A resolution : VerdictOf(resolution) \in Verdict
    BY DEF VerdictOf, Verdict
  <1>2. CASE ~rule.mapped
    BY <1>2 DEF Evaluate, Verdict
  <1>3. CASE rule.mapped
    <2>1. PICK resolution : resolution = Resolve(rule, records, day)
      OBVIOUS
    <2>2. Evaluate(rule, records, day).status = VerdictOf(resolution)
      BY <1>3, <2>1 DEF Evaluate
    <2>3. QED
      BY <1>1, <2>2
  <1>4. QED
    BY <1>2, <1>3

LEMMA SpeInitTyping == Init => SpeTyping
  <1> SUFFICES ASSUME Init PROVE SpeTyping
    OBVIOUS
  <1>1. DOMAIN runs = {} /\ DOMAIN jobs = {}
    BY DEF Init
  <1>2. \A q \in Requirements : Len(rules[q]) <= MaxRows
    BY EvaluationsAssumption DEF Init
  <1>3. QED
    BY <1>1, <1>2 DEF SpeTyping

\* A run and a job are created, or replaced.
LEMMA SpeChangesKeepTyping ==
    ASSUME SpeTyping, \A q \in Requirements : Len(rules'[q]) <= MaxRows,
           DOMAIN jobs \subseteq DOMAIN jobs',
           \A x \in DOMAIN runs' :
              \/ x \in DOMAIN runs /\ runs'[x] = runs[x]
              \/ runs'[x].status \in JobStatus /\ runs'[x].job \in DOMAIN jobs',
           \A j \in DOMAIN jobs' : SpeJobFits(jobs'[j]) \/ (j \in DOMAIN jobs /\ jobs'[j] = jobs[j])
    PROVE  SpeTyping'
  <1>1. \A x \in DOMAIN runs' : runs'[x].status \in JobStatus /\ runs'[x].job \in DOMAIN jobs'
    BY DEF SpeTyping
  <1>2. \A j \in DOMAIN jobs' : SpeJobFits(jobs'[j])
    BY DEF SpeTyping
  <1>3. QED
    BY <1>1, <1>2 DEF SpeTyping

LEMMA SpeNewJobFits ==
    ASSUME SpeInv, NEW run, NEW snapshot, NEW domain,
           jobs' = Append(jobs, NewJob(run, snapshot, domain))
    PROVE  /\ DOMAIN jobs \subseteq DOMAIN jobs' /\ Len(jobs) + 1 \in DOMAIN jobs'
           /\ \A j \in DOMAIN jobs' : SpeJobFits(jobs'[j]) \/ (j \in DOMAIN jobs /\ jobs'[j] = jobs[j])
  <1>1. PICK job : job = NewJob(run, snapshot, domain)
    OBVIOUS
  <1>2. job.status = "PENDING" /\ job.attempts = 0
    BY <1>1 DEF NewJob
  <1>3. SpeJobFits(job)
    BY <1>2, EvaluationsAssumption DEF SpeJobFits, JobStatus
  <1>4. /\ Len(jobs) \in Nat /\ DOMAIN jobs = 1 .. Len(jobs)
        /\ DOMAIN jobs' = 1 .. (Len(jobs) + 1) /\ jobs'[Len(jobs) + 1] = job
        /\ \A j \in 1 .. Len(jobs) : jobs'[j] = jobs[j]
    BY <1>1, Appended DEF SpeInv, QueueInv, RowsOK
  <1>5. DOMAIN jobs \subseteq DOMAIN jobs' /\ Len(jobs) + 1 \in DOMAIN jobs'
    BY <1>4
  <1>6. \A j \in DOMAIN jobs' : jobs'[j] = job \/ (j \in DOMAIN jobs /\ jobs'[j] = jobs[j])
    BY <1>4
  <1>7. QED
    BY <1>3, <1>5, <1>6

LEMMA SpeCommitCreateKeepsTyping ==
    ASSUME SpeInv, SpeTyping, NEW c \in Clients, CommitCreate(c)
    PROVE  SpeTyping'
  <1>1. PICK r : r = request[c]
    OBVIOUS
  <1> DEFINE own == {q \in DOMAIN r.rows : r.rows[q] = 0}
  <1>2. /\ rules' = [q \in Requirements |-> IF q \in own THEN Append(rules[q], FirstRow(q)) ELSE rules[q]]
        /\ \A q \in own : Len(rules[q]) < MaxRows
    BY <1>1 DEF CommitCreate
  <1>3. PICK rows : rows = [q \in DOMAIN r.rows |-> IF q \in own THEN Len(rules[q]) + 1 ELSE r.rows[q]]
    OBVIOUS
  <1>4. PICK run : run = NewRun(r, rows)
    OBVIOUS
  <1>5. runs' = Append(runs, run) /\ jobs' = Append(jobs, NewJob(Len(runs) + 1, r.snapshot, r.domain))
    BY <1>1, <1>3, <1>4 DEF CommitCreate
  <1>6. run.status = "PENDING" /\ run.job = Len(jobs) + 1
    BY <1>4 DEF NewRun
  <1>7. /\ DOMAIN jobs \subseteq DOMAIN jobs' /\ Len(jobs) + 1 \in DOMAIN jobs'
        /\ \A j \in DOMAIN jobs' : SpeJobFits(jobs'[j]) \/ (j \in DOMAIN jobs /\ jobs'[j] = jobs[j])
    BY <1>5, SpeNewJobFits
  <1>8. /\ Len(runs) \in Nat /\ DOMAIN runs = 1 .. Len(runs)
        /\ DOMAIN runs' = 1 .. (Len(runs) + 1) /\ runs'[Len(runs) + 1] = run
        /\ \A x \in 1 .. Len(runs) : runs'[x] = runs[x]
    BY <1>5, Appended DEF SpeInv
  <1>9. \A x \in DOMAIN runs' : runs'[x] = run \/ (x \in DOMAIN runs /\ runs'[x] = runs[x])
    BY <1>8
  <1>10. ASSUME NEW q \in Requirements PROVE Len(rules'[q]) <= MaxRows
    <2>1. PICK s : s = rules[q] /\ IsSequence(s)
      BY DEF SpeInv
    <2>2. PICK S : s \in Seq(S)
      BY <2>1 DEF IsSequence
    <2>3. Len(s) \in Nat /\ Len(Append(s, FirstRow(q))) = Len(s) + 1
      BY <2>2
    <2>4. rules'[q] = IF q \in own THEN Append(s, FirstRow(q)) ELSE s
      BY <1>2, <2>1
    <2>5. CASE q \in own
      <3>1. Len(s) < MaxRows
        BY <1>2, <2>1, <2>5
      <3>2. QED
        BY <2>3, <2>4, <2>5, <3>1, EvaluationsAssumption
    <2>6. CASE q \notin own
      BY <2>1, <2>4, <2>6 DEF SpeTyping
    <2>7. QED
      BY <2>5, <2>6
  <1>11. \A x \in DOMAIN runs' :
            \/ x \in DOMAIN runs /\ runs'[x] = runs[x]
            \/ runs'[x].status \in JobStatus /\ runs'[x].job \in DOMAIN jobs'
    BY <1>6, <1>7, <1>9 DEF JobStatus
  <1>12. QED
    BY <1>7, <1>10, <1>11, SpeChangesKeepTyping

LEMMA SpeCommitRetryKeepsTyping ==
    ASSUME SpeInv, SpeTyping, NEW c \in Clients, CommitRetry(c)
    PROVE  SpeTyping'
  <1>1. PICK x \in DOMAIN runs : x = request[c].run
    BY DEF CommitRetry, SpeInv, SpeRequestOK
  <1>2. PICK old : old = runs[x] /\ SpeRunOK(old)
    BY DEF SpeInv
  <1>3. PICK run : run = [old EXCEPT !.status = "PENDING", !.job = Len(jobs) + 1]
    OBVIOUS
  <1>4. runs' = [runs EXCEPT ![x] = run] /\ UNCHANGED rules
    BY <1>1, <1>2, <1>3 DEF CommitRetry
  <1>5. run.status = "PENDING" /\ run.job = Len(jobs) + 1
    BY <1>2, <1>3 DEF SpeRunOK, RunFields
  <1>6. jobs' = Append(jobs, NewJob(x, old.snapshot, old.domain))
    BY <1>1, <1>2 DEF CommitRetry
  <1>7. /\ DOMAIN jobs \subseteq DOMAIN jobs' /\ Len(jobs) + 1 \in DOMAIN jobs'
        /\ \A j \in DOMAIN jobs' : SpeJobFits(jobs'[j]) \/ (j \in DOMAIN jobs /\ jobs'[j] = jobs[j])
    BY <1>6, SpeNewJobFits
  <1>8. /\ DOMAIN runs' = DOMAIN runs /\ runs'[x] = run
        /\ \A y \in DOMAIN runs \ {x} : runs'[y] = runs[y]
    BY <1>4, Replaced DEF SpeInv
  <1>9. \A y \in DOMAIN runs' :
           \/ y \in DOMAIN runs /\ runs'[y] = runs[y]
           \/ runs'[y].status \in JobStatus /\ runs'[y].job \in DOMAIN jobs'
    BY <1>5, <1>7, <1>8 DEF JobStatus
  <1>10. \A q \in Requirements : Len(rules'[q]) <= MaxRows
    BY <1>4 DEF SpeTyping
  <1>11. QED
    BY <1>7, <1>9, <1>10, SpeChangesKeepTyping

LEMMA SpeCommitUpdateKeepsTyping ==
    ASSUME SpeInv, SpeTyping, NEW c \in Clients, CommitUpdate(c)
    PROVE  SpeTyping'
  <1>1. PICK r : r = request[c] /\ r.op = "update" /\ SpeRequestOK(r)
    BY DEF CommitUpdate, SpeInv
  <1>2. PICK q, added : q \in Requirements /\ IsSequence(added) /\ q = r.requirement /\ added = r.added
    BY <1>1 DEF SpeRequestOK
  <1>3. /\ rules' = [rules EXCEPT ![q] = rules[q] \o added] /\ UNCHANGED <<runs, jobs>>
        /\ Len(rules[q]) + Len(added) <= MaxRows
    BY <1>1, <1>2 DEF CommitUpdate
  <1>4. Len(rules[q] \o added) = Len(rules[q]) + Len(added)
    <2>1. PICK s : s = rules[q] /\ IsSequence(s)
      BY <1>2 DEF SpeInv
    <2>2. PICK S : s \in Seq(S)
      BY <2>1 DEF IsSequence
    <2>3. PICK T : added \in Seq(T)
      BY <1>2 DEF IsSequence
    <2>4. s \in Seq(S \cup T) /\ added \in Seq(S \cup T)
      BY <2>2, <2>3
    <2>5. QED
      BY <2>1, <2>4
  <1>5. ASSUME NEW p \in Requirements PROVE Len(rules'[p]) <= MaxRows
    <2>1. CASE p = q
      BY <1>2, <1>3, <1>4, <2>1 DEF SpeInv
    <2>2. CASE p # q
      BY <1>3, <2>2 DEF SpeTyping, SpeInv
    <2>3. QED
      BY <2>1, <2>2
  <1>6. QED
    BY <1>3, <1>5 DEF SpeTyping

LEMMA SpeReviewKeepsTyping ==
    ASSUME SpeInv, SpeTyping, NEW c \in Clients, NEW x \in DOMAIN runs, NEW q, NEW verdict,
           Review(c, x, q, verdict)
    PROVE  SpeTyping'
  <1>1. PICK old : old = runs[x] /\ SpeRunOK(old)
    BY DEF SpeInv
  <1>2. PICK results : results = [old.results EXCEPT ![q].reviewed = verdict]
    OBVIOUS
  <1>3. PICK run : run = [old EXCEPT !.results = results]
    OBVIOUS
  <1>4. runs' = [runs EXCEPT ![x] = run] /\ UNCHANGED <<rules, jobs>>
    BY <1>1, <1>2, <1>3 DEF Review
  <1>5. run.status = old.status /\ run.job = old.job
    BY <1>1, <1>3 DEF SpeRunOK, RunFields
  <1>6. /\ DOMAIN runs' = DOMAIN runs /\ runs'[x] = run
        /\ \A y \in DOMAIN runs \ {x} : runs'[y] = runs[y]
    BY <1>4, Replaced DEF SpeInv
  <1>7. \A y \in DOMAIN runs' : runs'[y].status = runs[y].status /\ runs'[y].job = runs[y].job
    BY <1>1, <1>5, <1>6
  <1>8. QED
    BY <1>4, <1>6, <1>7 DEF SpeTyping

\* A worker moves one job and its run to a state of a job.
LEMMA SpeMovedKeepsTyping ==
    ASSUME SpeInv, SpeTyping, NEW j \in DOMAIN jobs, NEW x \in DOMAIN runs, NEW job, NEW run,
           jobs' = [jobs EXCEPT ![j] = job], runs' = [runs EXCEPT ![x] = run], UNCHANGED rules,
           SpeJobFits(job), run.status \in JobStatus, run.job = runs[x].job
    PROVE  SpeTyping'
  <1>1. /\ DOMAIN jobs' = DOMAIN jobs /\ jobs'[j] = job
        /\ \A i \in DOMAIN jobs \ {j} : jobs'[i] = jobs[i]
    BY Replaced DEF SpeInv, QueueInv, RowsOK
  <1>2. /\ DOMAIN runs' = DOMAIN runs /\ runs'[x] = run
        /\ \A y \in DOMAIN runs \ {x} : runs'[y] = runs[y]
    BY Replaced DEF SpeInv
  <1>3. \A i \in DOMAIN jobs' : SpeJobFits(jobs'[i]) \/ (i \in DOMAIN jobs /\ jobs'[i] = jobs[i])
    BY <1>1
  <1>4. run.job \in DOMAIN jobs'
    BY <1>1 DEF SpeTyping
  <1>5. \A y \in DOMAIN runs' :
           \/ y \in DOMAIN runs /\ runs'[y] = runs[y]
           \/ runs'[y].status \in JobStatus /\ runs'[y].job \in DOMAIN jobs'
    BY <1>2, <1>4
  <1>6. \A q \in Requirements : Len(rules'[q]) <= MaxRows
    BY DEF SpeTyping
  <1>7. DOMAIN jobs \subseteq DOMAIN jobs'
    BY <1>1
  <1>8. QED
    BY <1>3, <1>5, <1>6, <1>7, SpeChangesKeepTyping

LEMMA SpeClaimKeepsTyping ==
    ASSUME SpeInv, SpeTyping, NEW w \in Workers, Claim(w)
    PROVE  SpeTyping'
  <1>1. PICK j \in DOMAIN jobs :
           /\ jobs[j].status = "PENDING"
           /\ jobs' = [jobs EXCEPT ![j].status = "PROCESSING", ![j].attempts = @ + 1]
           /\ runs' = [runs EXCEPT ![jobs[j].run].status = "PROCESSING"]
           /\ UNCHANGED rules
    BY DEF Claim
  <1>2. PICK x \in DOMAIN runs : x = jobs[j].run
    BY DEF SpeInv
  <1>3. PICK old, was : old = runs[x] /\ SpeRunOK(old) /\ was = jobs[j] /\ DOMAIN was = JobFields
    BY DEF SpeInv, QueueInv, RowsOK
  <1>4. PICK tries : tries = was.attempts + 1
    OBVIOUS
  <1>5. PICK run, job : /\ run = [old EXCEPT !.status = "PROCESSING"]
                        /\ job = [was EXCEPT !.status = "PROCESSING", !.attempts = tries]
    OBVIOUS
  <1>6. runs' = [runs EXCEPT ![x] = run]
    BY <1>1, <1>2, <1>3, <1>5
  <1>7. jobs' = [jobs EXCEPT ![j] = job]
    BY <1>1, <1>3, <1>4, <1>5
  <1>8. run.status = "PROCESSING" /\ run.job = old.job
    BY <1>3, <1>5 DEF SpeRunOK, RunFields
  <1>9. job.status = "PROCESSING" /\ job.attempts = tries
    BY <1>3, <1>5 DEF JobFields
  <1>10. was.attempts \in Nat /\ was.attempts < MaxAttempts
    BY <1>1, <1>3 DEF SpeTyping, SpeJobFits
  <1>11. SpeJobFits(job)
    BY <1>4, <1>9, <1>10, EvaluationsAssumption DEF SpeJobFits, JobStatus
  <1>12. run.status \in JobStatus /\ run.job = runs[x].job
    BY <1>3, <1>8 DEF JobStatus
  <1>13. SpeInv /\ SpeTyping /\ UNCHANGED rules
    BY <1>1
  <1>14. QED
    BY ONLY <1>6, <1>7, <1>11, <1>12, <1>13, SpeMovedKeepsTyping

\* The end of an attempt: a job goes back to the queue only while attempts are left.
LEMMA SpeEndedKeepsTyping ==
    ASSUME SpeInv, SpeTyping, NEW w \in Workers, worker[w] # 0, NEW status \in JobStatus, NEW results,
           Ended(w, status, results), status = "PENDING" => jobs[worker[w]].attempts < MaxAttempts
    PROVE  SpeTyping'
  <1>1. PICK j \in DOMAIN jobs : j = worker[w]
    BY DEF SpeInv, QueueInv, HeldOK
  <1>2. PICK x \in DOMAIN runs : x = jobs[j].run
    BY DEF SpeInv
  <1>3. PICK old, was : old = runs[x] /\ SpeRunOK(old) /\ was = jobs[j] /\ DOMAIN was = JobFields
    BY DEF SpeInv, QueueInv, RowsOK
  <1>4. PICK run, job : /\ run = [old EXCEPT !.status = status, !.results = results]
                        /\ job = [was EXCEPT !.status = status]
    OBVIOUS
  <1>5. runs' = [runs EXCEPT ![x] = run] /\ jobs' = [jobs EXCEPT ![j] = job] /\ UNCHANGED rules
    BY <1>1, <1>2, <1>3, <1>4 DEF Ended
  <1>6. run.status = status /\ run.job = old.job
    BY <1>3, <1>4 DEF SpeRunOK, RunFields
  <1>7. job.status = status /\ job.attempts = was.attempts
    BY <1>3, <1>4 DEF JobFields
  <1>8. SpeJobFits(was)
    BY <1>3 DEF SpeTyping
  <1>9. SpeJobFits(job)
    BY <1>1, <1>3, <1>7, <1>8 DEF SpeJobFits
  <1>10. run.status \in JobStatus /\ run.job = runs[x].job
    BY <1>3, <1>6
  <1>11. QED
    BY <1>5, <1>9, <1>10, SpeMovedKeepsTyping

LEMMA SpeWorkersKeepTyping ==
    ASSUME SpeInv, SpeTyping, NEW w \in Workers, WorkerStep(w)
    PROVE  SpeTyping'
  <1>1. CASE Claim(w)
    BY <1>1, SpeClaimKeepsTyping
  <1>2. CASE Complete(w)
    <2>1. PICK status \in {"COMPLETED_WITH_WARNINGS", "COMPLETED"} : \E results : Ended(w, status, results)
      BY <1>2 DEF Complete
    <2>2. status \in JobStatus /\ status # "PENDING" /\ worker[w] # 0
      BY <1>2 DEF Complete, JobStatus
    <2>3. QED
      BY <2>1, <2>2, SpeEndedKeepsTyping
  <1>3. CASE Fail(w)
    <2>1. PICK tries : tries = jobs[worker[w]].attempts
      OBVIOUS
    <2>2. PICK status : status = (IF tries < MaxAttempts THEN "PENDING" ELSE "FAILED")
      OBVIOUS
    <2>3. PICK results : Ended(w, status, results)
      BY <1>3, <2>1, <2>2 DEF Fail
    <2>4. status \in JobStatus /\ (status = "PENDING" => tries < MaxAttempts)
      BY <2>2 DEF JobStatus
    <2>5. worker[w] # 0
      BY <1>3 DEF Fail
    <2>6. QED
      BY <2>1, <2>3, <2>4, <2>5, SpeEndedKeepsTyping
  <1>4. QED
    BY <1>1, <1>2, <1>3 DEF WorkerStep

LEMMA SpeNextTyping == SpeInv /\ SpeTyping /\ [Next]_vars => SpeTyping'
  <1> SUFFICES ASSUME SpeInv, SpeTyping, [Next]_vars PROVE SpeTyping'
    OBVIOUS
  <1>1. CASE UNCHANGED <<rules, runs, jobs>>
    BY <1>1 DEF SpeTyping
  <1>2. CASE \E c \in Clients : CommitCreate(c) \/ CommitRetry(c) \/ CommitUpdate(c)
    BY <1>2, SpeCommitCreateKeepsTyping, SpeCommitRetryKeepsTyping, SpeCommitUpdateKeepsTyping
  <1>3. CASE \E c \in Clients, x \in DOMAIN runs, q \in Requirements, verdict \in {"COMPLIES"} :
                Review(c, x, q, verdict)
    BY <1>3, SpeReviewKeepsTyping
  <1>4. CASE \E w \in Workers : WorkerStep(w)
    BY <1>4, SpeWorkersKeepTyping
  <1>5. ASSUME NEW c \in Clients,
               \/ \E snapshot \in DOMAIN Snapshots, domain \in Domains, force \in BOOLEAN :
                     BeginCreate(c, snapshot, domain, force)
               \/ \E x \in DOMAIN runs : BeginRetry(c, x)
               \/ \E q \in Requirements : BeginRead(c, q) \/ \E update \in Updates : BeginUpdate(c, q, update)
               \/ Refused(c)
        PROVE  UNCHANGED <<rules, runs, jobs>>
    BY <1>5 DEF BeginCreate, BeginRetry, BeginRead, BeginUpdate, Refused
  <1>6. (Synchronise \/ (\E w \in Workers : Crash(w)) \/ UNCHANGED vars) => UNCHANGED <<rules, runs, jobs>>
    BY DEF Synchronise, Crash, vars
  <1>7. QED
    BY <1>1, <1>2, <1>3, <1>4, <1>5, <1>6 DEF Next, ClientStep

\* Runs, jobs and rules of the specialized evaluations stay what their columns say, and the
\* rows that a run names stay there: no job is claimed more often than max_attempts allows.
THEOREM SpecializedTyping == Spec => []TypeOK
  <1>1. SpeInv /\ SpeTyping => TypeOK
    <2> SUFFICES ASSUME SpeInv, SpeTyping PROVE TypeOK
      OBVIOUS
    <2>1. \A x \in DOMAIN runs : \A q \in DOMAIN runs[x].results : runs[x].results[q].status \in Verdict
      BY EvaluateGivesVerdict DEF SpeInv, SpeRunOK, SpeMatches
    <2>2. \A x \in DOMAIN runs : \A q \in DOMAIN runs[x].rows : runs[x].rows[q] \in DOMAIN rules[q]
      BY DEF SpeInv, SpeRunOK
    <2>3. \A w \in Workers : worker[w] \in 0 .. Len(jobs)
      <3>1. PICK S : jobs \in Seq(S)
        BY DEF SpeInv, QueueInv, RowsOK, IsSequence
      <3>2. \A w \in Workers : worker[w] # 0 => worker[w] \in 1 .. Len(jobs)
        BY <3>1 DEF SpeInv, QueueInv, HeldOK
      <3>3. Len(jobs) \in Nat
        BY <3>1
      <3>4. QED
        BY <3>2, <3>3
    <2>4. QED
      BY <2>1, <2>2, <2>3 DEF SpeInv, SpeTyping, SpeJobFits, TypeOK
  <1>2. Init => SpeTyping
    BY SpeInitTyping
  <1>3. SpeInv /\ SpeTyping /\ [Next]_vars => SpeTyping'
    BY SpeNextTyping
  <1>4. QED
    BY <1>1, <1>2, <1>3, SpeInvariant, PTL DEF Spec

-----------------------------------------------------------------------------
(* What the columns of the packages and of the decision hold.               *)

\* What the columns of a package and of its job may hold. A job that waits has an attempt
\* left, so that to claim it stays within max_attempts.
PackageFits(package) == package.status \in Rep!PackageStatus
ReportJobFits(job) ==
    /\ job.status \in Rep!JobStatus
    /\ job.attempts \in Nat /\ job.attempts <= RepAttempts
    /\ job.status = "PENDING" => job.attempts < RepAttempts
DecisionFits ==
    /\ DOMAIN repDecision = {"engine", "effective", "pending", "reviews", "action"}
    /\ repDecision.engine \in Outcomes /\ repDecision.effective \in Outcomes
    /\ repDecision.action \in Rep!ActionStatus
FilesFit == \A p \in DOMAIN repStorage : repStorage[p] \subseteq Files

RepTyping ==
    /\ DecisionFits /\ FilesFit
    /\ \A p \in DOMAIN repPackages : PackageFits(repPackages[p])
    /\ \A j \in DOMAIN repJobs : ReportJobFits(repJobs[j])

LEMMA RepInitTyping == Rep!Init => RepTyping
  <1> SUFFICES ASSUME Rep!Init PROVE RepTyping
    OBVIOUS
  <1>1. DecisionFits
    <2>1. PICK outcome \in Outcomes :
            repDecision = [engine |-> outcome, effective |-> outcome, pending |-> TRUE,
                           reviews |-> 0, action |-> "OPEN"]
      BY DEF Rep!Init
    <2>2. DOMAIN repDecision = {"engine", "effective", "pending", "reviews", "action"}
      BY <2>1
    <2>3. repDecision.engine = outcome /\ repDecision.effective = outcome /\ repDecision.action = "OPEN"
      BY <2>1
    <2>4. QED
      BY <2>2, <2>3 DEF DecisionFits, Rep!ActionStatus
  <1>2. FilesFit
    BY DEF Rep!Init, FilesFit
  <1>3. QED
    BY <1>1, <1>2 DEF Rep!Init, RepTyping

\* A review changes what the decision says, a task how far it is.
LEMMA ReviewsKeepRepTyping ==
    ASSUME RepTyping, Rep!ReviewDecision \/ Rep!UpdateAction
    PROVE  RepTyping'
  <1>1. PICK old : old = repDecision
    OBVIOUS
  <1>2. /\ DOMAIN old = {"engine", "effective", "pending", "reviews", "action"}
        /\ old.engine \in Outcomes /\ old.effective \in Outcomes /\ old.action \in Rep!ActionStatus
    BY <1>1 DEF RepTyping, DecisionFits
  <1>3. UNCHANGED <<repPackages, repJobs, repStorage>>
    BY DEF Rep!ReviewDecision, Rep!UpdateAction
  <1>4. CASE Rep!ReviewDecision
    <2>1. PICK outcome \in Outcomes, rejected \in BOOLEAN :
            repDecision' = [repDecision EXCEPT !.effective = outcome, !.pending = rejected,
                                               !.reviews = @ + 1]
      BY <1>4 DEF Rep!ReviewDecision
    <2>2. PICK count : count = old.reviews + 1
      OBVIOUS
    <2>3. repDecision' = [old EXCEPT !.effective = outcome, !.pending = rejected, !.reviews = count]
      BY <1>1, <2>1, <2>2
    <2>4. /\ DOMAIN repDecision' = DOMAIN old /\ repDecision'.engine = old.engine
          /\ repDecision'.effective = outcome /\ repDecision'.action = old.action
      BY <1>2, <2>3
    <2>5. DecisionFits'
      BY <1>2, <2>4 DEF DecisionFits
    <2>6. QED
      BY <1>3, <2>5 DEF RepTyping, FilesFit
  <1>5. CASE Rep!UpdateAction
    <2>1. PICK status \in Rep!ActionStatus : repDecision' = [repDecision EXCEPT !.action = status]
      BY <1>5 DEF Rep!UpdateAction
    <2>2. repDecision' = [old EXCEPT !.action = status]
      BY <1>1, <2>1
    <2>3. /\ DOMAIN repDecision' = DOMAIN old /\ repDecision'.engine = old.engine
          /\ repDecision'.effective = old.effective /\ repDecision'.action = status
      BY <1>2, <2>2
    <2>4. DecisionFits'
      BY <1>2, <2>3 DEF DecisionFits
    <2>5. QED
      BY <1>3, <2>4 DEF RepTyping, FilesFit
  <1>6. QED
    BY <1>4, <1>5

\* A row that is created or replaced by one that fits.
LEMMA RowsKeepRepTyping ==
    ASSUME RepTyping, DecisionFits', FilesFit',
           \A p \in DOMAIN repPackages' :
              PackageFits(repPackages'[p]) \/ (p \in DOMAIN repPackages /\ repPackages'[p] = repPackages[p]),
           \A j \in DOMAIN repJobs' :
              ReportJobFits(repJobs'[j]) \/ (j \in DOMAIN repJobs /\ repJobs'[j] = repJobs[j])
    PROVE  RepTyping'
  <1>1. \A p \in DOMAIN repPackages' : PackageFits(repPackages'[p])
    BY DEF RepTyping
  <1>2. \A j \in DOMAIN repJobs' : ReportJobFits(repJobs'[j])
    BY DEF RepTyping
  <1>3. QED
    BY <1>1, <1>2 DEF RepTyping

LEMMA CommitsKeepRepTyping ==
    ASSUME RepInv, RepTyping, NEW c \in Clients, Rep!CommitCreate(c) \/ Rep!CommitRetry(c)
    PROVE  RepTyping'
  <1>1. DecisionFits' /\ FilesFit'
    BY DEF Rep!CommitCreate, Rep!CommitRetry, RepTyping, DecisionFits, FilesFit
  <1>2. PICK job : /\ repJobs' = Append(repJobs, job) /\ job.status = "PENDING" /\ job.attempts = 0
    BY DEF Rep!CommitCreate, Rep!CommitRetry, Rep!NewJob
  <1>3. ReportJobFits(job)
    BY <1>2, EvaluationsAssumption DEF ReportJobFits, Rep!JobStatus
  <1>4. /\ Len(repJobs) \in Nat /\ DOMAIN repJobs = 1 .. Len(repJobs)
        /\ DOMAIN repJobs' = 1 .. (Len(repJobs) + 1) /\ repJobs'[Len(repJobs) + 1] = job
        /\ \A j \in 1 .. Len(repJobs) : repJobs'[j] = repJobs[j]
    BY <1>2, Appended DEF RepInv, RepRows
  <1>5. \A j \in DOMAIN repJobs' : repJobs'[j] = job \/ (j \in DOMAIN repJobs /\ repJobs'[j] = repJobs[j])
    BY <1>4
  <1>6. \A p \in DOMAIN repPackages' :
           PackageFits(repPackages'[p]) \/ (p \in DOMAIN repPackages /\ repPackages'[p] = repPackages[p])
    <2>1. CASE Rep!CommitCreate(c)
      <3>1. PICK package : repPackages' = Append(repPackages, package) /\ package.status = "DRAFT"
        BY <2>1 DEF Rep!CommitCreate, Rep!NewPackage
      <3>2. PackageFits(package)
        BY <3>1 DEF PackageFits, Rep!PackageStatus
      <3>3. /\ Len(repPackages) \in Nat /\ DOMAIN repPackages = 1 .. Len(repPackages)
            /\ DOMAIN repPackages' = 1 .. (Len(repPackages) + 1)
            /\ repPackages'[Len(repPackages) + 1] = package
            /\ \A p \in 1 .. Len(repPackages) : repPackages'[p] = repPackages[p]
        BY <3>1, Appended DEF RepInv, RepRows
      <3>4. \A p \in DOMAIN repPackages' :
               repPackages'[p] = package \/ (p \in DOMAIN repPackages /\ repPackages'[p] = repPackages[p])
        BY <3>3
      <3>5. QED
        BY <3>2, <3>4
    <2>2. CASE Rep!CommitRetry(c)
      <3>1. PICK p \in DOMAIN repPackages : p = repRequest[c].package
        BY <2>2 DEF Rep!CommitRetry, RepInv, RepLinks
      <3>2. PICK old : old = repPackages[p] /\ DOMAIN old = PackageFields
        BY DEF RepInv, RepRows
      <3>3. PICK package : package = [old EXCEPT !.status = "DRAFT", !.job = Len(repJobs) + 1]
        OBVIOUS
      <3>4. repPackages' = [repPackages EXCEPT ![p] = package]
        BY <2>2, <3>1, <3>2, <3>3 DEF Rep!CommitRetry
      <3>5. package.status = "DRAFT"
        BY <3>2, <3>3 DEF PackageFields
      <3>6. PackageFits(package)
        BY <3>5 DEF PackageFits, Rep!PackageStatus
      <3>7. /\ DOMAIN repPackages' = DOMAIN repPackages /\ repPackages'[p] = package
            /\ \A o \in DOMAIN repPackages \ {p} : repPackages'[o] = repPackages[o]
        BY <3>4, Replaced DEF RepInv, RepRows
      <3>8. QED
        BY <3>6, <3>7
    <2>3. QED
      BY <2>1, <2>2
  <1>7. QED
    BY <1>1, <1>3, <1>5, <1>6, RowsKeepRepTyping

\* A worker moves one job and its package.
LEMMA MovedKeepsRepTyping ==
    ASSUME RepInv, RepTyping, NEW j \in DOMAIN repJobs, NEW p \in DOMAIN repPackages, NEW job, NEW package,
           repJobs' = [repJobs EXCEPT ![j] = job], repPackages' = [repPackages EXCEPT ![p] = package],
           ReportJobFits(job), PackageFits(package), UNCHANGED repDecision, FilesFit'
    PROVE  RepTyping'
  <1>1. /\ DOMAIN repJobs' = DOMAIN repJobs /\ repJobs'[j] = job
        /\ \A i \in DOMAIN repJobs \ {j} : repJobs'[i] = repJobs[i]
    BY Replaced DEF RepInv, RepRows
  <1>2. /\ DOMAIN repPackages' = DOMAIN repPackages /\ repPackages'[p] = package
        /\ \A o \in DOMAIN repPackages \ {p} : repPackages'[o] = repPackages[o]
    BY Replaced DEF RepInv, RepRows
  <1>3. DecisionFits'
    BY DEF RepTyping, DecisionFits
  <1>4. \A i \in DOMAIN repJobs' :
           ReportJobFits(repJobs'[i]) \/ (i \in DOMAIN repJobs /\ repJobs'[i] = repJobs[i])
    BY <1>1
  <1>5. \A o \in DOMAIN repPackages' :
           PackageFits(repPackages'[o]) \/ (o \in DOMAIN repPackages /\ repPackages'[o] = repPackages[o])
    BY <1>2
  <1>6. QED
    BY <1>3, <1>4, <1>5, RowsKeepRepTyping

LEMMA ClaimKeepsRepTyping ==
    ASSUME RepInv, RepTyping, NEW w \in RepWorkers, Rep!Claim(w)
    PROVE  RepTyping'
  <1>1. PICK j \in DOMAIN repJobs :
          /\ repJobs[j].status = "PENDING"
          /\ repJobs' = [repJobs EXCEPT ![j].status = "PROCESSING", ![j].attempts = @ + 1]
          /\ repPackages' = [repPackages EXCEPT ![repJobs[j].package].status = "GENERATING"]
          /\ UNCHANGED <<repDecision, repStorage>>
    BY DEF Rep!Claim
  <1>2. PICK p \in DOMAIN repPackages : p = repJobs[j].package
    BY <1>1 DEF RepInv, RepLinks
  <1>3. PICK old, was : /\ old = repJobs[j] /\ DOMAIN old = ReportJobFields
                        /\ was = repPackages[p] /\ DOMAIN was = PackageFields
    BY DEF RepInv, RepRows
  <1>4. PICK tries : tries = old.attempts + 1
    OBVIOUS
  <1>5. PICK job, package : /\ job = [old EXCEPT !.status = "PROCESSING", !.attempts = tries]
                            /\ package = [was EXCEPT !.status = "GENERATING"]
    OBVIOUS
  <1>6. repJobs' = [repJobs EXCEPT ![j] = job]
    BY <1>1, <1>3, <1>4, <1>5
  <1>7. repPackages' = [repPackages EXCEPT ![p] = package]
    BY <1>1, <1>2, <1>3, <1>5
  <1>8. job.status = "PROCESSING" /\ job.attempts = tries /\ package.status = "GENERATING"
    BY <1>3, <1>5 DEF ReportJobFields, PackageFields
  <1>9. old.attempts \in Nat /\ old.attempts < RepAttempts
    BY <1>1, <1>3 DEF RepTyping, ReportJobFits
  <1>10. ReportJobFits(job)
    BY <1>4, <1>8, <1>9, EvaluationsAssumption DEF ReportJobFits, Rep!JobStatus
  <1>11. PackageFits(package)
    BY <1>8 DEF PackageFits, Rep!PackageStatus
  <1>12. FilesFit'
    BY <1>1 DEF RepTyping, FilesFit
  <1>13. QED
    BY <1>1, <1>6, <1>7, <1>10, <1>11, <1>12, MovedKeepsRepTyping

LEMMA RenderKeepsRepTyping ==
    ASSUME RepTyping, NEW w \in RepWorkers, Rep!Render(w)
    PROVE  RepTyping'
  <1>1. PICK p : repStorage' = [repStorage EXCEPT ![p] = Files]
    BY DEF Rep!Render
  <1>2. FilesFit'
    BY <1>1 DEF RepTyping, FilesFit
  <1>3. UNCHANGED <<repDecision, repPackages, repJobs>>
    BY DEF Rep!Render
  <1>4. QED
    BY <1>2, <1>3 DEF RepTyping, DecisionFits

LEMMA PublishKeepsRepTyping ==
    ASSUME RepInv, RepTyping, NEW w \in RepWorkers, Rep!Publish(w)
    PROVE  RepTyping'
  <1>1. PICK j \in DOMAIN repJobs : j = repWorker[w].job
    BY DEF Rep!Publish, RepInv, RepHolders
  <1>2. PICK p \in DOMAIN repPackages : p = repJobs[j].package
    BY <1>1 DEF RepInv, RepLinks
  <1>3. PICK old, was : /\ old = repJobs[j] /\ DOMAIN old = ReportJobFields
                        /\ was = repPackages[p] /\ DOMAIN was = PackageFields
    BY DEF RepInv, RepRows
  <1>4. PICK job, package :
          /\ job = [old EXCEPT !.status = "COMPLETED"]
          /\ package = [was EXCEPT !.status = "COMPLETED", !.rows = Files, !.content = repWorker[w].content]
    OBVIOUS
  <1>5. /\ repJobs' = [repJobs EXCEPT ![j] = job] /\ repPackages' = [repPackages EXCEPT ![p] = package]
        /\ UNCHANGED <<repDecision, repStorage>>
    BY <1>1, <1>2, <1>3, <1>4 DEF Rep!Publish, Rep!PackageOf
  <1>6. job.status = "COMPLETED" /\ job.attempts = old.attempts /\ package.status = "COMPLETED"
    BY <1>3, <1>4 DEF ReportJobFields, PackageFields
  <1>7. ReportJobFits(old)
    BY <1>3 DEF RepTyping
  <1>8. ReportJobFits(job)
    BY <1>6, <1>7 DEF ReportJobFits, Rep!JobStatus
  <1>9. PackageFits(package)
    BY <1>6 DEF PackageFits, Rep!PackageStatus
  <1>10. FilesFit'
    BY <1>5 DEF RepTyping, FilesFit
  <1>11. QED
    BY <1>5, <1>8, <1>9, <1>10, MovedKeepsRepTyping

LEMMA FailuresKeepRepTyping ==
    ASSUME RepInv, RepTyping, NEW w \in RepWorkers, Rep!SaveFails(w) \/ Rep!PublishFails(w)
    PROVE  RepTyping'
  <1>1. Rep!FailJob(w)
    BY DEF Rep!SaveFails, Rep!PublishFails
  <1>2. PICK j \in DOMAIN repJobs : j = repWorker[w].job
    BY DEF Rep!SaveFails, Rep!PublishFails, Rep!Working, RepInv, RepHolders
  <1>3. PICK p \in DOMAIN repPackages : p = repJobs[j].package
    BY DEF RepInv, RepLinks
  <1>4. PICK old, was : /\ old = repJobs[j] /\ DOMAIN old = ReportJobFields
                        /\ was = repPackages[p] /\ DOMAIN was = PackageFields
    BY DEF RepInv, RepRows
  <1>5. PICK status, reported :
          /\ status = (IF old.attempts < RepAttempts THEN "PENDING" ELSE "FAILED")
          /\ reported = (IF old.attempts < RepAttempts THEN "GENERATING" ELSE "FAILED")
    OBVIOUS
  <1>6. PICK job, package : /\ job = [old EXCEPT !.status = status]
                            /\ package = [was EXCEPT !.status = reported]
    OBVIOUS
  <1>7. /\ repJobs' = [repJobs EXCEPT ![j] = job] /\ repPackages' = [repPackages EXCEPT ![p] = package]
        /\ UNCHANGED repDecision
    BY <1>1, <1>2, <1>3, <1>4, <1>5, <1>6 DEF Rep!FailJob, Rep!PackageOf
  <1>8. job.status = status /\ job.attempts = old.attempts /\ package.status = reported
    BY <1>4, <1>6 DEF ReportJobFields, PackageFields
  <1>9. ReportJobFits(old)
    BY <1>4 DEF RepTyping
  <1>10. status \in {"PENDING", "FAILED"} /\ (status = "PENDING" => old.attempts < RepAttempts)
    BY <1>5
  <1>11. ReportJobFits(job)
    BY <1>8, <1>9, <1>10 DEF ReportJobFits, Rep!JobStatus
  <1>12. PackageFits(package)
    BY <1>5, <1>8 DEF PackageFits, Rep!PackageStatus
  <1>13. FilesFit'
    <2>1. CASE Rep!PublishFails(w)
      BY <2>1 DEF Rep!PublishFails, RepTyping, FilesFit
    <2>2. CASE Rep!SaveFails(w)
      <3>1. PICK stored \in SUBSET Files :
              repStorage' = [repStorage EXCEPT ![p] = (repStorage[p] \cup stored) \ stored]
        BY <1>2, <1>3, <2>2 DEF Rep!SaveFails, Rep!PackageOf, Rep!Kept
      <3>2. QED
        BY <3>1 DEF RepTyping, FilesFit
    <2>3. QED
      BY <2>1, <2>2
  <1>14. QED
    BY <1>7, <1>11, <1>12, <1>13, MovedKeepsRepTyping

LEMMA RepNextTyping == RepInv /\ RepTyping /\ [Rep!Next]_(Rep!vars) => RepTyping'
  <1> SUFFICES ASSUME RepInv, RepTyping, [Rep!Next]_(Rep!vars) PROVE RepTyping'
    OBVIOUS
  <1>1. CASE UNCHANGED <<repDecision, repPackages, repJobs, repStorage>>
    BY <1>1 DEF RepTyping, DecisionFits, FilesFit
  <1>2. CASE Rep!ReviewDecision \/ Rep!UpdateAction
    BY <1>2, ReviewsKeepRepTyping
  <1>3. CASE \E c \in Clients : Rep!CommitCreate(c) \/ Rep!CommitRetry(c)
    BY <1>3, CommitsKeepRepTyping
  <1>4. CASE \E w \in RepWorkers : Rep!WorkerStep(w)
    BY <1>4, ClaimKeepsRepTyping, RenderKeepsRepTyping, PublishKeepsRepTyping, FailuresKeepRepTyping
       DEF Rep!WorkerStep
  <1>5. (\/ \E c \in Clients : \/ \E force \in BOOLEAN : Rep!BeginCreate(c, force)
                               \/ \E p \in DOMAIN repPackages : Rep!BeginRetry(c, p)
                               \/ Rep!Refused(c)
         \/ \E w \in RepWorkers : Rep!Crash(w)
         \/ UNCHANGED Rep!vars)
           => UNCHANGED <<repDecision, repPackages, repJobs, repStorage>>
    BY DEF Rep!BeginCreate, Rep!BeginRetry, Rep!Refused, Rep!Crash, Rep!vars
  <1>6. QED
    BY <1>1, <1>2, <1>3, <1>4, <1>5 DEF Rep!Next

\* Packages, jobs and the files in storage stay what their columns say, through reviews,
\* retries and workers that die: no job is claimed more often than max_attempts allows.
THEOREM ReportsTyping == Rep!Spec => []Rep!TypeOK
  <1>1. Rep!Init => RepTyping
    BY RepInitTyping
  <1>2. RepInv /\ RepTyping /\ [Rep!Next]_(Rep!vars) => RepTyping'
    BY RepNextTyping
  <1>3. RepInv /\ RepTyping => Rep!TypeOK
    BY DEF RepInv, RepRows, RepLinks, RepHolders, RepTyping, DecisionFits, FilesFit, PackageFits,
           ReportJobFits, Rep!TypeOK
  <1>4. QED
    BY <1>1, <1>2, <1>3, RepInvariant, PTL DEF Rep!Spec

-----------------------------------------------------------------------------
(* Together.  A step of one stage leaves the others as they are.           *)

\* What is proved of a stage alone holds of it among the others.
THEOREM PartsOfEvaluations == AllSpec => Nor!Spec /\ Fin!Spec /\ Spec /\ Rep!Spec
  <1>1. AllInit => Nor!Init /\ Fin!Init /\ Init /\ Rep!Init
    BY DEF AllInit
  <1>2. [AllNext]_allVars =>
           [Nor!Next]_(Nor!vars) /\ [Fin!Next]_(Fin!vars) /\ [Next]_vars /\ [Rep!Next]_(Rep!vars)
    <2> SUFFICES ASSUME [AllNext]_allVars
                 PROVE  [Nor!Next]_(Nor!vars) /\ [Fin!Next]_(Fin!vars) /\ [Next]_vars /\ [Rep!Next]_(Rep!vars)
      OBVIOUS
    <2> USE DEF norVars, finVars, repVars, Nor!vars, Fin!vars, Rep!vars
    <2>1. CASE NormalizationStep
      BY <2>1 DEF NormalizationStep
    <2>2. CASE FinancialStep
      BY <2>2 DEF FinancialStep
    <2>3. CASE SpecializedStep
      BY <2>3 DEF SpecializedStep
    <2>4. CASE ReportStep
      BY <2>4 DEF ReportStep
    <2>5. CASE UNCHANGED allVars
      BY <2>5 DEF allVars
    <2>6. QED
      BY <2>1, <2>2, <2>3, <2>4, <2>5 DEF AllNext
  <1>3. QED
    BY <1>1, <1>2, PTL DEF AllSpec, Nor!Spec, Fin!Spec, Spec, Rep!Spec

\* The evaluations together keep what each promises: results that digests decide and evidence
\* backs, packages that stand for files, candidates of which each is accounted for once, and of
\* each key one evaluation under way.
THEOREM EvaluationsKeepPromises ==
    AllSpec => /\ [](/\ SameDigestSameResults /\ ComplianceBacked
                     /\ RunFollowsFinancialJob /\ SameInputsSameResults /\ VerdictBacked
                     /\ RowsHaveFiles /\ PackageFollowsJob /\ CandidatesAccounted)
               /\ QueueIsExclusive
  BY PartsOfEvaluations, SpecializedDigestDecides, CompliesOnEvidence, FinancialRunFollowsJob,
     FinancialDigestDecides, VerdictOnEvidence, ReportRowsHaveFiles, ReportPackageFollowsJob,
     NormalizationAccounts, ImplementsExclusiveQueue, PTL

\* Of every stage, and for every number of texts, rows, attempts and workers, what the variables
\* hold is what the columns of its tables allow: no job is claimed beyond max_attempts, no rule
\* outgrows its bound, and no row points at a row that does not exist.
THEOREM EvaluationsTyping == AllSpec => []EvaluationsTypeOK
  <1>1. Nor!TypeOK /\ Fin!TypeOK /\ TypeOK /\ Rep!TypeOK => EvaluationsTypeOK
    BY DEF EvaluationsTypeOK
  <1>2. QED
    BY <1>1, PartsOfEvaluations, NormalizationTyping, FinancialTyping, SpecializedTyping,
       ReportsTyping, PTL
=============================================================================
