-------------------------- MODULE DecisionRunsProofs --------------------------
(***************************************************************************)
(* Decision runs, for every number of runs, workers, clients, requirements *)
(* and attempts and for every policy: one run of the inputs is under way,  *)
(* the outcome a completed run shows is what its stored findings give, and *)
(* a result corrected to COMPLIES never makes what a new run gives worse.  *)
(*                                                                         *)
(* The second rests on how sessions write their rows: only the columns     *)
(* that they changed since they loaded the row. A worker whose decision    *)
(* equals the outcome it has loaded writes none, and the column keeps      *)
(* whatever is there. That it is the same value rests on nobody else       *)
(* writing engine_outcome while the worker holds the run, although reviews *)
(* of an earlier completion may still be committed.                        *)
(*                                                                         *)
(* The third rests on the engine: a better answer to one requirement       *)
(* matches no rule that the worse one did not, and keeps the coverage that *)
(* GO needs. FixDecidedNoWorse says so for any two sets of findings, the   *)
(* theorem for every way to collect them.                                  *)
(***************************************************************************)
EXTENDS DecisionRuns, TLAPS

Columns == {"status", "engine", "reviewed", "effective", "needsReview"}

\* A row has the columns of Row, and its status is one of them.
RowOK(row) == DOMAIN row = Columns /\ row.status \in RunStatuses

RunOK(x) ==
    /\ DOMAIN run[x] = {"row", "attempts", "findings"}
    /\ RowOK(run[x].row)

\* What a busy worker holds is under way, has the outcome it had when it was claimed,
\* and what was collected so far covers what was asked for.
WorkerOK(w) ==
    /\ DOMAIN worker[w] = {"stage", "run", "loaded", "findings"}
    /\ worker[w].stage \in {"idle", "claimed", "reading", "deciding"}
    /\ worker[w].stage # "idle" =>
          /\ worker[w].run \in Runs
          /\ run[worker[w].run].row.status = "PROCESSING"
          /\ worker[w].loaded.status = "PROCESSING"
          /\ worker[w].loaded.engine = run[worker[w].run].row.engine
          /\ RowOK(worker[w].loaded)
    /\ worker[w].stage = "reading" => DOMAIN worker[w].findings \subseteq Requirements
    /\ worker[w].stage = "deciding" => DOMAIN worker[w].findings = Requirements

\* A retry has seen a failed run, a review a completed one.
ClientOK(c) ==
    /\ client[c].stage = "retrying" =>
          client[c].run \in Runs /\ RowOK(client[c].loaded) /\ client[c].loaded.status = "FAILED"
    /\ client[c].stage = "reviewing" =>
          client[c].run \in Runs /\ RowOK(client[c].loaded)

RunsInv ==
    /\ DOMAIN run = Runs /\ DOMAIN worker = Workers /\ DOMAIN client = Clients
    /\ \A x \in Runs : RunOK(x)
    /\ \A w \in Workers : WorkerOK(w)
    /\ \A v, w \in Workers :
          (worker[v].stage # "idle" /\ worker[w].stage # "idle" /\ worker[v].run = worker[w].run)
              => v = w
    /\ \A c \in Clients : ClientOK(c)
    /\ \A x, y \in Runs :
          (run[x].row.status \in Active /\ run[y].row.status \in Active) => x = y
    /\ OutcomeExplained

LEMMA InitRunsInv == Init => RunsInv
  <1> SUFFICES ASSUME Init PROVE RunsInv
    OBVIOUS
  <1>1. \A x \in Runs : RunOK(x)
    BY DEF Init, RunOK, RowOK, NewRow, Columns, RunStatuses
  <1>2. \A w \in Workers : WorkerOK(w)
    BY DEF Init, WorkerOK, IdleWorker
  <1>3. \A c \in Clients : ClientOK(c)
    BY DEF Init, ClientOK, IdleClient
  <1>4. QED
    BY <1>1, <1>2, <1>3 DEF Init, RunsInv, OutcomeExplained, NewRow, IdleWorker, Active

-----------------------------------------------------------------------------
\* Steps that leave the runs and the workers alone keep all but the clients.
LEMMA ClientsMove ==
    ASSUME RunsInv, UNCHANGED <<run, worker>>,
           DOMAIN client' = Clients, \A c \in Clients : ClientOK(c)'
    PROVE  RunsInv'
  <1>1. \A x \in Runs : RunOK(x)'
    BY DEF RunsInv, RunOK
  <1>2. \A w \in Workers : WorkerOK(w)'
    BY DEF RunsInv, WorkerOK
  <1>3. QED
    BY <1>1, <1>2 DEF RunsInv, OutcomeExplained

LEMMA RequestsKeepRunsInv ==
    ASSUME RunsInv, NEW c \in Clients,
           \/ \E force \in BOOLEAN : BeginCreate(c, force)
           \/ \E x \in Runs : BeginRetry(c, x) \/ BeginReview(c, x)
           \/ CommitRefused(c)
    PROVE  RunsInv'
  <1>1. UNCHANGED <<run, worker>>
    BY DEF BeginCreate, BeginRetry, BeginReview, Begin, CommitRefused
  <1>2. DOMAIN client' = Clients /\ \A d \in Clients \ {c} : client'[d] = client[d]
    BY DEF BeginCreate, BeginRetry, BeginReview, Begin, CommitRefused, RunsInv
  <1>3. ClientOK(c)'
    <2>1. ASSUME NEW force \in BOOLEAN, BeginCreate(c, force) PROVE ClientOK(c)'
      BY <2>1 DEF BeginCreate, Begin, ClientOK, IdleClient, RunsInv
    <2>2. ASSUME NEW x \in Runs, BeginRetry(c, x) PROVE ClientOK(c)'
      BY <2>2 DEF BeginRetry, Begin, ClientOK, RunsInv, RunOK
    <2>3. ASSUME NEW x \in Runs, BeginReview(c, x) PROVE ClientOK(c)'
      BY <2>3 DEF BeginReview, Begin, ClientOK, RunsInv, RunOK
    <2>4. CASE CommitRefused(c)
      BY <2>4 DEF CommitRefused, ClientOK, IdleClient, RunsInv
    <2>5. QED
      BY <2>1, <2>2, <2>3, <2>4
  <1>4. \A d \in Clients : ClientOK(d)'
    BY <1>2, <1>3 DEF RunsInv, ClientOK
  <1>5. QED
    BY <1>1, <1>2, <1>4, ClientsMove

-----------------------------------------------------------------------------
\* A commit of a client that writes the row of one run and is idle afterwards.
\* What it writes is no outcome of the engine, and no completion.
LEMMA CommitsKeepRunsInv ==
    ASSUME RunsInv, NEW c \in Clients, NEW x \in Runs,
           UNCHANGED worker, client' = [client EXCEPT ![c] = IdleClient],
           NEW row, RowOK(row), row.engine = run[x].row.engine,
           NEW attempts, run' = [run EXCEPT ![x].row = row, ![x].attempts = attempts],
           \/ row.status = run[x].row.status
           \/ row.status = "PENDING" /\ NoActiveRun
    PROVE  RunsInv'
  <1>1. /\ DOMAIN run' = Runs /\ DOMAIN run'[x] = DOMAIN run[x]
        /\ run'[x].row = row /\ run'[x].findings = run[x].findings
        /\ \A y \in Runs \ {x} : run'[y] = run[y]
    BY DEF RunsInv, RunOK
  <1>2. \A y \in Runs : RunOK(y)'
    BY <1>1 DEF RunsInv, RunOK
  <1>3. ASSUME NEW w \in Workers PROVE WorkerOK(w)'
    <2>1. CASE worker[w].stage = "idle"
      BY <2>1 DEF RunsInv, WorkerOK
    <2>2. CASE worker[w].stage # "idle"
      <3>1. ~NoActiveRun
        BY <2>2 DEF RunsInv, WorkerOK, NoActiveRun, Active
      <3>2. \A y \in Runs : /\ run'[y].row.status = run[y].row.status
                            /\ run'[y].row.engine = run[y].row.engine
        BY <1>1, <3>1
      <3>3. QED
        BY <3>2 DEF RunsInv, WorkerOK
    <2>3. QED
      BY <2>1, <2>2
  <1>4. \A d \in Clients : ClientOK(d)'
    BY DEF RunsInv, ClientOK, IdleClient
  <1>5. \A y, z \in Runs :
           (run'[y].row.status \in Active /\ run'[z].row.status \in Active) => y = z
    BY <1>1 DEF RunsInv, NoActiveRun, Active
  <1>6. OutcomeExplained'
    BY <1>1 DEF RunsInv, OutcomeExplained
  <1>7. QED
    BY <1>1, <1>2, <1>3, <1>4, <1>5, <1>6 DEF RunsInv

LEMMA CreateKeepsRunsInv ==
    ASSUME RunsInv, NEW c \in Clients, NEW x \in Runs, CommitCreate(c, x)
    PROVE  RunsInv'
  <1> DEFINE row == [run[x].row EXCEPT !.status = "PENDING"]
  <1>1. RowOK(row) /\ row.engine = run[x].row.engine /\ row.status = "PENDING"
    BY DEF RunsInv, RunOK, RowOK, Columns, RunStatuses
  <1>2. run' = [run EXCEPT ![x].row = row, ![x].attempts = run[x].attempts]
    BY DEF CommitCreate, RunsInv, RunOK
  <1> HIDE DEF row
  <1>3. QED
    BY <1>1, <1>2, CommitsKeepRunsInv DEF CommitCreate

LEMMA RetryKeepsRunsInv ==
    ASSUME RunsInv, NEW c \in Clients, CommitRetry(c)
    PROVE  RunsInv'
  <1>1. PICK x \in Runs : x = client[c].run
    BY DEF RunsInv, ClientOK, CommitRetry
  <1> DEFINE loaded == client[c].loaded
             row == Flush(run[x].row, loaded, [loaded EXCEPT !.status = "PENDING"])
  <1>2. RowOK(loaded) /\ loaded.status = "FAILED"
    BY DEF RunsInv, ClientOK, CommitRetry
  <1>3. RowOK(row) /\ row.engine = run[x].row.engine /\ row.status = "PENDING"
    <2>1. RowOK(run[x].row)
      BY DEF RunsInv, RunOK
    <2> HIDE DEF loaded
    <2>2. QED
      BY <1>2, <2>1 DEF RowOK, Columns, RunStatuses, Flush
  <1>4. run' = [run EXCEPT ![x].row = row, ![x].attempts = 0]
    BY <1>1 DEF CommitRetry
  <1> HIDE DEF row
  <1>5. QED
    BY <1>3, <1>4, CommitsKeepRunsInv DEF CommitRetry

LEMMA ReviewKeepsRunsInv ==
    ASSUME RunsInv, NEW c \in Clients, NEW action \in {"CONFIRM", "OVERRIDE", "REJECT"},
           NEW outcome, CommitReview(c, action, outcome)
    PROVE  RunsInv'
  <1>1. PICK x \in Runs : x = client[c].run
    BY DEF RunsInv, ClientOK, CommitReview
  <1> DEFINE loaded == client[c].loaded
             assigned == Reviewed(loaded, action, outcome)
             row == Flush(run[x].row, loaded, assigned)
  <1>2. RowOK(loaded)
    BY DEF RunsInv, ClientOK, CommitReview
  <1>3. assigned.status = loaded.status /\ assigned.engine = loaded.engine
    <2> HIDE DEF loaded
    <2>1. QED
      BY <1>2 DEF Reviewed, RowOK, Columns
  <1>4. RowOK(row) /\ row.engine = run[x].row.engine /\ row.status = run[x].row.status
    <2>1. RowOK(run[x].row)
      BY DEF RunsInv, RunOK
    <2> HIDE DEF loaded, assigned
    <2>2. QED
      BY <1>3, <2>1 DEF RowOK, Columns, RunStatuses, Flush
  <1>5. run' = [run EXCEPT ![x].row = row, ![x].attempts = run[x].attempts]
    BY <1>1 DEF CommitReview, RunsInv, RunOK
  <1> HIDE DEF row
  <1>6. QED
    BY <1>4, <1>5, CommitsKeepRunsInv DEF CommitReview

-----------------------------------------------------------------------------
LEMMA ClaimKeepsRunsInv ==
    ASSUME RunsInv, NEW w \in Workers, NEW x \in Runs, Claim(w, x)
    PROVE  RunsInv'
  <1> DEFINE row == [run[x].row EXCEPT !.status = "PROCESSING"]
  <1>1. /\ DOMAIN run[x] = {"row", "attempts", "findings"} /\ RowOK(run[x].row)
        /\ run[x].row.status = "PENDING" /\ worker[w].stage = "idle"
    BY DEF RunsInv, RunOK, Claim
  <1>2. /\ RowOK(row) /\ row.status = "PROCESSING" /\ row.engine = run[x].row.engine
    BY <1>1 DEF RowOK, Columns, RunStatuses
  <1>3. /\ DOMAIN run' = Runs /\ DOMAIN run'[x] = DOMAIN run[x] /\ run'[x].row = row
        /\ \A y \in Runs \ {x} : run'[y] = run[y]
    BY <1>1 DEF Claim, RunsInv
  <1>4. /\ DOMAIN worker' = Workers
        /\ worker'[w] = [stage |-> "claimed", run |-> x, findings |-> Nothing, loaded |-> row]
        /\ \A v \in Workers \ {w} : worker'[v] = worker[v]
    BY DEF Claim, RunsInv
  <1> HIDE DEF row
  <1>5. \A v \in Workers : worker[v].stage # "idle" => worker[v].run # x
    BY <1>1 DEF RunsInv, WorkerOK
  <1>6. \A y \in Runs : RunOK(y)'
    BY <1>1, <1>2, <1>3 DEF RunsInv, RunOK
  <1>7. WorkerOK(w)'
    BY <1>2, <1>3, <1>4 DEF WorkerOK
  <1>8. ASSUME NEW v \in Workers \ {w} PROVE WorkerOK(v)'
    BY <1>3, <1>4, <1>5 DEF RunsInv, WorkerOK
  <1>9. \A u, v \in Workers :
           (worker'[u].stage # "idle" /\ worker'[v].stage # "idle" /\ worker'[u].run = worker'[v].run)
               => u = v
    BY <1>4, <1>5 DEF RunsInv
  <1>10. \A c \in Clients : ClientOK(c)'
    BY DEF Claim, RunsInv, ClientOK
  <1>11. \A y, z \in Runs :
           (run'[y].row.status \in Active /\ run'[z].row.status \in Active) => y = z
    BY <1>1, <1>3 DEF RunsInv, Active
  <1>12. OutcomeExplained'
    BY <1>2, <1>3 DEF RunsInv, OutcomeExplained
  <1>13. QED
    BY <1>3, <1>4, <1>6, <1>7, <1>8, <1>9, <1>10, <1>11, <1>12 DEF RunsInv, Claim

LEMMA ReadKeepsRunsInv ==
    ASSUME RunsInv, NEW w \in Workers, ReadFinancial(w) \/ ReadSpecialized(w)
    PROVE  RunsInv'
  <1>1. /\ worker[w].stage \in {"claimed", "reading"}
        /\ DOMAIN worker[w] = {"stage", "run", "loaded", "findings"}
        /\ UNCHANGED <<run, client>>
    BY DEF ReadFinancial, ReadSpecialized, RunsInv, WorkerOK
  <1>2. /\ DOMAIN worker' = Workers
        /\ DOMAIN worker'[w] = DOMAIN worker[w]
        /\ worker'[w].run = worker[w].run /\ worker'[w].loaded = worker[w].loaded
        /\ worker'[w].stage \in {"reading", "deciding"}
        /\ worker'[w].stage = "reading" => DOMAIN worker'[w].findings \subseteq Requirements
        /\ worker'[w].stage = "deciding" => DOMAIN worker'[w].findings = Requirements
        /\ \A v \in Workers \ {w} : worker'[v] = worker[v]
    <2>1. CASE ReadFinancial(w)
      <3>1. PICK pick \in Collected({r \in Requirements : IsFinancial(r)}, results) :
               worker' = [worker EXCEPT ![w].stage = "reading", ![w].findings = pick]
        BY <2>1 DEF ReadFinancial
      <3>2. DOMAIN pick = {r \in Requirements : IsFinancial(r)}
        BY DEF Collected
      <3>3. QED
        BY <1>1, <3>1, <3>2 DEF RunsInv
    <2>2. CASE ReadSpecialized(w)
      <3>1. PICK findings :
               /\ DOMAIN findings = Requirements
               /\ worker' = [worker EXCEPT ![w].stage = "deciding", ![w].findings = findings]
        BY <2>2 DEF ReadSpecialized
      <3>2. QED
        BY <1>1, <3>1 DEF RunsInv
    <2>3. QED
      BY <2>1, <2>2
  <1>3. \A v \in Workers : WorkerOK(v)'
    BY <1>1, <1>2 DEF RunsInv, WorkerOK
  <1>4. \A x \in Runs : RunOK(x)'
    BY <1>1 DEF RunsInv, RunOK
  <1>5. \A c \in Clients : ClientOK(c)'
    BY <1>1 DEF RunsInv, ClientOK
  <1>6. \A u, v \in Workers :
           (worker'[u].stage # "idle" /\ worker'[v].stage # "idle" /\ worker'[u].run = worker'[v].run)
               => u = v
    BY <1>1, <1>2 DEF RunsInv
  <1>7. QED
    BY <1>1, <1>2, <1>3, <1>4, <1>5, <1>6 DEF RunsInv, OutcomeExplained

\* A worker lets go of its run: no one else holds it, so its row may take any status.
LEMMA ReleasesKeepRunsInv ==
    ASSUME RunsInv, NEW w \in Workers, worker[w].stage # "idle", NEW x, x = worker[w].run,
           worker' = [worker EXCEPT ![w] = IdleWorker], UNCHANGED client,
           DOMAIN run' = Runs, \A y \in Runs \ {x} : run'[y] = run[y],
           RunOK(x)', OutcomeExplained'
    PROVE  RunsInv'
  <1>1. x \in Runs /\ run[x].row.status = "PROCESSING"
    BY DEF RunsInv, WorkerOK
  <1>2. /\ DOMAIN worker' = Workers /\ worker'[w] = IdleWorker
        /\ \A v \in Workers \ {w} : worker'[v] = worker[v]
    BY DEF RunsInv
  <1>3. \A v \in Workers \ {w} : worker[v].stage # "idle" => worker[v].run # x
    BY <1>1 DEF RunsInv
  <1>4. ASSUME NEW v \in Workers PROVE WorkerOK(v)'
    <2>1. CASE v = w
      BY <1>2, <2>1 DEF WorkerOK, IdleWorker
    <2>2. CASE v # w
      BY <1>1, <1>2, <1>3, <2>2 DEF RunsInv, WorkerOK
    <2>3. QED
      BY <2>1, <2>2
  <1>5. \A y \in Runs : RunOK(y)'
    BY <1>1 DEF RunsInv, RunOK
  <1>6. \A y, z \in Runs :
           (run'[y].row.status \in Active /\ run'[z].row.status \in Active) => y = z
    BY <1>1 DEF RunsInv, Active
  <1>7. \A c \in Clients : ClientOK(c)'
    BY DEF RunsInv, ClientOK
  <1>8. \A u, v \in Workers :
           (worker'[u].stage # "idle" /\ worker'[v].stage # "idle" /\ worker'[u].run = worker'[v].run)
               => u = v
    BY <1>2 DEF RunsInv, IdleWorker
  <1>9. QED
    BY <1>2, <1>4, <1>5, <1>6, <1>7, <1>8 DEF RunsInv

LEMMA CompleteKeepsRunsInv ==
    ASSUME RunsInv, NEW w \in Workers, Complete(w)
    PROVE  RunsInv'
  <1>1. PICK x \in Runs : x = worker[w].run
    BY DEF RunsInv, WorkerOK, Complete
  <1> DEFINE loaded == worker[w].loaded
             f == worker[w].findings
             assigned == [status |-> "COMPLETED", engine |-> Decide(Policy, f),
                          effective |-> Decide(Policy, f), reviewed |-> loaded.reviewed,
                          needsReview |-> RequiresHumanReview(f)]
             row == Flush(run[x].row, loaded, assigned)
  <1>2. /\ RowOK(run[x].row) /\ DOMAIN run[x] = {"row", "attempts", "findings"}
        /\ loaded.status = "PROCESSING" /\ loaded.engine = run[x].row.engine
        /\ DOMAIN f = Requirements
    BY <1>1 DEF RunsInv, RunOK, WorkerOK, Complete
  <1>3. RowOK(row) /\ row.status = "COMPLETED" /\ row.engine = Decide(Policy, f)
    <2>1. DOMAIN row = Columns
      BY <1>2 DEF RowOK, Flush
    <2>2. row.status = IF "COMPLETED" = loaded.status THEN run[x].row.status ELSE "COMPLETED"
      BY <1>2 DEF RowOK, Flush, Columns
    <2>3. row.engine = IF Decide(Policy, f) = loaded.engine THEN run[x].row.engine
                       ELSE Decide(Policy, f)
      BY <1>2 DEF RowOK, Flush, Columns
    <2> HIDE DEF row, loaded, f
    <2>4. QED
      BY <1>2, <2>1, <2>2, <2>3 DEF RowOK, RunStatuses
  <1>4. /\ worker[w].stage # "idle" /\ worker' = [worker EXCEPT ![w] = IdleWorker]
        /\ UNCHANGED client
        /\ run' = [run EXCEPT ![x].row = row, ![x].findings = f]
    BY <1>1 DEF Complete
  <1> HIDE DEF row, assigned, loaded, f
  <1>5. /\ DOMAIN run' = Runs /\ DOMAIN run'[x] = DOMAIN run[x]
        /\ run'[x].row = row /\ run'[x].findings = f
        /\ \A y \in Runs \ {x} : run'[y] = run[y]
    BY <1>2, <1>4 DEF RunsInv
  <1>6. RunOK(x)'
    BY <1>2, <1>3, <1>5 DEF RunOK
  <1>7. OutcomeExplained'
    BY <1>2, <1>3, <1>5 DEF RunsInv, OutcomeExplained
  <1>8. QED
    BY <1>1, <1>4, <1>5, <1>6, <1>7, ReleasesKeepRunsInv

LEMMA FailKeepsRunsInv ==
    ASSUME RunsInv, NEW w \in Workers, Fail(w)
    PROVE  RunsInv'
  <1>1. PICK x \in Runs : x = worker[w].run
    BY DEF RunsInv, WorkerOK, Fail
  <1>2. PICK status \in {"PENDING", "FAILED"} : run' = [run EXCEPT ![x].row.status = status]
    BY <1>1 DEF Fail
  <1>3. RowOK(run[x].row) /\ DOMAIN run[x] = {"row", "attempts", "findings"}
    BY DEF RunsInv, RunOK
  <1>4. /\ DOMAIN run' = Runs /\ DOMAIN run'[x] = DOMAIN run[x]
        /\ DOMAIN run'[x].row = Columns /\ run'[x].row.status = status
        /\ \A y \in Runs \ {x} : run'[y] = run[y]
    BY <1>2, <1>3 DEF RunsInv, RowOK, Columns
  <1>5. RunOK(x)'
    BY <1>3, <1>4 DEF RunOK, RowOK, RunStatuses
  <1>6. OutcomeExplained'
    BY <1>4 DEF RunsInv, OutcomeExplained
  <1>7. QED
    BY <1>1, <1>4, <1>5, <1>6, ReleasesKeepRunsInv DEF Fail

LEMMA CrashKeepsRunsInv ==
    ASSUME RunsInv, NEW w \in Workers, Crash(w)
    PROVE  RunsInv'
  <1>1. PICK x \in Runs : x = worker[w].run
    BY DEF RunsInv, WorkerOK, Crash
  <1>2. RunOK(x)' /\ OutcomeExplained'
    BY DEF RunsInv, RunOK, OutcomeExplained, Crash
  <1>3. QED
    BY <1>1, <1>2, ReleasesKeepRunsInv DEF Crash, RunsInv

-----------------------------------------------------------------------------
\* Evaluations and reviews of their results touch what the runs are decided from, and
\* neither runs nor workers.
LEMMA NextRunsInv == RunsInv /\ [Next]_vars => RunsInv'
  <1> SUFFICES ASSUME RunsInv, [Next]_vars PROVE RunsInv'
    OBVIOUS
  <1>1. ASSUME UNCHANGED <<run, worker, client>> PROVE RunsInv'
    <2>1. \A c \in Clients : ClientOK(c)'
      BY <1>1 DEF RunsInv, ClientOK
    <2>2. QED
      BY <1>1, <2>1, ClientsMove DEF RunsInv
  <1>2. CASE \E k \in Categories : CompleteSpecialized(k)
    BY <1>1, <1>2 DEF CompleteSpecialized
  <1>3. CASE ReviewStep
    BY <1>1, <1>3 DEF ReviewStep, ReviewResult
  <1>4. ASSUME NEW c \in Clients, ClientStep(c) PROVE RunsInv'
    BY <1>4, RequestsKeepRunsInv, CreateKeepsRunsInv, RetryKeepsRunsInv, ReviewKeepsRunsInv
       DEF ClientStep
  <1>5. ASSUME NEW w \in Workers, WorkerStep(w) \/ Crash(w) PROVE RunsInv'
    BY <1>5, ClaimKeepsRunsInv, ReadKeepsRunsInv, CompleteKeepsRunsInv, FailKeepsRunsInv,
       CrashKeepsRunsInv DEF WorkerStep
  <1>6. CASE UNCHANGED vars
    BY <1>1, <1>6 DEF vars
  <1>7. QED
    BY <1>2, <1>3, <1>4, <1>5, <1>6 DEF Next

THEOREM RunsInvariant == Spec => []RunsInv
  BY InitRunsInv, NextRunsInv, PTL DEF Spec

\* The outcome a completed run shows is what its stored findings give under the policy,
\* however often it failed, was retried, or was reviewed in the middle of an attempt.
THEOREM RunsOutcomeExplained == Spec => []OutcomeExplained
  <1>1. RunsInv => OutcomeExplained
    BY DEF RunsInv
  <1>2. QED
    BY RunsInvariant, <1>1, PTL

\* Of the inputs that a digest stands for, one run at most is under way.
THEOREM RunsOneActive == Spec => []OneActiveRun
  <1>1. RunsInv => OneActiveRun
    BY DEF RunsInv, OneActiveRun
  <1>2. QED
    BY RunsInvariant, <1>1, PTL
-----------------------------------------------------------------------------
\* The findings of the adapters: requires_human_review is the only flag they set.
Plain(f) == \A r \in DOMAIN f : f[r].flags \subseteq {"requires_human_review"}

\* g answers the requirement q better than f and agrees with it on the others.
Fixed(f, g, q) ==
    /\ DOMAIN g = DOMAIN f /\ q \in DOMAIN f
    /\ \A r \in DOMAIN f \ {q} : g[r] = f[r]
    /\ g[q].outcome = "COMPLIES" /\ g[q].flags = {}
    /\ g[q].applicability = f[q].applicability /\ g[q].category = f[q].category

\* There are six ranks, so some rank of a set of them is least.
LEMMA SomeRankIsLeast ==
    ASSUME NEW S \in SUBSET (1 .. 6), S # {}
    PROVE  \E n \in S : \A m \in S : n <= m
  <1>1. CASE 1 \in S
    BY <1>1
  <1>2. CASE 1 \notin S /\ 2 \in S
    BY <1>2
  <1>3. CASE 1 \notin S /\ 2 \notin S /\ 3 \in S
    BY <1>3
  <1>4. CASE 1 \notin S /\ 2 \notin S /\ 3 \notin S /\ 4 \in S
    BY <1>4
  <1>5. CASE 1 \notin S /\ 2 \notin S /\ 3 \notin S /\ 4 \notin S /\ 5 \in S
    BY <1>5
  <1>6. CASE 1 \notin S /\ 2 \notin S /\ 3 \notin S /\ 4 \notin S /\ 5 \notin S
    <2>1. \A n \in 1 .. 6 : n \in {1, 2, 3, 4, 5, 6}
      OBVIOUS
    <2>2. \A n \in S : n = 6
      BY <1>6, <2>1
    <2>3. 6 \in S
      BY <2>2
    <2>4. \A m \in S : 6 <= m
      BY <2>2
    <2>5. QED
      BY <2>3, <2>4
  <1>7. QED
    BY <1>1, <1>2, <1>3, <1>4, <1>5, <1>6

\* min(suggestions, key=outcome_rank) is one of the suggestions and none of
\* them comes before it.
LEMMA FirstSuggested ==
    ASSUME NEW S \in SUBSET DecisionOutcome, S # {}
    PROVE  First(Policy, S) \in S /\ \A o \in S : Policy.rank[First(Policy, S)] <= Policy.rank[o]
  <1> DEFINE Ranks == {Policy.rank[o] : o \in S}
  <1>1. Ranks # {} /\ Ranks \in SUBSET (1 .. 6)
    BY RunsAssumption DEF DecisionPolicy
  <1>2. PICK n \in Ranks : \A m \in Ranks : n <= m
    BY <1>1, SomeRankIsLeast
  <1>3. \E o \in S : \A other \in S : Policy.rank[o] <= Policy.rank[other]
    BY <1>2
  <1>4. QED
    BY <1>3 DEF First

LEMMA SuggestedOutcomes ==
    ASSUME NEW f
    PROVE  Suggestions(Policy, f) \subseteq DecisionOutcome
  <1>1. {Policy.conflict, Policy.unknown, Policy.partial} \subseteq DecisionOutcome
    BY RunsAssumption DEF DecisionPolicy
  <1>2. \A rule \in RuleResults(Policy, f) : rule.suggests \subseteq DecisionOutcome
    BY <1>1 DEF RuleResults, DecisionOutcome
  <1>3. QED
    BY <1>2 DEF Suggestions

\* The outcome of the engine is one of the six.
LEMMA OutcomeOfDecide ==
    ASSUME NEW f
    PROVE  Decide(Policy, f) \in DecisionOutcome
  <1>1. Suggestions(Policy, f) \in SUBSET DecisionOutcome
    BY SuggestedOutcomes
  <1>2. Suggestions(Policy, f) # {} => First(Policy, Suggestions(Policy, f)) \in DecisionOutcome
    BY <1>1, FirstSuggested
  <1>3. QED
    BY <1>2 DEF Decide, DecisionOutcome

\* A better answer matches no rule that the worse one did not match.
LEMMA FixMatchesLess ==
    ASSUME NEW f, NEW g, NEW q, Plain(f), Fixed(f, g, q)
    PROVE  /\ Mandatory(g) = Mandatory(f)
           /\ Having(f, {"COMPLIES"}) \subseteq Having(g, {"COMPLIES"})
           /\ \A o \in DecisionFindingOutcome \ {"COMPLIES"} : Having(g, {o}) \subseteq Having(f, {o})
           /\ Flagged(g, "requires_human_review") \subseteq Flagged(f, "requires_human_review")
           /\ \A flag \in Flags \ {"requires_human_review"} : Flagged(g, flag) = {}
           /\ NonSubsanableFailures(g) \subseteq NonSubsanableFailures(f)
           /\ BlockingFailures(Policy, g) \subseteq BlockingFailures(Policy, f)
           /\ PartialGaps(g) \subseteq PartialGaps(f)
  <1>1. Mandatory(g) = Mandatory(f)
    BY DEF Mandatory, Fixed
  <1>2. q \notin Flagged(g, "requires_human_review")
    BY DEF Flagged, Fixed
  <1>3. \A o \in DecisionFindingOutcome \ {"COMPLIES"} : q \notin Having(g, {o})
    BY DEF Having, Fixed
  <1>4. \A r \in Mandatory(f) \ {q} : g[r] = f[r]
    BY DEF Fixed, Mandatory
  <1>5. \A flag \in Flags \ {"requires_human_review"} : Flagged(g, flag) = {}
    BY <1>1 DEF Flagged, Fixed, Plain, Mandatory, Flags
  <1>6. Having(f, {"COMPLIES"}) \subseteq Having(g, {"COMPLIES"})
    BY <1>1, <1>4 DEF Having, Fixed
  <1>7. \A o \in DecisionFindingOutcome \ {"COMPLIES"} : Having(g, {o}) \subseteq Having(f, {o})
    BY <1>1, <1>3, <1>4 DEF Having
  <1>8. Flagged(g, "requires_human_review") \subseteq Flagged(f, "requires_human_review")
    BY <1>1, <1>2, <1>4 DEF Flagged
  <1>9. {"DOES_NOT_COMPLY", "PARTIAL"} \subseteq DecisionFindingOutcome \ {"COMPLIES"}
    BY DEF DecisionFindingOutcome
  <1>10. /\ NonSubsanableFailures(g) \subseteq NonSubsanableFailures(f)
         /\ BlockingFailures(Policy, g) \subseteq BlockingFailures(Policy, f)
    <2>1. \A r \in Having(g, {"DOES_NOT_COMPLY"}) : r \in Having(f, {"DOES_NOT_COMPLY"}) /\ g[r] = f[r]
      BY <1>3, <1>4, <1>7, <1>9 DEF Having
    <2>2. QED
      BY <2>1 DEF NonSubsanableFailures, BlockingFailures
  <1>11. PartialGaps(g) \subseteq PartialGaps(f)
    <2>1. \A r \in Having(g, {"PARTIAL"}) : r \in Having(f, {"PARTIAL"}) /\ g[r] = f[r]
      BY <1>3, <1>4, <1>7, <1>9 DEF Having
    <2>2. QED
      BY <2>1 DEF PartialGaps
  <1>12. QED
    BY <1>1, <1>5, <1>6, <1>7, <1>8, <1>10, <1>11

\* So it has no suggestion that the worse one had not.
LEMMA FixSuggestsLess ==
    ASSUME NEW f, NEW g, NEW q, Plain(f), Fixed(f, g, q)
    PROVE  Suggestions(Policy, g) \subseteq Suggestions(Policy, f)
  <1> DEFINE Rule(matched, suggests) == [matched |-> matched, suggests |-> suggests]
  <1>1. {"CONFLICTING_EVIDENCE", "NOT_EVALUATED", "UNKNOWN"}
           \subseteq DecisionFindingOutcome \ {"COMPLIES"}
    BY DEF DecisionFindingOutcome
  <1>2. {"submission_blocker", "partner_solvable", "is_remediable"}
           \subseteq Flags \ {"requires_human_review"}
    BY DEF Flags
  <1>3. SubmissionBlockers(g) = {} /\ PartnerGaps(g) = {} /\ RemediableGaps(g) = {}
        /\ Unconditioned(g) = {}
    BY <1>2, FixMatchesLess DEF SubmissionBlockers, PartnerGaps, RemediableGaps, Unconditioned
  <1>4. ASSUME NEW rule \in RuleResults(Policy, g), rule.matched # {}
        PROVE  \E other \in RuleResults(Policy, f) :
                  other.suggests = rule.suggests /\ rule.matched \subseteq other.matched
    <2>1. CASE rule = Rule(NonSubsanableFailures(g), {"NO_GO"})
      <3>1. Rule(NonSubsanableFailures(f), {"NO_GO"}) \in RuleResults(Policy, f)
        BY DEF RuleResults
      <3>2. QED
        BY <2>1, <3>1, FixMatchesLess
    <2>2. CASE rule = Rule(BlockingFailures(Policy, g), {"NO_GO"})
      <3>1. Rule(BlockingFailures(Policy, f), {"NO_GO"}) \in RuleResults(Policy, f)
        BY DEF RuleResults
      <3>2. QED
        BY <2>2, <3>1, FixMatchesLess
    <2>3. CASE rule = Rule(Having(g, {"CONFLICTING_EVIDENCE"}), {Policy.conflict})
      <3>1. Rule(Having(f, {"CONFLICTING_EVIDENCE"}), {Policy.conflict}) \in RuleResults(Policy, f)
        BY DEF RuleResults
      <3>2. QED
        BY <1>1, <2>3, <3>1, FixMatchesLess
    <2>4. CASE rule = Rule(Having(g, {"NOT_EVALUATED"}), {"PENDIENTE_INFORMACION"})
      <3>1. Rule(Having(f, {"NOT_EVALUATED"}), {"PENDIENTE_INFORMACION"}) \in RuleResults(Policy, f)
        BY DEF RuleResults
      <3>2. QED
        BY <1>1, <2>4, <3>1, FixMatchesLess
    <2>5. CASE rule = Rule(Having(g, {"UNKNOWN"}), {Policy.unknown})
      <3>1. Rule(Having(f, {"UNKNOWN"}), {Policy.unknown}) \in RuleResults(Policy, f)
        BY DEF RuleResults
      <3>2. QED
        BY <1>1, <2>5, <3>1, FixMatchesLess
    <2>6. CASE rule = Rule(PartialGaps(g), {Policy.partial})
      <3>1. Rule(PartialGaps(f), {Policy.partial}) \in RuleResults(Policy, f)
        BY DEF RuleResults
      <3>2. QED
        BY <2>6, <3>1, FixMatchesLess
    <2>7. CASE rule = Rule(Flagged(g, "requires_human_review"),
                           IF Policy.blockOnReview THEN {"PENDIENTE_INFORMACION"} ELSE {})
      <3>1. Rule(Flagged(f, "requires_human_review"),
                 IF Policy.blockOnReview THEN {"PENDIENTE_INFORMACION"} ELSE {})
               \in RuleResults(Policy, f)
        BY DEF RuleResults
      <3>2. QED
        BY <2>7, <3>1, FixMatchesLess
    <2>8. QED
      BY <1>3, <1>4, <2>1, <2>2, <2>3, <2>4, <2>5, <2>6, <2>7 DEF RuleResults
  <1>5. QED
    BY <1>4 DEF Suggestions

\* Where the better answer leaves nothing to suggest, the worse one suggests failures
\* and open questions only.
LEMMA PlainSuggestions ==
    ASSUME NEW f, Plain(f)
    PROVE  Suggestions(Policy, f) \subseteq
              {"NO_GO", "PENDIENTE_INFORMACION", Policy.unknown, Policy.conflict, Policy.partial}
  <1>1. /\ Flagged(f, "submission_blocker") = {} /\ Flagged(f, "partner_solvable") = {}
        /\ Flagged(f, "is_remediable") = {}
    BY DEF Flagged, Plain, Mandatory
  <1>2. SubmissionBlockers(f) = {} /\ PartnerGaps(f) = {} /\ RemediableGaps(f) = {}
        /\ Unconditioned(f) = {}
    BY <1>1 DEF SubmissionBlockers, PartnerGaps, RemediableGaps, Unconditioned
  <1>3. ASSUME NEW rule \in RuleResults(Policy, f), rule.matched # {}
        PROVE  rule.suggests \subseteq
                 {"NO_GO", "PENDIENTE_INFORMACION", Policy.unknown, Policy.conflict, Policy.partial}
    BY <1>2, <1>3 DEF RuleResults
  <1>4. QED
    BY <1>3 DEF Suggestions

\* What earned GO still earns it.
LEMMA FixKeepsCoverage ==
    ASSUME NEW f, NEW g, NEW q, Plain(f), Fixed(f, g, q),
           AllMandatoryComply(f), FullRequiredCoverage(f)
    PROVE  AllMandatoryComply(g) /\ FullRequiredCoverage(g)
  <1>1. Mandatory(g) = Mandatory(f)
    BY FixMatchesLess
  <1>2. Having(f, {"COMPLIES"}) \subseteq Having(g, {"COMPLIES"})
    BY FixMatchesLess
  <1>3. AllMandatoryComply(g)
    BY <1>1, <1>2 DEF AllMandatoryComply, Having
  <1>4. Having(g, {"NOT_EVALUATED"}) = {}
    <2>1. Having(g, {"NOT_EVALUATED"}) \subseteq Having(f, {"NOT_EVALUATED"})
      BY FixMatchesLess DEF DecisionFindingOutcome
    <2>2. QED
      BY <2>1 DEF FullRequiredCoverage
  <1>5. ASSUME NEW c \in Categories PROVE CoverageStatus(g, c) \in {"NOT_REQUIRED", "COMPLETE"}
    <2> DEFINE Evaluated(h) == {r \in InCategory(h, c) : h[r].outcome # "NOT_EVALUATED"}
    <2>1. InCategory(g, c) = InCategory(f, c)
      BY DEF InCategory, Fixed
    <2>2. Evaluated(f) \subseteq Evaluated(g)
      BY <2>1 DEF InCategory, Fixed
    <2>3. CoverageStatus(f, c) \in {"NOT_REQUIRED", "COMPLETE"}
      BY DEF FullRequiredCoverage
    <2>4. CASE Mandatory(f) \cap InCategory(f, c) = {}
      BY <1>1, <2>1, <2>4 DEF CoverageStatus
    <2>5. CASE Evaluated(f) # {} /\ Evaluated(f) = InCategory(f, c)
      <3>1. Evaluated(g) # {} /\ Evaluated(g) = InCategory(g, c)
        BY <2>1, <2>2, <2>5
      <3>2. QED
        BY <3>1 DEF CoverageStatus
    <2>6. QED
      BY <2>3, <2>4, <2>5 DEF CoverageStatus
  <1>6. QED
    BY <1>3, <1>4, <1>5 DEF FullRequiredCoverage

\* The engine is monotone in a requirement: a better answer to it is not decided worse.
LEMMA FixDecidedNoWorse ==
    ASSUME PendingComesLast, NEW f, NEW g, NEW q, Plain(f), Fixed(f, g, q)
    PROVE  Policy.rank[Decide(Policy, f)] <= Policy.rank[Decide(Policy, g)]
  <1> DEFINE S == Suggestions(Policy, f)
             T == Suggestions(Policy, g)
             pending == Policy.rank["PENDIENTE_INFORMACION"]
  <1>1. T \subseteq S /\ S \in SUBSET DecisionOutcome /\ T \in SUBSET DecisionOutcome
    BY FixSuggestsLess, SuggestedOutcomes
  <1>2. \A o \in DecisionOutcome : Policy.rank[o] \in Nat
    BY RunsAssumption DEF DecisionPolicy
  <1>3. pending \in Nat /\ pending < Policy.rank["GO"] /\ Policy.rank["GO"] \in Nat
    BY <1>2 DEF PendingComesLast, Cautious, DecisionOutcome, Positive
  <1>4. CASE T # {}
    <2>1. S # {}
      BY <1>1, <1>4
    <2>2. First(Policy, T) \in S
      BY <1>1, <1>4, FirstSuggested
    <2>3. Policy.rank[First(Policy, S)] <= Policy.rank[First(Policy, T)]
      BY <1>1, <2>1, <2>2, FirstSuggested
    <2>4. QED
      BY <1>4, <2>1, <2>3 DEF Decide
  <1>5. CASE T = {} /\ S # {}
    <2>1. First(Policy, S) \in S
      BY <1>1, <1>5, FirstSuggested
    <2>2. Policy.rank[First(Policy, S)] <= pending
      BY <1>3, <2>1, PlainSuggestions DEF PendingComesLast
    <2>3. Decide(Policy, g) \in {"GO", "PENDIENTE_INFORMACION"}
      BY <1>5 DEF Decide
    <2>4. Decide(Policy, f) = First(Policy, S)
      BY <1>5 DEF Decide
    <2>5. Policy.rank[First(Policy, S)] \in Nat
      BY <1>1, <1>2, <2>1
    <2>6. pending <= Policy.rank[Decide(Policy, g)]
      BY <1>3, <2>3
    <2> HIDE DEF pending, S
    <2>7. QED
      BY <1>2, <1>3, <2>2, <2>4, <2>5, <2>6, OutcomeOfDecide
  <1>6. CASE T = {} /\ S = {}
    <2>1. CASE AllMandatoryComply(f) /\ FullRequiredCoverage(f)
      BY <1>3, <1>6, <2>1, FixKeepsCoverage DEF Decide
    <2>2. CASE ~(AllMandatoryComply(f) /\ FullRequiredCoverage(f))
      BY <1>3, <1>6, <2>2 DEF Decide
    <2>3. QED
      BY <2>1, <2>2
  <1>7. QED
    BY <1>4, <1>5, <1>6

-----------------------------------------------------------------------------
\* The rows of evaluation results, and the counters that number them.
Spent == [evaluations : [Categories -> Nat], reviews : Nat, requests : Nat, crashes : Nat]

ResultsOK ==
    /\ results \in [Requirements -> SUBSET Result]
    /\ spent \in Spent

\* Each budget counts up.
LEMMA SpentGrows ==
    ASSUME NEW s \in Spent
    PROVE  /\ \A k \in Categories : [s EXCEPT !.evaluations[k] = @ + 1] \in Spent
           /\ [s EXCEPT !.reviews = @ + 1] \in Spent
           /\ [s EXCEPT !.requests = @ + 1] \in Spent
           /\ [s EXCEPT !.crashes = @ + 1] \in Spent
  <1>1. /\ s.evaluations \in [Categories -> Nat]
        /\ s.reviews + 1 \in Nat /\ s.requests + 1 \in Nat /\ s.crashes + 1 \in Nat
    BY DEF Spent
  <1>2. ASSUME NEW k \in Categories PROVE [s EXCEPT !.evaluations[k] = @ + 1] \in Spent
    <2>1. [s.evaluations EXCEPT ![k] = @ + 1] \in [Categories -> Nat]
      BY <1>1
    <2>2. PICK counts \in [Categories -> Nat] : counts = [s.evaluations EXCEPT ![k] = @ + 1]
      BY <2>1
    <2>3. [s EXCEPT !.evaluations[k] = @ + 1] = [s EXCEPT !.evaluations = counts]
      BY <2>2
    <2>4. [s EXCEPT !.evaluations = counts] \in Spent
      BY DEF Spent
    <2>5. QED
      BY <2>3, <2>4
  <1>3. \A n \in Nat : /\ [s EXCEPT !.reviews = n] \in Spent
                       /\ [s EXCEPT !.requests = n] \in Spent
                       /\ [s EXCEPT !.crashes = n] \in Spent
    BY DEF Spent
  <1>4. QED
    BY <1>1, <1>2, <1>3

LEMMA ReviewedResultTyped ==
    ASSUME NEW result \in Result,
           NEW review \in {"CONFIRMED", "OVERRIDDEN", "REJECTED"}, NEW status \in ResultStatuses
    PROVE  [result EXCEPT !.review = review, !.reviewed = status] \in Result
BY DEF Result

LEMMA ReviewKeepsResultsOK ==
    ASSUME ResultsOK, NEW r \in Requirements, NEW result \in results[r],
           NEW review \in {"CONFIRMED", "OVERRIDDEN", "REJECTED"}, NEW status \in ResultStatuses,
           ReviewResult(r, result, review, status)
    PROVE  ResultsOK'
  <1>1. result \in Result
    BY DEF ResultsOK
  <1>2. [result EXCEPT !.review = review, !.reviewed = status] \in Result
    BY <1>1, ReviewedResultTyped
  <1>3. results' \in [Requirements -> SUBSET Result]
    BY <1>2 DEF ReviewResult, ResultsOK
  <1>4. spent' \in Spent
    BY SpentGrows DEF ReviewResult, ResultsOK
  <1>5. QED
    BY <1>3, <1>4 DEF ResultsOK

THEOREM RunsResultsTyped == Spec => []ResultsOK
  <1> USE RunsAssumption
  <1>1. Init => ResultsOK
    <2> SUFFICES ASSUME Init PROVE ResultsOK
      OBVIOUS
    <2>1. PICK verdicts \in [{r \in Requirements : IsFinancial(r)} -> Verdicts] :
             results = [r \in Requirements |->
                          IF IsFinancial(r) THEN {NewResult(0, verdicts[r])} ELSE {}]
      BY DEF Init
    <2>2. \A r \in Requirements : IsFinancial(r) => NewResult(0, verdicts[r]) \in Result
      BY DEF NewResult, Result
    <2>3. results \in [Requirements -> SUBSET Result]
      BY <2>1, <2>2
    <2>4. spent \in Spent
      BY DEF Init, Spent
    <2>5. QED
      BY <2>3, <2>4 DEF ResultsOK
  <1>2. ResultsOK /\ [Next]_vars => ResultsOK'
    <2> SUFFICES ASSUME ResultsOK, [Next]_vars PROVE ResultsOK'
      OBVIOUS
    <2>1. ASSUME NEW k \in Categories, CompleteSpecialized(k) PROVE ResultsOK'
      <3>1. PICK verdicts \in [{r \in Requirements : Traits[r].category = k} -> Verdicts] :
               results' = [r \in Requirements |->
                   IF Traits[r].category = k
                     THEN results[r] \cup {NewResult(spent.evaluations[k] + 1, verdicts[r])}
                     ELSE results[r]]
        BY <2>1 DEF CompleteSpecialized
      <3>2. spent.evaluations[k] + 1 \in 0 .. EvaluationBudget
        BY <2>1 DEF CompleteSpecialized, ResultsOK, Spent
      <3>3. \A r \in Requirements : Traits[r].category = k =>
               NewResult(spent.evaluations[k] + 1, verdicts[r]) \in Result
        BY <3>2 DEF NewResult, Result
      <3>4. results' \in [Requirements -> SUBSET Result]
        BY <3>1, <3>3 DEF ResultsOK
      <3>5. spent' \in Spent
        BY <2>1, SpentGrows DEF CompleteSpecialized, ResultsOK
      <3>6. QED
        BY <3>4, <3>5 DEF ResultsOK
    <2>2. CASE ReviewStep
      <3>1. PICK r \in Requirements : \E result \in results[r] :
               \/ \E review \in {"CONFIRMED", "REJECTED"} :
                     ReviewResult(r, result, review, result.status)
               \/ \E status \in OverrideStatuses : ReviewResult(r, result, "OVERRIDDEN", status)
        BY <2>2 DEF ReviewStep
      <3>2. PICK result \in results[r] :
               \/ \E review \in {"CONFIRMED", "REJECTED"} :
                     ReviewResult(r, result, review, result.status)
               \/ \E status \in OverrideStatuses : ReviewResult(r, result, "OVERRIDDEN", status)
        BY <3>1
      <3>3. result.status \in ResultStatuses
        BY DEF ResultsOK, Result
      <3>4. OverrideStatuses \subseteq ResultStatuses
        OBVIOUS
      <3>5. QED
        BY <3>2, <3>3, <3>4, ReviewKeepsResultsOK
    <2>3. ASSUME NEW c \in Clients, ClientStep(c) PROVE ResultsOK'
      BY <2>3, SpentGrows DEF ClientStep, BeginCreate, BeginRetry, BeginReview, Begin, CommitCreate,
                              CommitRefused, CommitRetry, CommitReview, ResultsOK
    <2>4. ASSUME NEW w \in Workers, WorkerStep(w) \/ Crash(w) PROVE ResultsOK'
      BY <2>4, SpentGrows DEF WorkerStep, Claim, ReadFinancial, ReadSpecialized, Complete, Fail,
                              Crash, ResultsOK
    <2>5. CASE UNCHANGED vars
      BY <2>5 DEF vars, ResultsOK
    <2>6. QED
      BY <2>1, <2>2, <2>3, <2>4, <2>5 DEF Next
  <1>3. QED
    BY <1>1, <1>2, PTL DEF Spec

-----------------------------------------------------------------------------
\* A run that is new or waits has attempts left.
RunTyped(x) ==
    /\ run[x].row \in Row
    /\ run[x].attempts \in 0 .. MaxAttempts
    /\ run[x].row.status \in {"NONE", "PENDING"} => run[x].attempts < MaxAttempts
    /\ DOMAIN run[x].findings \in {{}, Requirements}
    /\ \A r \in DOMAIN run[x].findings : run[x].findings[r] \in Finding

WorkerTyped(w) ==
    /\ worker[w].run \in Runs \cup {NoRun}
    /\ worker[w].loaded \in Row
    /\ \A r \in DOMAIN worker[w].findings : worker[w].findings[r] \in Finding

ClientTyped(c) ==
    /\ client[c].stage \in {"idle", "creating", "retrying", "reviewing"}
    /\ client[c].run \in Runs \cup {NoRun}
    /\ client[c].loaded \in Row

RunsTyped ==
    /\ \A x \in Runs : RunTyped(x)
    /\ \A w \in Workers : WorkerTyped(w)
    /\ \A c \in Clients : ClientTyped(c)

LEMMA NewRowTyped == NewRow \in Row
BY DEF NewRow, Row, RunStatuses, Outcomes

LEMMA StatusTyped ==
    ASSUME NEW row \in Row, NEW status \in RunStatuses
    PROVE  /\ [row EXCEPT !.status = status] \in Row
           /\ [row EXCEPT !.status = status].status = status
BY DEF Row

\* A flushed row has each of its columns from one of two rows.
LEMMA FlushTyped ==
    ASSUME NEW current \in Row, NEW loaded, NEW assigned \in Row
    PROVE  Flush(current, loaded, assigned) \in Row
  <1> DEFINE flushed == Flush(current, loaded, assigned)
  <1>1. DOMAIN current = {"status", "engine", "reviewed", "effective", "needsReview"}
    BY DEF Row
  <1>2. flushed = [c \in {"status", "engine", "reviewed", "effective", "needsReview"} |->
                     IF assigned[c] = loaded[c] THEN current[c] ELSE assigned[c]]
    BY <1>1 DEF Flush
  <1>3. flushed = [status |-> flushed["status"], engine |-> flushed["engine"],
                   reviewed |-> flushed["reviewed"], effective |-> flushed["effective"],
                   needsReview |-> flushed["needsReview"]]
    BY <1>2
  <1>4. /\ flushed["status"] \in RunStatuses /\ flushed["engine"] \in Outcomes
        /\ flushed["reviewed"] \in Outcomes /\ flushed["effective"] \in Outcomes
    BY <1>2 DEF Row
  <1>5. flushed["needsReview"] \in BOOLEAN
    BY <1>2 DEF Row
  <1> HIDE DEF flushed
  <1>6. QED
    BY <1>3, <1>4, <1>5 DEF Row, flushed

LEMMA FindingTyped ==
    ASSUME ResultsOK, NEW r \in Requirements, NEW finding \in FindingsOf(r, results[r])
    PROVE  finding \in Finding
  <1>1. /\ Traits[r].category \in Categories /\ Traits[r].applicability \in Applicability
        /\ Traits[r].criticality \in Criticalities /\ Traits[r].subsanability \in Subsanability
    BY RunsAssumption
  <1>2. NotEvaluated(r) \in Finding
    BY <1>1 DEF NotEvaluated, Finding, DecisionFindingOutcome
  <1>3. ASSUME NEW x \in results[r] PROVE FindingOf(r, x) \in Finding
    <2>1. x.status \in DecisionFindingOutcome /\ x.reviewed \in DecisionFindingOutcome
      BY DEF ResultsOK, Result, ResultStatuses
    <2>2. "NOT_APPLICABLE" \in Applicability /\ "requires_human_review" \in Flags
      BY DEF Applicability, Flags
    <2>3. QED
      BY <1>1, <2>1, <2>2 DEF FindingOf, Finding
  <1>4. QED
    BY <1>2, <1>3 DEF FindingsOf

LEMMA InitRunsTyped == Init => RunsTyped
  <1> SUFFICES ASSUME Init PROVE RunsTyped
    OBVIOUS
  <1> USE NewRowTyped, RunsAssumption
  <1>1. \A x \in Runs : RunTyped(x)
    <2>1. \A x \in Runs : run[x] = [row |-> NewRow, attempts |-> 0, findings |-> Nothing]
      BY DEF Init
    <2>2. DOMAIN Nothing = {}
      BY DEF Nothing
    <2>3. 0 \in 0 .. MaxAttempts /\ 0 < MaxAttempts
      OBVIOUS
    <2>4. QED
      BY <2>1, <2>2, <2>3 DEF RunTyped
  <1>2. \A w \in Workers : WorkerTyped(w)
    BY DEF Init, WorkerTyped, IdleWorker, Nothing
  <1>3. \A c \in Clients : ClientTyped(c)
    BY DEF Init, ClientTyped, IdleClient
  <1>4. QED
    BY <1>1, <1>2, <1>3 DEF RunsTyped

LEMMA ClientStepKeepsTypes ==
    ASSUME RunsInv, RunsTyped, NEW c \in Clients, ClientStep(c)
    PROVE  RunsTyped'
  <1> USE NewRowTyped, RunsAssumption
  <1>1. \A w \in Workers : WorkerTyped(w)'
    BY DEF ClientStep, BeginCreate, BeginRetry, BeginReview, Begin, CommitCreate, CommitRefused,
           CommitRetry, CommitReview, RunsTyped, WorkerTyped
  <1>2. \A d \in Clients : ClientTyped(d)'
    <2>1. ASSUME NEW d \in Clients \ {c} PROVE ClientTyped(d)'
      BY DEF ClientStep, BeginCreate, BeginRetry, BeginReview, Begin, CommitCreate, CommitRefused,
             CommitRetry, CommitReview, RunsTyped, ClientTyped, RunsInv
    <2>2. ASSUME client'[c] = IdleClient PROVE ClientTyped(c)'
      BY <2>2 DEF ClientTyped, IdleClient
    <2>3. ASSUME NEW force \in BOOLEAN, BeginCreate(c, force) PROVE ClientTyped(c)'
      BY <2>3 DEF BeginCreate, Begin, ClientTyped, IdleClient, RunsInv
    <2>4. ASSUME NEW x \in Runs, BeginRetry(c, x) PROVE ClientTyped(c)'
      BY <2>4 DEF BeginRetry, Begin, ClientTyped, RunsInv, RunsTyped, RunTyped
    <2>5. ASSUME NEW x \in Runs, BeginReview(c, x) PROVE ClientTyped(c)'
      BY <2>5 DEF BeginReview, Begin, ClientTyped, RunsInv, RunsTyped, RunTyped
    <2>6. ASSUME NEW x \in Runs, CommitCreate(c, x) PROVE client'[c] = IdleClient
      BY <2>6 DEF CommitCreate, RunsInv
    <2>7. CommitRefused(c) \/ CommitRetry(c) => client'[c] = IdleClient
      BY DEF CommitRefused, CommitRetry, RunsInv
    <2>8. ASSUME NEW action, NEW outcome, CommitReview(c, action, outcome)
          PROVE  client'[c] = IdleClient
      BY <2>8 DEF CommitReview, RunsInv
    <2>9. ClientTyped(c)'
      BY <2>2, <2>3, <2>4, <2>5, <2>6, <2>7, <2>8 DEF ClientStep
    <2>10. QED
      BY <2>1, <2>9
  <1>3. ASSUME NEW x \in Runs, NEW row \in Row, NEW attempts \in 0 .. MaxAttempts,
               row.status \in {"NONE", "PENDING"} => attempts < MaxAttempts,
               run' = [run EXCEPT ![x].row = row, ![x].attempts = attempts]
        PROVE  \A y \in Runs : RunTyped(y)'
    <2>1. /\ run'[x].row = row /\ run'[x].attempts = attempts
          /\ run'[x].findings = run[x].findings
          /\ \A y \in Runs \ {x} : run'[y] = run[y]
      BY <1>3 DEF RunsInv, RunOK
    <2>2. QED
      BY <1>3, <2>1 DEF RunsTyped, RunTyped
  <1>4. \A y \in Runs : RunTyped(y)'
    <2>1. CASE UNCHANGED run
      BY <2>1 DEF RunsTyped, RunTyped
    <2>2. ASSUME NEW x \in Runs, CommitCreate(c, x) PROVE \A y \in Runs : RunTyped(y)'
      <3> DEFINE row == [run[x].row EXCEPT !.status = "PENDING"]
      <3>1. row \in Row /\ run[x].attempts \in 0 .. MaxAttempts /\ run[x].attempts < MaxAttempts
        BY <2>2, StatusTyped DEF CommitCreate, RunsTyped, RunTyped, RunStatuses
      <3>2. run' = [run EXCEPT ![x].row = row, ![x].attempts = run[x].attempts]
        BY <2>2 DEF CommitCreate, RunsInv, RunOK
      <3> HIDE DEF row
      <3>3. QED
        BY <1>3, <3>1, <3>2
    <2>3. CASE CommitRetry(c)
      <3>1. PICK x \in Runs : x = client[c].run
        BY <2>3 DEF RunsInv, ClientOK, CommitRetry
      <3> DEFINE loaded == client[c].loaded
                 row == Flush(run[x].row, loaded, [loaded EXCEPT !.status = "PENDING"])
      <3>2. loaded \in Row /\ run[x].row \in Row
        BY DEF RunsTyped, ClientTyped, RunTyped
      <3>3. row \in Row
        BY <3>2, StatusTyped, FlushTyped DEF RunStatuses
      <3>4. run' = [run EXCEPT ![x].row = row, ![x].attempts = 0]
        BY <2>3, <3>1 DEF CommitRetry
      <3> HIDE DEF row
      <3>5. 0 \in 0 .. MaxAttempts /\ 0 < MaxAttempts
        OBVIOUS
      <3>6. QED
        BY <1>3, <3>3, <3>4, <3>5
    <2>4. ASSUME NEW action \in {"CONFIRM", "OVERRIDE", "REJECT"}, NEW outcome \in OverrideOutcomes,
                 CommitReview(c, action, outcome)
          PROVE  \A y \in Runs : RunTyped(y)'
      <3>1. PICK x \in Runs : x = client[c].run
        BY <2>4 DEF RunsInv, ClientOK, CommitReview
      <3>2. PICK loaded \in Row : loaded = client[c].loaded
        BY DEF RunsTyped, ClientTyped
      <3> DEFINE assigned == Reviewed(loaded, action, outcome)
                 row == Flush(run[x].row, loaded, assigned)
      <3>3. run[x].row \in Row
        BY DEF RunsTyped, RunTyped
      <3>4. assigned \in Row /\ assigned.status = loaded.status
        BY DEF Reviewed, Row, Outcomes
      <3>5. row \in Row
        BY <3>3, <3>4, FlushTyped
      <3>6. row.status = run[x].row.status
        <4> HIDE DEF assigned
        <4>1. QED
          BY <3>3, <3>4 DEF Flush, Row
      <3>7. run' = [run EXCEPT ![x].row = row, ![x].attempts = run[x].attempts]
        BY <2>4, <3>1, <3>2 DEF CommitReview, RunsInv, RunOK
      <3>8. /\ run[x].attempts \in 0 .. MaxAttempts
            /\ run[x].row.status \in {"NONE", "PENDING"} => run[x].attempts < MaxAttempts
        BY DEF RunsTyped, RunTyped
      <3> HIDE DEF row
      <3>9. QED
        BY <1>3, <3>5, <3>6, <3>7, <3>8
    <2>5. QED
      BY <2>1, <2>2, <2>3, <2>4 DEF ClientStep, BeginCreate, BeginRetry, BeginReview, Begin,
                                    CommitRefused
  <1>5. QED
    BY <1>1, <1>2, <1>4 DEF RunsTyped

LEMMA WorkerStepKeepsTypes ==
    ASSUME RunsInv, RunsTyped, ResultsOK, NEW w \in Workers, WorkerStep(w) \/ Crash(w)
    PROVE  RunsTyped'
  <1> USE NewRowTyped, RunsAssumption
  <1>1. \A c \in Clients : ClientTyped(c)'
    BY DEF WorkerStep, Claim, ReadFinancial, ReadSpecialized, Complete, Fail, Crash,
           RunsTyped, ClientTyped
  <1>2. ASSUME worker' = [worker EXCEPT ![w] = IdleWorker]
        PROVE  \A v \in Workers : WorkerTyped(v)'
    <2>1. worker'[w] = IdleWorker /\ \A v \in Workers \ {w} : worker'[v] = worker[v]
      BY <1>2 DEF RunsInv
    <2>2. WorkerTyped(w)'
      BY <2>1 DEF WorkerTyped, IdleWorker, Nothing
    <2>3. QED
      BY <2>1, <2>2 DEF RunsTyped, WorkerTyped
  <1>3. ASSUME NEW pick, worker' = [worker EXCEPT ![w].stage = worker'[w].stage, ![w].findings = pick],
               \A r \in DOMAIN pick : pick[r] \in Finding
        PROVE  \A v \in Workers : WorkerTyped(v)'
    <2>1. /\ DOMAIN worker = Workers
          /\ DOMAIN worker[w] = {"stage", "run", "loaded", "findings"}
      BY DEF RunsInv, WorkerOK
    <2>2. /\ worker'[w].run = worker[w].run /\ worker'[w].loaded = worker[w].loaded
          /\ worker'[w].findings = pick /\ \A v \in Workers \ {w} : worker'[v] = worker[v]
      BY <1>3, <2>1
    <2>3. QED
      BY <1>3, <2>2 DEF RunsTyped, WorkerTyped
  <1>4. ASSUME NEW R \in SUBSET Requirements, NEW pick \in Collected(R, results)
        PROVE  DOMAIN pick = R /\ \A r \in R : pick[r] \in Finding
    BY <1>4, FindingTyped DEF Collected
  <1>5. ASSUME NEW x \in Runs, Claim(w, x) PROVE RunsTyped'
    <2> DEFINE row == [run[x].row EXCEPT !.status = "PROCESSING"]
    <2>1. row \in Row /\ row.status = "PROCESSING"
      BY StatusTyped DEF RunsTyped, RunTyped, RunStatuses
    <2>2. /\ run'[x].row = row /\ run'[x].attempts = run[x].attempts + 1
          /\ run'[x].findings = run[x].findings
          /\ \A y \in Runs \ {x} : run'[y] = run[y]
      BY <1>5 DEF Claim, RunsInv, RunOK
    <2>3. /\ worker'[w] = [stage |-> "claimed", run |-> x, findings |-> Nothing, loaded |-> row]
          /\ \A v \in Workers \ {w} : worker'[v] = worker[v]
      BY <1>5 DEF Claim, RunsInv
    <2>4. run[x].row.status = "PENDING"
      BY <1>5 DEF Claim
    <2> HIDE DEF row
    <2>5. run'[x].attempts \in 0 .. MaxAttempts
      BY <2>2, <2>4 DEF RunsTyped, RunTyped
    <2>6. RunTyped(x)'
      BY <2>1, <2>2, <2>5 DEF RunsTyped, RunTyped
    <2>7. \A y \in Runs : RunTyped(y)'
      BY <2>2, <2>6 DEF RunsTyped, RunTyped
    <2>8. WorkerTyped(w)'
      BY <2>1, <2>3 DEF WorkerTyped, Nothing
    <2>9. \A v \in Workers : WorkerTyped(v)'
      BY <2>3, <2>8 DEF RunsTyped, WorkerTyped
    <2>10. QED
      BY <1>1, <2>7, <2>9 DEF RunsTyped
  <1>6. ASSUME UNCHANGED run PROVE \A y \in Runs : RunTyped(y)'
    BY <1>6 DEF RunsTyped, RunTyped
  <1>7. CASE ReadFinancial(w)
    <2>1. PICK pick \in Collected({r \in Requirements : IsFinancial(r)}, results) :
             worker' = [worker EXCEPT ![w].stage = "reading", ![w].findings = pick]
      BY <1>7 DEF ReadFinancial
    <2>2. \A r \in DOMAIN pick : pick[r] \in Finding
      BY <1>4
    <2>3. worker'[w].stage = "reading"
      BY <2>1 DEF RunsInv, WorkerOK
    <2>4. QED
      BY <1>1, <1>3, <1>6, <1>7, <2>1, <2>2, <2>3 DEF ReadFinancial, RunsTyped
  <1>8. CASE ReadSpecialized(w)
    <2> DEFINE old == worker[w].findings
    <2>1. PICK pick \in Collected(Requirements \ DOMAIN old, results) :
             worker' = [worker EXCEPT ![w].stage = "deciding", ![w].findings =
                           [r \in Requirements |-> IF r \in DOMAIN @ THEN @[r] ELSE pick[r]]]
      BY <1>8 DEF ReadSpecialized
    <2>2. PICK both : both = [r \in Requirements |-> IF r \in DOMAIN old THEN old[r] ELSE pick[r]]
      OBVIOUS
    <2>3. worker' = [worker EXCEPT ![w].stage = "deciding", ![w].findings = both]
      BY <2>1, <2>2 DEF RunsInv, WorkerOK
    <2>4. \A r \in Requirements \ DOMAIN old : pick[r] \in Finding
      BY <1>4
    <2>5. \A r \in DOMAIN old : old[r] \in Finding
      BY DEF RunsTyped, WorkerTyped
    <2>6. \A r \in DOMAIN both : both[r] \in Finding
      <3> HIDE DEF old
      <3>1. QED
        BY <2>2, <2>4, <2>5
    <2>7. worker'[w].stage = "deciding"
      BY <2>3 DEF RunsInv, WorkerOK
    <2>8. QED
      BY <1>1, <1>3, <1>6, <1>8, <2>3, <2>6, <2>7 DEF ReadSpecialized, RunsTyped
  <1>9. CASE Complete(w)
    <2>1. PICK x \in Runs : x = worker[w].run
      BY <1>9 DEF RunsInv, WorkerOK, Complete
    <2>2. PICK loaded \in Row : loaded = worker[w].loaded
      BY DEF RunsTyped, WorkerTyped
    <2>3. PICK f : f = worker[w].findings
      OBVIOUS
    <2> DEFINE assigned == [status |-> "COMPLETED", engine |-> Decide(Policy, f),
                            effective |-> Decide(Policy, f), reviewed |-> loaded.reviewed,
                            needsReview |-> RequiresHumanReview(f)]
               row == Flush(run[x].row, loaded, assigned)
    <2>4. DOMAIN f = Requirements /\ \A r \in Requirements : f[r] \in Finding
      BY <1>9, <2>3 DEF RunsInv, WorkerOK, RunsTyped, WorkerTyped, Complete
    <2>5. Decide(Policy, f) \in Outcomes /\ loaded.reviewed \in Outcomes
          /\ "COMPLETED" \in RunStatuses
      BY OutcomeOfDecide DEF Outcomes, Row, RunStatuses
    <2>6. RequiresHumanReview(f) \in BOOLEAN
      BY DEF RequiresHumanReview
    <2>7. assigned \in Row
      BY <2>5, <2>6 DEF Row
    <2>8. row \in Row
      BY <2>7, FlushTyped DEF RunsTyped, RunTyped
    <2>9. run' = [run EXCEPT ![x].row = row, ![x].findings = f]
      BY <1>9, <2>1, <2>2, <2>3 DEF Complete
    <2>10. row.status = "COMPLETED"
      <3>1. loaded.status = "PROCESSING"
        BY <1>9, <2>2 DEF RunsInv, WorkerOK, Complete
      <3>2. DOMAIN run[x].row = Columns
        BY DEF RunsInv, RunOK, RowOK
      <3>3. QED
        BY <3>1, <3>2 DEF Flush, Columns
    <2> HIDE DEF row, assigned
    <2>11. /\ run'[x].row = row /\ run'[x].findings = f /\ run'[x].attempts = run[x].attempts
           /\ \A y \in Runs \ {x} : run'[y] = run[y]
      BY <2>9 DEF RunsInv, RunOK
    <2>12. RunTyped(x)'
      BY <2>4, <2>8, <2>10, <2>11 DEF RunsTyped, RunTyped
    <2>13. \A y \in Runs : RunTyped(y)'
      BY <2>11, <2>12 DEF RunsTyped, RunTyped
    <2>14. QED
      BY <1>1, <1>2, <1>9, <2>13 DEF Complete, RunsTyped
  <1>10. CASE Fail(w)
    <2>1. PICK x \in Runs : x = worker[w].run
      BY <1>10 DEF RunsInv, WorkerOK, Fail
    <2>2. PICK status \in {"PENDING", "FAILED"} :
             /\ status = "PENDING" => run[x].attempts < MaxAttempts
             /\ run' = [run EXCEPT ![x].row.status = status]
      BY <1>10, <2>1 DEF Fail
    <2> DEFINE row == [run[x].row EXCEPT !.status = status]
    <2>3. row \in Row /\ row.status = status
      <3>1. run[x].row \in Row /\ status \in RunStatuses
        BY DEF RunsTyped, RunTyped, RunStatuses
      <3>2. QED
        BY <3>1, StatusTyped
    <2>4. /\ run'[x].row = row /\ run'[x].attempts = run[x].attempts
          /\ run'[x].findings = run[x].findings
          /\ \A y \in Runs \ {x} : run'[y] = run[y]
      BY <2>2 DEF RunsInv, RunOK
    <2> HIDE DEF row
    <2>5. RunTyped(x)'
      BY <2>2, <2>3, <2>4 DEF RunsTyped, RunTyped
    <2>6. \A y \in Runs : RunTyped(y)'
      BY <2>4, <2>5 DEF RunsTyped, RunTyped
    <2>7. QED
      BY <1>1, <1>2, <1>10, <2>6 DEF Fail, RunsTyped
  <1>11. CASE Crash(w)
    BY <1>1, <1>2, <1>6, <1>11 DEF Crash, RunsTyped
  <1>12. QED
    BY <1>5, <1>7, <1>8, <1>9, <1>10, <1>11 DEF WorkerStep

\* The rows of runs are typed, no run is attempted more often than it may, and the
\* findings stored with a run, and those a worker has collected, are findings.
THEOREM RunsTyping == Spec => []TypeOK
  <1>1. RunsInv /\ ResultsOK /\ RunsTyped /\ [Next]_vars => RunsTyped'
    <2> SUFFICES ASSUME RunsInv, ResultsOK, RunsTyped, [Next]_vars PROVE RunsTyped'
      OBVIOUS
    <2>1. ASSUME UNCHANGED <<run, worker, client>> PROVE RunsTyped'
      BY <2>1 DEF RunsTyped, RunTyped, WorkerTyped, ClientTyped
    <2>2. CASE \E k \in Categories : CompleteSpecialized(k)
      BY <2>1, <2>2 DEF CompleteSpecialized
    <2>3. CASE ReviewStep
      BY <2>1, <2>3 DEF ReviewStep, ReviewResult
    <2>4. CASE UNCHANGED vars
      BY <2>1, <2>4 DEF vars
    <2>5. QED
      BY <2>2, <2>3, <2>4, ClientStepKeepsTypes, WorkerStepKeepsTypes DEF Next
  <1>2. Spec => []RunsTyped
    BY <1>1, InitRunsTyped, RunsInvariant, RunsResultsTyped, PTL DEF Spec
  <1>3. RunsInv /\ ResultsOK /\ RunsTyped => TypeOK
    BY DEF RunsInv, WorkerOK, ResultsOK, Spent, RunsTyped, RunTyped, WorkerTyped, ClientTyped, TypeOK
  <1>4. QED
    BY <1>2, <1>3, RunsInvariant, RunsResultsTyped, PTL

-----------------------------------------------------------------------------
\* There is some way to collect the findings, and among the decisions they lead to a
\* worst one.
LEMMA WorstIsReached ==
    ASSUME NEW rows
    PROVE  /\ \E f \in Collected(Requirements, rows) : WorstRank(rows) = Policy.rank[Decide(Policy, f)]
           /\ \A f \in Collected(Requirements, rows) : WorstRank(rows) <= Policy.rank[Decide(Policy, f)]
  <1> DEFINE ranks == {Policy.rank[Decide(Policy, f)] : f \in Collected(Requirements, rows)}
  <1>1. Collected(Requirements, rows) # {}
    <2>1. \A r \in Requirements : FindingsOf(r, rows[r]) # {}
      BY DEF FindingsOf
    <2> DEFINE f == [r \in Requirements |-> CHOOSE x \in FindingsOf(r, rows[r]) : TRUE]
    <2>2. \A r \in Requirements : f[r] \in FindingsOf(r, rows[r])
      BY <2>1
    <2>3. f \in [Requirements -> UNION {FindingsOf(r, rows[r]) : r \in Requirements}]
      BY <2>2
    <2>4. QED
      BY <2>2, <2>3 DEF Collected
  <1>2. ranks \in SUBSET (1 .. 6) /\ ranks # {}
    BY <1>1, OutcomeOfDecide, RunsAssumption DEF DecisionPolicy
  <1>3. \E n \in ranks : \A m \in ranks : n <= m
    <2> HIDE DEF ranks
    <2>1. QED
      BY <1>2, SomeRankIsLeast
  <1>4. WorstRank(rows) \in ranks /\ \A m \in ranks : WorstRank(rows) <= m
    BY <1>3 DEF WorstRank
  <1>5. QED
    BY <1>4

LEMMA AdaptersArePlain ==
    ASSUME NEW r, NEW rows, NEW finding \in FindingsOf(r, rows)
    PROVE  finding.flags \subseteq {"requires_human_review"}
  <1>1. NotEvaluated(r).flags = {}
    BY DEF NotEvaluated
  <1>2. ASSUME NEW x PROVE FindingOf(r, x).flags \subseteq {"requires_human_review"}
    BY DEF FindingOf
  <1>3. QED
    BY <1>1, <1>2 DEF FindingsOf

\* Whatever is collected after a result was overridden to COMPLIES could have been
\* collected before, but for a better answer to its requirement.
LEMMA FixCollectsBetter ==
    ASSUME ResultsOK, NEW q \in Requirements, NEW result \in results[q],
           FindingOf(q, result).outcome # "NOT_APPLICABLE",
           ReviewResult(q, result, "OVERRIDDEN", "COMPLIES"),
           NEW g \in Collected(Requirements, results')
    PROVE  \E f \in Collected(Requirements, results) : f = g \/ (Plain(f) /\ Fixed(f, g, q))
  <1> DEFINE fixed == [result EXCEPT !.review = "OVERRIDDEN", !.reviewed = "COMPLIES"]
  <1>1. /\ results'[q] = (results[q] \ {result}) \cup {fixed}
        /\ \A r \in Requirements \ {q} : results'[r] = results[r]
    BY DEF ReviewResult, ResultsOK
  <1>2. fixed.review = "OVERRIDDEN" /\ fixed.reviewed = "COMPLIES"
    BY DEF ResultsOK, Result
  <1>3. /\ DOMAIN g = Requirements /\ \A r \in Requirements : g[r] \in FindingsOf(r, results'[r])
    BY DEF Collected
  <1>4. CASE g[q] \in FindingsOf(q, results[q])
    <2>1. \A r \in Requirements : g[r] \in FindingsOf(r, results[r])
      BY <1>1, <1>3, <1>4
    <2>2. g \in [Requirements -> UNION {FindingsOf(r, results[r]) : r \in Requirements}]
      BY <1>3, <2>1 DEF Collected
    <2>3. QED
      BY <2>1, <2>2 DEF Collected
  <1>5. CASE g[q] \notin FindingsOf(q, results[q])
    <2> DEFINE f == [r \in Requirements |-> IF r = q THEN FindingOf(q, result) ELSE g[r]]
    <2>1. g[q] = FindingOf(q, fixed)
      <3>1. PICK x \in (results[q] \ {result}) \cup {fixed} : g[q] = FindingOf(q, x)
        BY <1>1, <1>3 DEF FindingsOf
      <3>2. x \notin results[q]
        BY <1>5, <3>1 DEF FindingsOf
      <3>3. QED
        BY <3>1, <3>2
    <2>2. \A r \in Requirements : f[r] \in FindingsOf(r, results[r])
      BY <1>1, <1>3 DEF FindingsOf
    <2>3. f \in Collected(Requirements, results)
      BY <2>2 DEF Collected
    <2>4. Plain(f)
      BY <2>2, AdaptersArePlain DEF Plain
    <2>5. Fixed(f, g, q)
      <3>1. g[q].outcome = "COMPLIES" /\ g[q].flags = {}
            /\ g[q].applicability = Traits[q].applicability /\ g[q].category = Traits[q].category
        <4> HIDE DEF fixed
        <4>1. QED
          BY <1>2, <2>1 DEF FindingOf
      <3>2. f[q].applicability = Traits[q].applicability /\ f[q].category = Traits[q].category
        <4>1. f[q] = FindingOf(q, result)
          OBVIOUS
        <4>2. FindingOf(q, result).outcome # "NOT_APPLICABLE"
          OBVIOUS
        <4> HIDE DEF f
        <4>3. QED
          BY <4>1, <4>2 DEF FindingOf
      <3>3. QED
        BY <1>3, <3>1, <3>2 DEF Fixed
    <2>6. QED
      BY <2>3, <2>4, <2>5
  <1>6. QED
    BY <1>4, <1>5

\* Overriding a result to COMPLIES never makes the worst outcome a new run could reach
\* worse, for every set of requirements and results, under a policy that puts nothing
\* the failures suggest after PENDIENTE_INFORMACION.
THEOREM RunsFixNeverHurts == ASSUME PendingComesLast PROVE Spec => FixNeverHurts
  <1> DEFINE Step == \A r \in Requirements : \A result \in results[r] :
                        (/\ FindingOf(r, result).outcome # "NOT_APPLICABLE"
                         /\ ReviewResult(r, result, "OVERRIDDEN", "COMPLIES"))
                            => WorstRank(results) <= WorstRank(results')
  <1>1. ResultsOK => Step
    <2> SUFFICES ASSUME ResultsOK, NEW r \in Requirements, NEW result \in results[r],
                        FindingOf(r, result).outcome # "NOT_APPLICABLE",
                        ReviewResult(r, result, "OVERRIDDEN", "COMPLIES")
                 PROVE  WorstRank(results) <= WorstRank(results')
      OBVIOUS
    <2>1. PICK g \in Collected(Requirements, results') :
             WorstRank(results') = Policy.rank[Decide(Policy, g)]
      BY WorstIsReached
    <2>2. PICK f \in Collected(Requirements, results) : f = g \/ (Plain(f) /\ Fixed(f, g, r))
      BY FixCollectsBetter
    <2>3. Policy.rank[Decide(Policy, f)] <= Policy.rank[Decide(Policy, g)]
      BY <2>2, FixDecidedNoWorse, OutcomeOfDecide, RunsAssumption DEF DecisionPolicy
    <2>4. WorstRank(results) <= Policy.rank[Decide(Policy, f)]
      BY WorstIsReached
    <2>5. \A h : Policy.rank[Decide(Policy, h)] \in Nat
      BY OutcomeOfDecide, RunsAssumption DEF DecisionPolicy
    <2>6. WorstRank(results) \in Nat
      BY <2>5, WorstIsReached
    <2>7. QED
      BY <2>1, <2>3, <2>4, <2>5, <2>6
  <1>2. [][Step]_vars => FixNeverHurts
    BY PTL DEF FixNeverHurts
  <1>3. QED
    BY <1>1, <1>2, RunsResultsTyped, PTL
=============================================================================
