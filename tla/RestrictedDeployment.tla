--------------------------- MODULE RestrictedDeployment ---------------------------
(***************************************************************************)
(* The controller of the restricted host: deployments, rollbacks, backups, *)
(* their retention and the check that one can be restored, while the       *)
(* application goes on storing documents.                                  *)
(*                                                                         *)
(* A document is a file in the storage and a row in the database: the file *)
(* is written first, and removed again when the database raises, be it on  *)
(* the row itself or on reading back what was committed. A release is a    *)
(* number, which is also the last migration that it brings; 0 is no release*)
(* at all. Two releases may be built under one tag: compose gives every    *)
(* image the tag 'restricted' unless the operator sets another. Commands   *)
(* run at the same time, except for two deployments (no lock prevents it). *)
(***************************************************************************)
EXTENDS Integers, Sequences, FiniteSets, SequencesExt

CONSTANTS
    Documents,      \* the documents that users upload, each under a key of its own
    Uploaders,      \* requests that upload, at the same time
    Releases,       \* the releases, numbered from 1
    TagOf,          \* [Releases -> the image tag the operator builds it under]
    RetentionDays,  \* PLIEGOCHECK_BACKUP_RETENTION_DAYS
    MaxBackups, MaxDays, MaxDeploys,    \* bounds on backups, days and commands
    FaultBudget     \* bound on commands that fail or are killed

ASSUME ReleasesAreNumbered == Releases \subseteq Nat \ {0}

VARIABLES
    rows,       \* the documents the database has
    files,      \* the documents the storage has
    uploads,    \* [Uploaders -> the document being uploaded, its row committed or not, or Idle]
    schema,     \* the last migration applied
    images,     \* [tags -> the release built last under it]
    running,    \* [Services -> the release that runs, or 0]
    deploying,  \* the deployment under way, or Idle
    backups,    \* the restricted-* directories, oldest first
    backup,     \* the backup under way, or Idle
    lock,       \* .backup.lock exists
    restoring,  \* the backup whose restore is being verified, or Idle
    databases,  \* how many pliegocheck_verify_* databases there are
    spent

deployVars == <<schema, images, running, deploying>>
backupVars == <<backups, backup, lock, restoring, databases>>
vars == <<rows, files, uploads, deployVars, backupVars, spent>>

Services == {"api", "worker", "scheduler"}      \* the web and the proxy come and go with the API
Idle == [op |-> "idle"]

Init ==
    /\ rows = {} /\ files = {}
    /\ uploads = [u \in Uploaders |-> Idle]
    /\ schema = 0
    /\ images = [t \in {TagOf[r] : r \in Releases} |-> 0]
    /\ running = [s \in Services |-> 0]
    /\ deploying = Idle
    /\ backups = <<>> /\ backup = Idle /\ lock = FALSE
    /\ restoring = Idle /\ databases = 0
    /\ spent = [days |-> 0, deploys |-> 0, faults |-> 0]

Faulty == spent.faults < FaultBudget /\ spent' = [spent EXCEPT !.faults = @ + 1]
Commanded == spent.deploys < MaxDeploys /\ spent' = [spent EXCEPT !.deploys = @ + 1]

-----------------------------------------------------------------------------
\* _store_one_file: the file is saved, under a key that no document has had, before the
\* row is committed.
SaveFile(u, d) ==
    /\ running["api"] # 0 /\ uploads[u] = Idle
    /\ d \notin rows \cup files
    /\ files' = files \cup {d}
    /\ uploads' = [uploads EXCEPT ![u] = [op |-> "upload", document |-> d, committed |-> FALSE]]
    /\ UNCHANGED <<rows, deployVars, backupVars, spent>>

CommitRow(u) ==
    /\ uploads[u] # Idle /\ ~uploads[u].committed
    /\ rows' = rows \cup {uploads[u].document}
    /\ uploads' = [uploads EXCEPT ![u].committed = TRUE]
    /\ UNCHANGED <<files, deployVars, backupVars, spent>>

\* session.refresh reads the row back, and the request is answered.
Refresh(u) ==
    /\ uploads[u] # Idle /\ uploads[u].committed
    /\ uploads' = [uploads EXCEPT ![u] = Idle]
    /\ UNCHANGED <<rows, files, deployVars, backupVars, spent>>

\* The database raises on the commit or on the refresh, and _delete_compensating removes
\* the file, or fails to and leaves it: after the commit it is the file of a row.
DatabaseRaises(u) ==
    /\ uploads[u] # Idle /\ Faulty
    /\ files' \in {files, files \ {uploads[u].document}}
    /\ uploads' = [uploads EXCEPT ![u] = Idle]
    /\ UNCHANGED <<rows, deployVars, backupVars>>

-----------------------------------------------------------------------------
\* Mutant of Stages: the services are started before the migrations.
StagesUpFirst == <<"build", "up", "migrate">>

Stages == <<"build", "migrate", "up">>

BeginDeploy(r, scheduler) ==
    /\ deploying = Idle /\ Commanded
    /\ deploying' = [op |-> "deploy", release |-> r, scheduler |-> scheduler, done |-> 0]
    /\ UNCHANGED <<rows, files, uploads, schema, images, running, backupVars>>

DeployStep ==
    LET r == deploying.release
        stage == Stages[deploying.done + 1] IN
    /\ deploying # Idle
    /\ \/ /\ stage = "build"
          /\ images' = [images EXCEPT ![TagOf[r]] = r]
          /\ UNCHANGED <<schema, running>>
       \/ /\ stage = "migrate"
          /\ r >= schema                    \* an older release does not know the revision
          /\ schema' = r
          /\ UNCHANGED <<images, running>>
       \/ /\ stage = "up"                   \* a scheduler that is not asked for is left as it is
          /\ running' = [s \in Services |->
                IF s = "scheduler" /\ ~deploying.scheduler THEN running[s] ELSE images[TagOf[r]]]
          /\ UNCHANGED <<schema, images>>
    /\ deploying' = IF deploying.done + 1 = Len(Stages) THEN Idle
                    ELSE [deploying EXCEPT !.done = @ + 1]
    /\ UNCHANGED <<rows, files, uploads, backupVars, spent>>

\* A command that fails ends the deployment where it is.
DeployFails ==
    /\ deploying # Idle
    /\ IF Stages[deploying.done + 1] = "migrate" /\ deploying.release < schema
       THEN UNCHANGED spent ELSE Faulty
    /\ deploying' = Idle
    /\ UNCHANGED <<rows, files, uploads, schema, images, running, backupVars>>

\* rollback to a tag, whatever was built under it last: a backup must verify and the image
\* be there; the database stays as it is, and the scheduler is not started again.
Rollback(r) ==
    /\ backups # <<>> /\ images[TagOf[r]] # 0
    /\ Commanded
    /\ running' = [s \in Services |-> IF s = "scheduler" THEN 0 ELSE images[TagOf[r]]]
    /\ UNCHANGED <<rows, files, uploads, schema, images, deploying, backupVars>>

\* The workers are stopped, and then the services do not start.
RollbackFails(r) ==
    /\ backups # <<>> /\ images[TagOf[r]] # 0
    /\ Faulty
    /\ running' = [running EXCEPT !["worker"] = 0, !["scheduler"] = 0]
    /\ UNCHANGED <<rows, files, uploads, schema, images, deploying, backupVars>>

Stop ==
    /\ Commanded
    /\ running' = [s \in Services |-> 0]
    /\ UNCHANGED <<rows, files, uploads, schema, images, deploying, backupVars>>

-----------------------------------------------------------------------------
\* Mutant of Parts: the storage is archived first.
PartsStorageFirst == <<"storage", "database">>

Parts == <<"database", "storage">>

BeginBackup ==
    /\ ~lock /\ Len(backups) < MaxBackups
    /\ lock' = TRUE
    /\ backup' = [op |-> "backup", done |-> 0, rows |-> {}, files |-> {}]
    /\ UNCHANGED <<rows, files, uploads, deployVars, backups, restoring, databases, spent>>

BackupStep ==
    /\ backup # Idle /\ backup.done < Len(Parts)
    /\ backup' = IF Parts[backup.done + 1] = "database"
                 THEN [backup EXCEPT !.done = @ + 1, !.rows = rows]
                 ELSE [backup EXCEPT !.done = @ + 1, !.files = files]
    /\ UNCHANGED <<rows, files, uploads, deployVars, backups, lock, restoring, databases, spent>>

\* The temporary directory gets its name, and the lock is released.
PublishBackup ==
    /\ backup # Idle /\ backup.done = Len(Parts)
    /\ backups' = Append(backups, [rows |-> backup.rows, files |-> backup.files, age |-> 0])
    /\ backup' = Idle /\ lock' = FALSE
    /\ UNCHANGED <<rows, files, uploads, deployVars, restoring, databases, spent>>

BackupFails ==
    /\ backup # Idle /\ Faulty
    /\ backup' = Idle /\ lock' = FALSE
    /\ UNCHANGED <<rows, files, uploads, deployVars, backups, restoring, databases>>

\* The controller is killed: the finally clause does not run.
BackupKilled ==
    /\ backup # Idle /\ Faulty
    /\ backup' = Idle
    /\ UNCHANGED <<rows, files, uploads, deployVars, backups, lock, restoring, databases>>

\* restore_verify, on the last backup, in a database of its own
BeginRestore ==
    /\ restoring = Idle /\ backups # <<>>
    /\ restoring' = Last(backups)
    /\ databases' = databases + 1
    /\ UNCHANGED <<rows, files, uploads, deployVars, backups, backup, lock, spent>>

EndRestore ==
    /\ restoring # Idle
    /\ restoring' = Idle /\ databases' = databases - 1
    /\ UNCHANGED <<rows, files, uploads, deployVars, backups, backup, lock, spent>>

RestoreKilled ==
    /\ restoring # Idle /\ Faulty
    /\ restoring' = Idle
    /\ UNCHANGED <<rows, files, uploads, deployVars, backups, backup, lock, databases>>

Day ==
    /\ spent.days < MaxDays
    /\ spent' = [spent EXCEPT !.days = @ + 1]
    /\ backups' = [n \in DOMAIN backups |-> [backups[n] EXCEPT !.age = @ + 1]]
    /\ UNCHANGED <<rows, files, uploads, deployVars, backup, lock, restoring, databases>>

\* retention --confirm-retention: whatever is older than the days that are kept, up to
\* the last of the backups
Retention ==
    /\ \E n \in DOMAIN backups :
          /\ backups[n].age > RetentionDays
          /\ \A k \in DOMAIN backups : k > n => backups[k].age <= RetentionDays
          /\ backups' = SubSeq(backups, n + 1, Len(backups))
    /\ UNCHANGED <<rows, files, uploads, deployVars, backup, lock, restoring, databases, spent>>

Next ==
    \/ \E u \in Uploaders : \/ CommitRow(u) \/ Refresh(u) \/ DatabaseRaises(u)
                            \/ \E d \in Documents : SaveFile(u, d)
    \/ \E r \in Releases : \/ Rollback(r) \/ RollbackFails(r)
                           \/ \E scheduler \in BOOLEAN : BeginDeploy(r, scheduler)
    \/ DeployStep \/ DeployFails \/ Stop
    \/ BeginBackup \/ BackupStep \/ PublishBackup \/ BackupFails \/ BackupKilled
    \/ BeginRestore \/ EndRestore \/ RestoreKilled
    \/ Day \/ Retention

Spec == Init /\ [][Next]_vars

-----------------------------------------------------------------------------
TypeOK ==
    /\ rows \subseteq Documents /\ files \subseteq Documents
    /\ \A s \in Services : running[s] \in Releases \cup {0}
    /\ schema \in Releases \cup {0}
    /\ lock \in BOOLEAN /\ databases \in Nat
    /\ \A n \in DOMAIN backups : backups[n].rows \subseteq Documents

\* What a backup lacks the host has lost too: a document of the dump is in the archive,
\* though documents are stored and removed while the two are copied one after the other,
\* unless its file was removed behind its row.
BackupComplete ==
    \A n \in DOMAIN backups : backups[n].rows \ backups[n].files \subseteq rows \ files

\* Whether a service runs that was written for migrations the database does not have.
Ahead(s) == running[s] > schema

\* Nothing but a rollback puts a service ahead of the schema: a deployment does not, at
\* whatever command it stops, and what it leaves running it leaves behind.
AheadByRollback ==
    [][\A s \in Services : Ahead(s)' => Ahead(s) \/ \E r \in Releases : Rollback(r)]_vars

-----------------------------------------------------------------------------
\* What the documents lead to expect, and is refuted (README, "Disagreements").

\* docs/ADR-002: when the database fails after the file was saved, the file is removed; it
\* is of no row then.
RowsHaveFiles == rows \subseteq files

\* docs/restricted-rollback.md: a rollback is not made over a schema that does not fit.
SchemaNeverBehind == \A s \in Services : ~Ahead(s)

\* The services that run are of one release.
OneRelease ==
    deploying = Idle =>
        \A s, o \in Services : (running[s] # 0 /\ running[o] # 0) => running[s] = running[o]

\* A lock that nobody holds any more stops every later backup.
LockIsHeld == lock => backup # Idle
=============================================================================
