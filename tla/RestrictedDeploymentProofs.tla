----------------------- MODULE RestrictedDeploymentProofs -----------------------
(***************************************************************************)
(* Two promises of the restricted host, for every number of releases,      *)
(* documents, uploads, backups and days: a backup lacks no file that the   *)
(* host has, and only a rollback puts a service ahead of the schema.       *)
(*                                                                         *)
(* The first rests on the order of two things that nothing else ties       *)
(* together: an upload writes the file before the row, and a backup copies *)
(* the database before the storage; and on a key being used once, so that  *)
(* the file of a row that is lost does not come back. The second rests on  *)
(* the order of the stages of a deployment, and on deployments being made  *)
(* one at a time; tags may be shared.                                      *)
(***************************************************************************)
EXTENDS RestrictedDeployment, SequenceTheorems, TLAPS

-----------------------------------------------------------------------------
\* The rows whose file was removed.
Lost == rows \ files

Upload == [op : {"upload"}, document : Documents, committed : BOOLEAN]

\* An upload holds a file, that has its row once it is committed, and that no other holds.
UploadsOK ==
    /\ uploads \in [Uploaders -> {Idle} \cup Upload]
    /\ \A u \in Uploaders : uploads[u] # Idle =>
          /\ uploads[u].document \in files
          /\ uploads[u].document \in rows <=> uploads[u].committed
    /\ \A u, v \in Uploaders :
          (uploads[u] # Idle /\ uploads[v] # Idle /\ uploads[u].document = uploads[v].document)
              => u = v

BackupFields == {"op", "done", "rows", "files"}

\* A backup under way has rows of the database, and once the storage is copied all their
\* files but lost ones.
BackupOK ==
    backup # Idle =>
        /\ DOMAIN backup = BackupFields
        /\ backup.done \in 0 .. 2
        /\ backup.rows \subseteq rows
        /\ backup.done = 2 => backup.rows \ backup.files \subseteq Lost

IsSequence(s) == \E S : s \in Seq(S)

BackupsOK ==
    /\ IsSequence(backups)
    /\ \A n \in DOMAIN backups : DOMAIN backups[n] = {"rows", "files", "age"}
    /\ BackupComplete

StorageInv == UploadsOK /\ BackupOK /\ BackupsOK

LEMMA InitStorageInv == Init => StorageInv
  BY DEF Init, StorageInv, UploadsOK, BackupOK, BackupsOK, BackupComplete, IsSequence

UploadStep(u) ==
    CommitRow(u) \/ Refresh(u) \/ DatabaseRaises(u) \/ \E d \in Documents : SaveFile(u, d)

\* Whatever an upload does, rows stay, and so do lost rows: their keys are not used again.
LEMMA UploadsKeepStorageInv ==
    ASSUME StorageInv, NEW u \in Uploaders, UploadStep(u)
    PROVE  StorageInv'
  <1> USE DEF StorageInv
  <1>1. UNCHANGED <<backup, backups>>
    BY DEF UploadStep, CommitRow, Refresh, DatabaseRaises, SaveFile, backupVars
  <1>2. UploadsOK' /\ rows \subseteq rows' /\ Lost \subseteq Lost'
    <2>1. ASSUME NEW d \in Documents, SaveFile(u, d)
          PROVE  UploadsOK' /\ rows \subseteq rows' /\ Lost \subseteq Lost'
      <3> DEFINE up == [op |-> "upload", document |-> d, committed |-> FALSE]
      <3>1. /\ d \notin files /\ d \notin rows /\ files' = files \cup {d} /\ rows' = rows
            /\ uploads' = [uploads EXCEPT ![u] = up]
        BY <2>1 DEF SaveFile
      <3>2. up \in Upload /\ up.document = d /\ up.committed = FALSE /\ up # Idle
        BY DEF Upload, Idle
      <3> HIDE DEF up
      <3>3. QED
        BY <3>1, <3>2 DEF UploadsOK, Lost
    <2>2. CASE CommitRow(u)
      <3> DEFINE up == [uploads[u] EXCEPT !.committed = TRUE]
      <3>1. /\ uploads[u] # Idle /\ ~uploads[u].committed
            /\ files' = files /\ rows' = rows \cup {uploads[u].document}
            /\ uploads' = [uploads EXCEPT ![u] = up]
        BY <2>2 DEF CommitRow
      <3>2. uploads[u] \in Upload
        BY <3>1 DEF UploadsOK
      <3>3. up \in Upload /\ up.document = uploads[u].document /\ up.committed = TRUE /\ up # Idle
        BY <3>2 DEF Upload, Idle
      <3> HIDE DEF up
      <3>4. QED
        BY <3>1, <3>3 DEF UploadsOK, Lost
    <2>3. CASE Refresh(u)
      BY <2>3 DEF Refresh, UploadsOK, Lost
    <2>4. CASE DatabaseRaises(u)
      <3>1. /\ uploads[u] # Idle /\ rows' = rows
            /\ files' = files \/ files' = files \ {uploads[u].document}
            /\ uploads' = [uploads EXCEPT ![u] = Idle]
        BY <2>4 DEF DatabaseRaises
      <3>2. QED
        BY <3>1 DEF UploadsOK, Lost
    <2>5. QED
      BY <2>1, <2>2, <2>3, <2>4 DEF UploadStep
  <1>3. BackupOK'
    BY <1>1, <1>2 DEF BackupOK
  <1>4. BackupsOK'
    BY <1>1, <1>2 DEF BackupsOK, BackupComplete, Lost
  <1>5. QED
    BY <1>2, <1>3, <1>4

LEMMA BackupKeepsStorageInv ==
    ASSUME StorageInv,
           BeginBackup \/ BackupStep \/ PublishBackup \/ BackupFails \/ BackupKilled
    PROVE  StorageInv'
  <1> USE DEF StorageInv
  <1>1. UNCHANGED <<rows, files, uploads>> /\ UploadsOK'
    BY DEF BeginBackup, BackupStep, PublishBackup, BackupFails, BackupKilled, UploadsOK
  <1>2. CASE BeginBackup
    BY <1>1, <1>2 DEF BeginBackup, BackupOK, BackupsOK, BackupComplete, BackupFields
  <1>3. CASE BackupStep
    <2>1. BackupsOK'
      BY <1>3 DEF BackupStep, BackupsOK, BackupComplete
    <2>2. backup # Idle /\ backup.done \in {0, 1} /\ DOMAIN backup = BackupFields
      BY <1>3 DEF BackupStep, BackupOK, Parts
    <2>3. CASE backup.done = 0
      <3>1. backup' = [backup EXCEPT !.done = @ + 1, !.rows = rows]
        BY <1>3, <2>3 DEF BackupStep, Parts
      <3>2. QED
        BY <1>1, <2>1, <2>2, <2>3, <3>1 DEF BackupOK, BackupFields
    <2>4. CASE backup.done = 1
      <3>1. backup' = [backup EXCEPT !.done = @ + 1, !.files = files]
        BY <1>3, <2>4 DEF BackupStep, Parts
      <3>2. QED
        BY <1>1, <2>1, <2>2, <2>4, <3>1 DEF BackupOK, BackupFields, Lost
    <2>5. QED
      BY <2>2, <2>3, <2>4
  <1>4. CASE PublishBackup
    <2> DEFINE b == [rows |-> backup.rows, files |-> backup.files, age |-> 0]
    <2>1. backup # Idle /\ backup.done = 2 /\ backup' = Idle /\ backups' = Append(backups, b)
      BY <1>4 DEF PublishBackup, Parts
    <2>2. b.rows \ b.files \subseteq Lost /\ DOMAIN b = {"rows", "files", "age"}
      BY <2>1 DEF BackupOK
    <2> HIDE DEF b
    <2>3. PICK S : backups \in Seq(S)
      BY DEF BackupsOK, IsSequence
    <2>4. backups \in Seq(S \cup {b})
      BY <2>3
    <2>5. /\ backups' \in Seq(S \cup {b})
          /\ \A n \in DOMAIN backups' : backups'[n] = b \/ (n \in DOMAIN backups /\ backups'[n] = backups[n])
      BY <2>1, <2>4
    <2>6. BackupsOK'
      BY <1>1, <2>2, <2>5 DEF BackupsOK, BackupComplete, IsSequence, Lost
    <2>7. QED
      BY <1>1, <2>1, <2>6 DEF BackupOK
  <1>5. CASE BackupFails \/ BackupKilled
    BY <1>1, <1>5 DEF BackupFails, BackupKilled, BackupOK, BackupsOK, BackupComplete
  <1>6. QED
    BY <1>2, <1>3, <1>4, <1>5

LEMMA TimeKeepsStorageInv ==
    ASSUME StorageInv, Day \/ Retention
    PROVE  StorageInv'
  <1> USE DEF StorageInv
  <1>1. UploadsOK' /\ BackupOK' /\ UNCHANGED <<rows, files>>
    BY DEF Day, Retention, UploadsOK, BackupOK, Lost
  <1>2. PICK S : backups \in Seq(S)
    BY DEF BackupsOK, IsSequence
  <1>3. CASE Day
    <2> DEFINE e(n) == [backups[n] EXCEPT !.age = @ + 1]
    <2>1. backups' = [n \in 1 .. Len(backups) |-> e(n)] /\ DOMAIN backups = 1 .. Len(backups)
      BY <1>2, <1>3 DEF Day
    <2>2. \A n \in DOMAIN backups :
             /\ DOMAIN e(n) = DOMAIN backups[n]
             /\ e(n).rows = backups[n].rows /\ e(n).files = backups[n].files
      BY DEF BackupsOK
    <2> DEFINE T == {e(n) : n \in DOMAIN backups}
    <2>3. \A n \in 1 .. Len(backups) : e(n) \in T
      BY <2>1
    <2> HIDE DEF e, T
    <2>4. backups' \in Seq(T)
      BY <1>2, <2>1, <2>3
    <2>5. QED
      BY <1>1, <2>1, <2>2, <2>4 DEF BackupsOK, BackupComplete, IsSequence
  <1>4. CASE Retention
    <2>1. PICK n \in DOMAIN backups : backups' = SubSeq(backups, n + 1, Len(backups))
      BY <1>4 DEF Retention
    <2>2. n \in 1 .. Len(backups) /\ Len(backups) \in Nat
      BY <1>2
    <2>3. /\ backups' \in Seq(S)
          /\ \A k \in DOMAIN backups' : n + k \in DOMAIN backups /\ backups'[k] = backups[n + k]
      BY <1>2, <2>1, <2>2
    <2>4. QED
      BY <1>1, <2>3 DEF BackupsOK, BackupComplete, IsSequence
  <1>5. QED
    BY <1>3, <1>4

LEMMA NextStorageInv == StorageInv /\ [Next]_vars => StorageInv'
  <1> SUFFICES ASSUME StorageInv, [Next]_vars PROVE StorageInv'
    OBVIOUS
  <1>1. CASE UNCHANGED <<rows, files, uploads, backup, backups>>
    BY <1>1 DEF StorageInv, UploadsOK, BackupOK, BackupsOK, BackupComplete, Lost
  <1>2. CASE \E u \in Uploaders : UploadStep(u)
    BY <1>2, UploadsKeepStorageInv
  <1>3. CASE BeginBackup \/ BackupStep \/ PublishBackup \/ BackupFails \/ BackupKilled
    BY <1>3, BackupKeepsStorageInv
  <1>4. CASE Day \/ Retention
    BY <1>4, TimeKeepsStorageInv
  <1>5. CASE \E r \in Releases : \/ Rollback(r) \/ RollbackFails(r)
                                 \/ \E scheduler \in BOOLEAN : BeginDeploy(r, scheduler)
    BY <1>1, <1>5 DEF Rollback, RollbackFails, BeginDeploy, backupVars
  <1>6. CASE DeployStep \/ DeployFails \/ Stop \/ BeginRestore \/ EndRestore \/ RestoreKilled
    BY <1>1, <1>6 DEF DeployStep, DeployFails, Stop, BeginRestore, EndRestore, RestoreKilled, backupVars
  <1>7. CASE UNCHANGED vars
    BY <1>1, <1>7 DEF vars, backupVars
  <1>8. QED
    BY <1>2, <1>3, <1>4, <1>5, <1>6, <1>7 DEF Next, UploadStep

\* Whatever is stored, refused and removed while the database and the storage are copied
\* one after the other, a backup lacks the file of a row only when the host has lost it too.
THEOREM BackupsAreComplete == Spec => []BackupComplete
  <1>1. StorageInv => BackupComplete
    BY DEF StorageInv, BackupsOK
  <1>2. QED
    BY InitStorageInv, NextStorageInv, <1>1, PTL DEF Spec

-----------------------------------------------------------------------------
Tags == {TagOf[r] : r \in Releases}
Deployment == [op : {"deploy"}, release : Releases, scheduler : BOOLEAN, done : 0 .. 2]

\* What is copied is of documents, and what runs is a release.
StorageTyping ==
    /\ rows \subseteq Documents /\ files \subseteq Documents
    /\ backup # Idle => backup.rows \subseteq Documents
    /\ \A n \in DOMAIN backups : backups[n].rows \subseteq Documents
DeployTyping ==
    /\ schema \in Releases \cup {0}
    /\ images \in [Tags -> Releases \cup {0}]
    /\ running \in [Services -> Releases \cup {0}]
    /\ deploying \in {Idle} \cup Deployment
\* A lock is there while a backup is under way, a database while a restore is verified.
CommandTyping ==
    /\ lock \in BOOLEAN /\ databases \in Nat
    /\ backup # Idle => lock
    /\ restoring # Idle => databases > 0

LEMMA NextStorageTyping == StorageInv /\ StorageTyping /\ [Next]_vars => StorageTyping'
  <1> SUFFICES ASSUME StorageInv, StorageTyping, [Next]_vars PROVE StorageTyping'
    OBVIOUS
  <1>1. CASE UNCHANGED <<rows, files, uploads, backup, backups>>
    BY <1>1 DEF StorageTyping
  <1>2. ASSUME NEW u \in Uploaders, UploadStep(u) PROVE StorageTyping'
    <2>1. UNCHANGED <<backup, backups>>
      BY <1>2 DEF UploadStep, CommitRow, Refresh, DatabaseRaises, SaveFile, backupVars
    <2>2. uploads[u] # Idle => uploads[u].document \in Documents
      BY DEF StorageInv, UploadsOK, Upload
    <2>3. rows' \subseteq Documents /\ files' \subseteq Documents
      BY <1>2, <2>2 DEF UploadStep, CommitRow, Refresh, DatabaseRaises, SaveFile, StorageTyping
    <2>4. QED
      BY <2>1, <2>3 DEF StorageTyping
  <1>3. CASE BeginBackup
    BY <1>3 DEF BeginBackup, StorageTyping
  <1>4. CASE BackupStep
    <2>1. backup # Idle /\ DOMAIN backup = BackupFields
      BY <1>4 DEF BackupStep, StorageInv, BackupOK
    <2>2. backup' = [backup EXCEPT !.done = @ + 1, !.rows = rows]
            \/ backup' = [backup EXCEPT !.done = @ + 1, !.files = files]
      BY <1>4 DEF BackupStep
    <2>3. backup'.rows = rows \/ backup'.rows = backup.rows
      BY <2>1, <2>2 DEF BackupFields
    <2>4. UNCHANGED <<rows, files, uploads, backups>>
      BY <1>4 DEF BackupStep
    <2>5. QED
      BY <2>1, <2>3, <2>4 DEF StorageTyping
  <1>5. CASE PublishBackup
    <2>1. PICK b : /\ b = [rows |-> backup.rows, files |-> backup.files, age |-> 0]
                   /\ backups' = Append(backups, b)
      BY <1>5 DEF PublishBackup
    <2>2. b.rows \subseteq Documents
      BY <1>5, <2>1 DEF PublishBackup, StorageTyping
    <2>3. PICK S : backups \in Seq(S)
      BY DEF StorageInv, BackupsOK, IsSequence
    <2>4. backups \in Seq(S \cup {b})
      BY <2>3
    <2>5. \A n \in DOMAIN backups' : backups'[n] = b \/ (n \in DOMAIN backups /\ backups'[n] = backups[n])
      BY <2>1, <2>4
    <2>6. UNCHANGED <<rows, files, uploads>> /\ backup' = Idle
      BY <1>5 DEF PublishBackup
    <2>7. QED
      BY <2>2, <2>5, <2>6 DEF StorageTyping
  <1>6. CASE BackupFails \/ BackupKilled
    BY <1>6 DEF BackupFails, BackupKilled, StorageTyping
  <1>7. CASE Day
    <2>1. /\ DOMAIN backups' = DOMAIN backups
          /\ \A n \in DOMAIN backups : backups'[n] = [backups[n] EXCEPT !.age = @ + 1]
          /\ UNCHANGED <<rows, files, uploads, backup>>
      BY <1>7 DEF Day
    <2>2. \A n \in DOMAIN backups : backups'[n].rows = backups[n].rows
      BY <2>1 DEF StorageInv, BackupsOK
    <2>3. QED
      BY <2>1, <2>2 DEF StorageTyping
  <1>8. CASE Retention
    <2>1. PICK n \in DOMAIN backups : backups' = SubSeq(backups, n + 1, Len(backups))
      BY <1>8 DEF Retention
    <2>2. PICK S : backups \in Seq(S)
      BY DEF StorageInv, BackupsOK, IsSequence
    <2>3. n \in 1 .. Len(backups) /\ Len(backups) \in Nat
      BY <2>2
    <2>4. \A k \in DOMAIN backups' : n + k \in DOMAIN backups /\ backups'[k] = backups[n + k]
      BY <2>1, <2>2, <2>3
    <2>5. UNCHANGED <<rows, files, uploads, backup>>
      BY <1>8 DEF Retention
    <2>6. QED
      BY <2>4, <2>5 DEF StorageTyping
  <1>9. CASE \E r \in Releases : \/ Rollback(r) \/ RollbackFails(r)
                                 \/ \E scheduler \in BOOLEAN : BeginDeploy(r, scheduler)
    BY <1>1, <1>9 DEF Rollback, RollbackFails, BeginDeploy, backupVars
  <1>10. CASE DeployStep \/ DeployFails \/ Stop \/ BeginRestore \/ EndRestore \/ RestoreKilled
    BY <1>1, <1>10 DEF DeployStep, DeployFails, Stop, BeginRestore, EndRestore, RestoreKilled, backupVars
  <1>11. CASE UNCHANGED vars
    BY <1>1, <1>11 DEF vars, backupVars
  <1>12. QED
    BY <1>2, <1>3, <1>4, <1>5, <1>6, <1>7, <1>8, <1>9, <1>10, <1>11 DEF Next, UploadStep

LEMMA StepKeepsDeployTyping ==
    ASSUME DeployTyping, DeployStep
    PROVE  DeployTyping'
  <1>1. deploying # Idle /\ deploying \in Deployment
    BY DEF DeployStep, DeployTyping
  <1>2. PICK r \in Releases : r = deploying.release
    BY <1>1 DEF Deployment
  <1>3. deploying.done \in 0 .. 2
    BY <1>1 DEF Deployment
  <1>4. deploying' = Idle \/ (deploying.done < 2 /\ deploying' = [deploying EXCEPT !.done = @ + 1])
    BY <1>3 DEF DeployStep, Stages
  <1>5. deploying' \in {Idle} \cup Deployment
    BY <1>1, <1>3, <1>4 DEF Deployment
  <1>6. \/ images' = [images EXCEPT ![TagOf[r]] = r] /\ UNCHANGED <<schema, running>>
        \/ schema' = r /\ UNCHANGED <<images, running>>
        \/ /\ running' = [s \in Services |->
                IF s = "scheduler" /\ ~deploying.scheduler THEN running[s] ELSE images[TagOf[r]]]
           /\ UNCHANGED <<schema, images>>
    BY <1>2 DEF DeployStep
  <1>7. TagOf[r] \in Tags
    BY DEF Tags
  <1>8. /\ schema' \in Releases \cup {0}
        /\ images' \in [Tags -> Releases \cup {0}]
        /\ running' \in [Services -> Releases \cup {0}]
    BY <1>6, <1>7 DEF DeployTyping
  <1>9. QED
    BY <1>5, <1>8 DEF DeployTyping

LEMMA NextDeployTyping == DeployTyping /\ [Next]_vars => DeployTyping'
  <1> SUFFICES ASSUME DeployTyping, [Next]_vars PROVE DeployTyping'
    OBVIOUS
  <1>1. CASE UNCHANGED deployVars
    BY <1>1 DEF DeployTyping, deployVars
  <1>2. CASE DeployStep
    BY <1>2, StepKeepsDeployTyping
  <1>3. ASSUME NEW r \in Releases,
               \/ Rollback(r) \/ RollbackFails(r)
               \/ \E scheduler \in BOOLEAN : BeginDeploy(r, scheduler)
        PROVE  DeployTyping'
    <2>1. TagOf[r] \in Tags
      BY DEF Tags
    <2>2. CASE Rollback(r)
      BY <2>1, <2>2 DEF Rollback, DeployTyping
    <2>3. CASE RollbackFails(r)
      BY <2>3 DEF RollbackFails, DeployTyping
    <2>4. CASE \E scheduler \in BOOLEAN : BeginDeploy(r, scheduler)
      BY <2>4 DEF BeginDeploy, DeployTyping, Deployment
    <2>5. QED
      BY <1>3, <2>2, <2>3, <2>4
  <1>4. CASE DeployFails \/ Stop
    BY <1>4 DEF DeployFails, Stop, DeployTyping
  <1>5. CASE \E u \in Uploaders : UploadStep(u)
    BY <1>1, <1>5 DEF UploadStep, CommitRow, Refresh, DatabaseRaises, SaveFile
  <1>6. CASE \/ BeginBackup \/ BackupStep \/ PublishBackup \/ BackupFails \/ BackupKilled
             \/ BeginRestore \/ EndRestore \/ RestoreKilled \/ Day \/ Retention \/ UNCHANGED vars
    BY <1>1, <1>6 DEF BeginBackup, BackupStep, PublishBackup, BackupFails, BackupKilled,
          BeginRestore, EndRestore, RestoreKilled, Day, Retention, vars
  <1>7. QED
    BY <1>2, <1>3, <1>4, <1>5, <1>6 DEF Next, UploadStep

LEMMA NextCommandTyping == CommandTyping /\ [Next]_vars => CommandTyping'
  <1> SUFFICES ASSUME CommandTyping, [Next]_vars PROVE CommandTyping'
    OBVIOUS
  <1> USE DEF CommandTyping
  <1>1. CASE UNCHANGED <<lock, databases, backup, restoring>>
    BY <1>1
  <1>2. CASE \E u \in Uploaders : UploadStep(u)
    BY <1>1, <1>2 DEF UploadStep, CommitRow, Refresh, DatabaseRaises, SaveFile, backupVars
  <1>3. CASE \/ DeployStep \/ DeployFails \/ Stop \/ Day \/ Retention \/ UNCHANGED vars
             \/ \E r \in Releases : \/ Rollback(r) \/ RollbackFails(r)
                                    \/ \E scheduler \in BOOLEAN : BeginDeploy(r, scheduler)
    BY <1>1, <1>3 DEF DeployStep, DeployFails, Stop, Rollback, RollbackFails, BeginDeploy, Day,
          Retention, vars, backupVars
  <1>4. CASE BeginBackup \/ BackupStep
    BY <1>4 DEF BeginBackup, BackupStep
  <1>5. CASE PublishBackup \/ BackupFails \/ BackupKilled
    BY <1>5 DEF PublishBackup, BackupFails, BackupKilled
  <1>6. CASE BeginRestore \/ EndRestore \/ RestoreKilled
    BY <1>6 DEF BeginRestore, EndRestore, RestoreKilled
  <1>7. QED
    BY <1>2, <1>3, <1>4, <1>5, <1>6 DEF Next, UploadStep

\* Whatever is copied is of documents and whatever runs is a release, also when two
\* releases share a tag; a verification leaves no database that was not made.
THEOREM DeploymentTyping == Spec => []TypeOK
  <1>1. Init => StorageTyping /\ DeployTyping /\ CommandTyping
    <2> SUFFICES ASSUME Init PROVE StorageTyping /\ DeployTyping /\ CommandTyping
      OBVIOUS
    <2>1. StorageTyping
      BY DEF Init, StorageTyping
    <2>2. DeployTyping
      BY DEF Init, DeployTyping, Tags
    <2>3. CommandTyping
      BY DEF Init, CommandTyping
    <2>4. QED
      BY <2>1, <2>2, <2>3
  <1>2. StorageTyping /\ DeployTyping /\ CommandTyping => TypeOK
    BY DEF StorageTyping, DeployTyping, CommandTyping, TypeOK
  <1>3. QED
    BY <1>1, <1>2, InitStorageInv, NextStorageInv, NextStorageTyping, NextDeployTyping,
       NextCommandTyping, PTL DEF Spec

-----------------------------------------------------------------------------
\* The stages that are done have left their image, which no other deployment replaces,
\* and their migrations.
StagesDone ==
    deploying # Idle =>
        /\ deploying.done >= 1 => images[TagOf[deploying.release]] = deploying.release
        /\ deploying.done = 2 => deploying.release <= schema

DeployInv == DeployTyping /\ StagesDone

LEMMA StepKeepsStages ==
    ASSUME DeployInv, DeployStep
    PROVE  StagesDone' /\ (\A s \in Services : Ahead(s)' => Ahead(s))
  <1> USE ReleasesAreNumbered DEF ReleasesAreNumbered
  <1>1. deploying # Idle /\ deploying \in Deployment
    BY DEF DeployStep, DeployInv, DeployTyping
  <1>2. PICK r \in Releases : r = deploying.release
    BY <1>1 DEF Deployment
  <1>3. deploying.done \in 0 .. 2 /\ DOMAIN deploying = {"op", "release", "scheduler", "done"}
    BY <1>1 DEF Deployment
  <1>4. schema \in Nat /\ r \in Nat /\ \A s \in Services : running[s] \in Nat
    <2>1. /\ schema \in Releases \cup {0}
          /\ running \in [Services -> Releases \cup {0}]
      BY DEF DeployInv, DeployTyping
    <2>2. \A x \in Releases \cup {0} : x \in Nat
      BY DEF ReleasesAreNumbered
    <2>3. QED
      BY <2>1, <2>2, Zenon
  <1>5. CASE deploying.done = 0
    <2>1. /\ images' = [images EXCEPT ![TagOf[r]] = r] /\ UNCHANGED <<schema, running>>
          /\ deploying' = [deploying EXCEPT !.done = @ + 1]
      BY <1>2, <1>5 DEF DeployStep, Stages
    <2>2. deploying'.done = 1 /\ deploying'.release = r
      BY <1>2, <1>3, <1>5, <2>1
    <2>3. images'[TagOf[r]] = r
      BY <2>1 DEF DeployInv, DeployTyping, Tags
    <2>4. QED
      BY <2>1, <2>2, <2>3 DEF StagesDone, Ahead
  <1>6. CASE deploying.done = 1
    <2>1. /\ r >= schema /\ schema' = r /\ UNCHANGED <<images, running>>
          /\ deploying' = [deploying EXCEPT !.done = @ + 1]
      BY <1>2, <1>6 DEF DeployStep, Stages
    <2>2. deploying'.done = 2 /\ deploying'.release = r
      BY <1>2, <1>3, <1>6, <2>1
    <2>3. images[TagOf[r]] = r
      BY <1>1, <1>2, <1>6 DEF DeployInv, StagesDone
    <2>4. StagesDone'
      BY <1>4, <2>1, <2>2, <2>3 DEF StagesDone
    <2>5. QED
      BY <1>4, <2>1, <2>4 DEF Ahead
  <1>7. CASE deploying.done = 2
    <2>1. /\ running' = [s \in Services |->
                IF s = "scheduler" /\ ~deploying.scheduler THEN running[s] ELSE images[TagOf[r]]]
          /\ UNCHANGED <<schema, images>>
          /\ deploying' = Idle
      BY <1>2, <1>7 DEF DeployStep, Stages
    <2>2. images[TagOf[r]] = r /\ r <= schema
      BY <1>1, <1>2, <1>7 DEF DeployInv, StagesDone
    <2>3. QED
      BY <1>4, <2>1, <2>2 DEF StagesDone, Ahead
  <1>8. QED
    BY <1>3, <1>5, <1>6, <1>7

LEMMA NextStages ==
    ASSUME DeployInv, [Next]_vars
    PROVE  /\ StagesDone'
           /\ \A s \in Services : Ahead(s)' => Ahead(s) \/ \E r \in Releases : Rollback(r)
  <1> USE DEF StagesDone, Ahead
  <1>1. CASE UNCHANGED deployVars
    BY <1>1 DEF DeployInv, deployVars
  <1>2. CASE DeployStep
    BY <1>2, StepKeepsStages
  <1>3. ASSUME NEW r \in Releases, Rollback(r)
        PROVE  StagesDone' /\ (\E q \in Releases : Rollback(q))
    BY <1>3 DEF Rollback, DeployInv
  <1>4. CASE (\E r \in Releases : RollbackFails(r)) \/ Stop
    <2>1. \A s \in Services : running[s]' = running[s] \/ running[s]' = 0
      BY <1>4 DEF RollbackFails, Stop, DeployInv, DeployTyping
    <2>2. UNCHANGED <<schema, images, deploying>>
      BY <1>4 DEF RollbackFails, Stop
    <2>3. schema \in Nat
      BY ReleasesAreNumbered DEF DeployInv, DeployTyping
    <2>4. QED
      BY <2>1, <2>2, <2>3 DEF DeployInv
  <1>5. CASE DeployFails \/ \E r \in Releases, scheduler \in BOOLEAN : BeginDeploy(r, scheduler)
    BY <1>5 DEF DeployFails, BeginDeploy
  <1>6. CASE \E u \in Uploaders : UploadStep(u)
    BY <1>1, <1>6 DEF UploadStep, CommitRow, Refresh, DatabaseRaises, SaveFile
  <1>7. CASE \/ BeginBackup \/ BackupStep \/ PublishBackup \/ BackupFails \/ BackupKilled
             \/ BeginRestore \/ EndRestore \/ RestoreKilled \/ Day \/ Retention \/ UNCHANGED vars
    BY <1>1, <1>7 DEF BeginBackup, BackupStep, PublishBackup, BackupFails, BackupKilled,
          BeginRestore, EndRestore, RestoreKilled, Day, Retention, vars
  <1>8. QED
    BY <1>2, <1>3, <1>4, <1>5, <1>6, <1>7 DEF Next, UploadStep

\* Nothing but a rollback puts a service ahead of the schema, whatever tags releases share
\* and wherever a deployment stops: its migrations are applied before its image is started,
\* and what it does not start ran before.
THEOREM OnlyRollbackGetsAhead == Spec => AheadByRollback
  <1>1. Init => DeployInv
    BY DEF Init, DeployInv, DeployTyping, StagesDone, Tags
  <1>2. DeployInv /\ [Next]_vars => DeployInv'
    BY NextStages, NextDeployTyping DEF DeployInv
  <1>3. DeployInv /\ [Next]_vars =>
            [\A s \in Services : Ahead(s)' => Ahead(s) \/ \E r \in Releases : Rollback(r)]_vars
    BY NextStages
  <1>4. QED
    BY <1>1, <1>2, <1>3, PTL DEF Spec, AheadByRollback
=============================================================================
