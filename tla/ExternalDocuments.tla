---------------------------- MODULE ExternalDocuments ----------------------------
(***************************************************************************)
(* One imported process and its public documents: synchronisations that    *)
(* ask the source for its metadata and documents, downloads of documents,  *)
(* and the versions and files they leave.                                  *)
(*                                                                         *)
(* The source publishes, withdraws and replaces documents as it likes. The *)
(* session of a worker stays open from its first read to its commit.       *)
(***************************************************************************)
EXTENDS Integers, Sequences, FiniteSets, SequencesExt

CONSTANTS
    Null,
    Listing,        \* the documents, in the order in which the source lists them
    DatasetOf,      \* [documents -> the dataset that lists it]
    Contents,       \* what a document may hold
    Dates,          \* closing dates
    Workers,
    MaxDocuments,   \* SECOP_DOCUMENT_MAX_FILES_PER_SYNC
    MaxSyncs,       \* bound on synchronisations
    MaxDownloads,   \* bound on downloads
    SourceBudget,   \* bound on changes of the source
    FaultBudget     \* bound on failures and crashes

VARIABLES
    source,     \* what the source publishes
    process,    \* closing_at of the process
    syncs,      \* external_process_sync_runs, each with the snapshot it has taken
    documents,  \* [documents -> external_process_documents, or Null]
    downloads,  \* external_document_download_jobs
    stored,     \* [contents -> the storage key of its process_document, or Null]
    files,      \* the keys that have a file
    worker,     \* [Workers -> what it has claimed and read, or Idle]
    spent

vars == <<source, process, syncs, documents, downloads, stored, files, worker, spent>>

Docs == ToSet(Listing)
Idle == [op |-> "idle"]
SyncStatus == {"PENDING", "PROCESSING", "COMPLETED", "COMPLETED_WITH_WARNINGS", "FAILED"}
DownloadStatus == {"NOT_REQUESTED", "PENDING", "DOWNLOADING", "DOWNLOADED", "UNCHANGED", "UPDATED",
                   "REJECTED", "FAILED", "UNSUPPORTED"}
Requested == {"PENDING", "DOWNLOADING"}

NewSync(discover) == [status |-> "PENDING", discover |-> discover, snapshot |-> Null, events |-> {}]
NewDownload(d) == [status |-> "PENDING", document |-> d]
NewDocument(download) == [discovery |-> "LISTED", download |-> download, versions |-> <<>>]
NewVersion(content, key) == [content |-> content, key |-> key]

Init ==
    /\ source \in [closing : Dates \cup {Null}, listed : {Docs}, supported : {Docs},
                   content : [Docs -> Contents]]
    /\ process = [closing |-> source.closing]
    /\ syncs = <<>> /\ downloads = <<>>
    /\ documents = [d \in Docs |-> Null]
    /\ stored = [k \in Contents |-> Null]
    /\ files = {}
    /\ worker = [w \in Workers |-> Idle]
    /\ spent = [source |-> 0, faults |-> 0]

-----------------------------------------------------------------------------
\* The source, and what it answers

SourceChanges ==
    /\ spent.source < SourceBudget
    /\ spent' = [spent EXCEPT !.source = @ + 1]
    /\ \/ \E date \in (Dates \cup {Null}) \ {source.closing} : source' = [source EXCEPT !.closing = date]
       \/ \E d \in Docs : \/ source' = [source EXCEPT !.listed = SymDiff(@, {d})]
                          \/ source' = [source EXCEPT !.supported = SymDiff(@, {d})]
                          \/ \E k \in Contents \ {source.content[d]} :
                                source' = [source EXCEPT !.content[d] = k]
    /\ UNCHANGED <<process, syncs, documents, downloads, stored, files, worker>>

\* refresh: a dataset that does not answer is a warning, and MaxDocuments ends the list.
Refreshes(discover) ==
    {[closing |-> source.closing, warned |-> down # {},
      documents |-> IF ~discover THEN <<>> ELSE
          LET listed == SelectSeq(Listing, LAMBDA d : d \in source.listed /\ DatasetOf[d] \notin down) IN
          SubSeq(listed, 1, IF Len(listed) < MaxDocuments THEN Len(listed) ELSE MaxDocuments),
      supported |-> source.supported] : down \in SUBSET {DatasetOf[d] : d \in Docs}}

-----------------------------------------------------------------------------
\* enqueue_sync, claim_sync: one active synchronisation (uq_external_sync_runs_active)
EnqueueSync(discover) ==
    /\ Len(syncs) < MaxSyncs
    /\ \A n \in DOMAIN syncs : syncs[n].status \notin {"PENDING", "PROCESSING"}
    /\ syncs' = Append(syncs, NewSync(discover))
    /\ UNCHANGED <<source, process, documents, downloads, stored, files, worker, spent>>

ClaimSync(w) ==
    /\ worker[w] = Idle
    /\ \E n \in DOMAIN syncs :
          /\ syncs[n].status = "PENDING"
          /\ syncs' = [syncs EXCEPT ![n].status = "PROCESSING"]
          /\ worker' = [worker EXCEPT ![w] = [op |-> "sync", sync |-> n]]
    /\ UNCHANGED <<source, process, documents, downloads, stored, files, spent>>

\* execute_sync until its commit: the answer, and the documents as they are loaded
ReadSource(w) ==
    /\ worker[w].op = "sync"
    /\ \E refresh \in Refreshes(syncs[worker[w].sync].discover) :
          worker' = [worker EXCEPT ![w] = [op |-> "persist", sync |-> worker[w].sync,
                                           refresh |-> refresh, loaded |-> documents]]
    /\ UNCHANGED <<source, process, syncs, documents, downloads, stored, files, spent>>

\* The snapshots before n; the latest one is compared with the answer.
Previous(n) == {k \in 1 .. n - 1 : syncs[k].snapshot # Null}

\* Mutant of Offered: the discovery status in the place of the download status.
OfferedListed(refresh, d) == "LISTED"

Offered(refresh, d) == IF d \in refresh.supported THEN "NOT_REQUESTED" ELSE "UNSUPPORTED"

\* Only a document that nobody has asked for takes the download status of the
\* answer; the decision is made on the row that was loaded.
Listed(r, d) ==
    IF r.loaded[d] = Null THEN NewDocument(Offered(r.refresh, d))
    ELSE [documents[d] EXCEPT
             !.discovery = "LISTED",
             !.download = IF /\ r.loaded[d].download \in {"NOT_REQUESTED", "UNSUPPORTED"}
                             /\ Offered(r.refresh, d) # r.loaded[d].download
                          THEN Offered(r.refresh, d) ELSE @]

\* A document that the answer leaves out is gone from the source.
Unlisted(d) == IF documents[d] = Null THEN Null ELSE [documents[d] EXCEPT !.discovery = "MISSING"]

\* Mutant of Known: the answer replaces what the process knows.
KnownOverwritten(value, current) == value

\* _update_current_process: no value replaces a value that is known.
Known(value, current) == IF value = Null THEN current ELSE value

\* _persist_refresh
PersistRefresh(w) ==
    LET r == worker[w]
        seen == ToSet(r.refresh.documents)
        before == Previous(r.sync)
        last == syncs[CHOOSE k \in before : \A other \in before : other <= k].snapshot
        gone == IF before = {} THEN FALSE ELSE last # Null /\ last.closing # Null
                                               /\ r.refresh.closing = Null
        removed == IF ~syncs[r.sync].discover THEN {}
                   ELSE {d \in Docs \ seen : documents[d] # Null /\ documents[d].discovery # "MISSING"} IN
    /\ r.op = "persist"
    /\ process' = [process EXCEPT !.closing = Known(r.refresh.closing, @)]
    /\ documents' = [d \in Docs |-> IF d \in seen THEN Listed(r, d)
                                    ELSE IF syncs[r.sync].discover THEN Unlisted(d) ELSE documents[d]]
    /\ syncs' = [syncs EXCEPT
          ![r.sync].status = IF r.refresh.warned \/ gone THEN "COMPLETED_WITH_WARNINGS" ELSE "COMPLETED",
          ![r.sync].snapshot = [closing |-> r.refresh.closing],
          ![r.sync].events =
              {[type |-> "DOCUMENT_REMOVED_FROM_SOURCE", of |-> d] : d \in removed}
              \cup (IF before # {} /\ last.closing # r.refresh.closing
                    THEN {[type |-> "CLOSING_DATE_CHANGED", of |-> r.refresh.closing]} ELSE {})]
    /\ worker' = [worker EXCEPT ![w] = Idle]
    /\ UNCHANGED <<source, downloads, stored, files, spent>>

Faulty == spent.faults < FaultBudget /\ spent' = [spent EXCEPT !.faults = @ + 1]

\* _fail_sync: the source does not answer or the commit fails; nothing tries again.
FailSync(w) ==
    /\ worker[w].op \in {"sync", "persist"} /\ Faulty
    /\ syncs' = [syncs EXCEPT ![worker[w].sync].status = "FAILED"]
    /\ worker' = [worker EXCEPT ![w] = Idle]
    /\ UNCHANGED <<source, process, documents, downloads, stored, files>>

-----------------------------------------------------------------------------
\* enqueue_download: one active job for a document (uq_external_download_jobs_active)
EnqueueDownload(d) ==
    /\ documents[d] # Null
    /\ documents[d].download # "UNSUPPORTED"
    /\ \A j \in DOMAIN downloads : downloads[j].document = d => downloads[j].status \notin Requested
    /\ Len(downloads) < MaxDownloads
    /\ downloads' = Append(downloads, NewDownload(d))
    /\ documents' = [documents EXCEPT ![d].download = "PENDING"]
    /\ UNCHANGED <<source, process, syncs, stored, files, worker, spent>>

ClaimDownload(w) ==
    /\ worker[w] = Idle
    /\ \E j \in DOMAIN downloads :
          /\ downloads[j].status = "PENDING"
          /\ downloads' = [downloads EXCEPT ![j].status = "DOWNLOADING"]
          /\ documents' = [documents EXCEPT ![downloads[j].document].download = "DOWNLOADING"]
          /\ worker' = [worker EXCEPT ![w] = [op |-> "download", job |-> j]]
    /\ UNCHANGED <<source, process, syncs, stored, files, spent>>

\* Both rows of a download, and its worker is free again.
Settle(w, status, d, document) ==
    /\ downloads' = [downloads EXCEPT ![worker[w].job].status = status]
    /\ documents' = [documents EXCEPT ![d] = [document EXCEPT !.download = status]]
    /\ worker' = [worker EXCEPT ![w] = Idle]

\* The bytes come down. What is the current version stays; what a process document
\* has is shared; for anything else a file is saved.
Download(w) ==
    LET j == worker[w].job
        d == downloads[j].document
        k == source.content[d] IN
    /\ worker[w].op = "download"
    /\ IF documents[d].versions # <<>> /\ Last(documents[d].versions).content = k
       THEN Settle(w, "UNCHANGED", d, documents[d]) /\ UNCHANGED files
       ELSE /\ worker' = [worker EXCEPT ![w] = [op |-> "store", job |-> j, content |-> k,
                                                shared |-> stored[k]]]
            /\ files' = IF stored[k] = Null THEN files \cup {j} ELSE files
            /\ UNCHANGED <<downloads, documents>>
    /\ UNCHANGED <<source, process, syncs, stored, spent>>

\* uq_process_documents_process_sha256 and uq_external_document_versions_hash
Accepted(r, d) ==
    /\ r.shared = Null => stored[r.content] = Null
    /\ \A n \in DOMAIN documents[d].versions : documents[d].versions[n].content # r.content

StoreVersion(w) ==
    LET r == worker[w]
        d == downloads[r.job].document
        key == IF r.shared = Null THEN r.job ELSE r.shared IN
    /\ r.op = "store" /\ Accepted(r, d)
    /\ stored' = [stored EXCEPT ![r.content] = key]
    /\ Settle(w, IF documents[d].versions = <<>> THEN "DOWNLOADED" ELSE "UPDATED", d,
              [documents[d] EXCEPT !.versions = Append(@, NewVersion(r.content, key))])
    /\ UNCHANGED <<source, process, syncs, files, spent>>

\* Mutant of Compensated: the file of the version goes, whoever saved it.
CompensatedShared(r) == {r.job, r.shared}

\* The files that are deleted when the transaction fails
Compensated(r) == IF r.shared = Null THEN {r.job} ELSE {}

\* The database refuses the rows, or fails: rolled back, and the file is deleted.
StoreFails(w) ==
    LET r == worker[w]
        d == downloads[r.job].document IN
    /\ r.op = "store"
    /\ IF Accepted(r, d) THEN Faulty ELSE UNCHANGED spent
    /\ files' = files \ Compensated(r)
    /\ Settle(w, "FAILED", d, documents[d])
    /\ UNCHANGED <<source, process, syncs, stored>>

\* _fail_download: an address, host, type or size that is rejected, or a failure
DownloadFails(w) ==
    /\ worker[w].op = "download" /\ Faulty
    /\ \E status \in {"REJECTED", "FAILED"} :
          LET d == downloads[worker[w].job].document IN Settle(w, status, d, documents[d])
    /\ UNCHANGED <<source, process, syncs, stored, files>>

\* A dead worker: what it has claimed stays claimed, a file it has saved stays.
Crash(w) ==
    /\ worker[w] # Idle /\ Faulty
    /\ worker' = [worker EXCEPT ![w] = Idle]
    /\ UNCHANGED <<source, process, syncs, documents, downloads, stored, files>>

WorkerStep(w) ==
    \/ ClaimSync(w) \/ ReadSource(w) \/ PersistRefresh(w) \/ FailSync(w)
    \/ ClaimDownload(w) \/ Download(w) \/ StoreVersion(w) \/ StoreFails(w) \/ DownloadFails(w)

Next ==
    \/ SourceChanges
    \/ \E discover \in BOOLEAN : EnqueueSync(discover)
    \/ \E d \in Docs : EnqueueDownload(d)
    \/ \E w \in Workers : WorkerStep(w) \/ Crash(w)

Spec == Init /\ [][Next]_vars

-----------------------------------------------------------------------------
TypeOK ==
    /\ process.closing \in Dates \cup {Null}
    /\ \A n \in DOMAIN syncs : syncs[n].status \in SyncStatus
    /\ \A j \in DOMAIN downloads :
          downloads[j].status \in DownloadStatus /\ downloads[j].document \in Docs
    /\ \A d \in Docs : documents[d] # Null => documents[d].download \in DownloadStatus
    /\ files \subseteq DOMAIN downloads

\* ADR-017: the history is immutable. Every version keeps its file, also one that
\* shares the file of another document whose own download failed later.
VersionsHaveFiles ==
    \A d \in Docs : documents[d] # Null =>
        \A n \in DOMAIN documents[d].versions :
            /\ documents[d].versions[n].key \in files
            /\ stored[documents[d].versions[n].content] = documents[d].versions[n].key

\* docs/secop-incremental-updates.md: a value that the source stops to publish stays
\* known; a synchronisation moves the process to what the source has said, or leaves it.
KnownClosingStays ==
    process.closing = Null => \A n \in DOMAIN syncs :
        syncs[n].snapshot # Null => syncs[n].snapshot.closing = Null

\* A document is told removed only while the source does not list it.
RemovedIsUnlisted ==
    [][\A d \in Docs : (/\ documents[d] # Null /\ documents'[d] # Null
                        /\ documents[d].discovery = "LISTED" /\ documents'[d].discovery = "MISSING")
                           => d \notin source.listed]_vars

\* ADR-017: a new hash makes another version, one that was seen before included.
NewHashIsAVersion ==
    \A w \in Workers : worker[w].op = "store" => Accepted(worker[w], downloads[worker[w].job].document)

\* A document says it is being downloaded exactly while a job of it is active.
DownloadFollowsJob ==
    \A d \in Docs : documents[d] # Null =>
        (documents[d].download \in Requested
            <=> \E j \in DOMAIN downloads : downloads[j].document = d /\ downloads[j].status \in Requested)
=============================================================================
