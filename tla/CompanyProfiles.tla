------------------------------ MODULE CompanyProfiles ------------------------------
(***************************************************************************)
(* The profile of a company: records that users declare, evidence that is  *)
(* uploaded and linked to them, and the snapshots that evaluations use.    *)
(*                                                                         *)
(* A request reads with one SELECT for each kind of row, in the order of   *)
(* _company_or_404, and what others commit in between is seen by the later *)
(* ones only.                                                              *)
(***************************************************************************)
EXTENDS Integers, Sequences, FiniteSets, SequencesExt, FiniteSetsExt, TLC

CONSTANTS
    Kinds,          \* the kinds of record that users add, of those in SubjectKinds
    Present,        \* the kinds of which the company has a supported one already
    Declared,       \* statuses that users give to their records
    Values,         \* values of contracts
    Contents,       \* the contents of evidence documents
    Clients,
    Citations,      \* pairs of what a link cites (ValidationOf) and its role
    MaxRecords, MaxLinks, MaxSnapshots, MaxEdits,    \* bounds on rows, and on edits of them
    MaxReaders      \* bound on snapshots that are being made at the same time

VARIABLES
    company,    \* company_profiles: [status, complete]
    records,    \* the records of the company: [kind, status, total, own, declared]; declared is
                \* a history variable, what the user said last
    documents,  \* company_evidence_documents: the contents the company has
    links,      \* company_evidence_links
    snapshots,  \* company_profile_snapshots
    request,    \* [Clients -> what a request has read, or Idle]
    edits

vars == <<company, records, documents, links, snapshots, request, edits>>

RecordStatus == {"DECLARED", "SUPPORTED", "VERIFIED", "REJECTED", "EXPIRED", "NEEDS_REVIEW"}
SnapshotStatus == {"DRAFT", "PUBLISHED", "SUPERSEDED"}
Validation == {"DOCUMENT_ONLY", "VALID_SEGMENT", "INVALID_SEGMENT", "QUOTE_NOT_FOUND",
               "LOCATION_MISMATCH", "EXPIRED_EVIDENCE"}
Idle == [op |-> "idle"]

SubjectKinds == {"LEGAL_REGISTRATION", "RUP_SNAPSHOT", "UNSPSC_CODE", "FINANCIAL_PERIOD",
    "FINANCIAL_METRIC", "EXPERIENCE_RECORD", "PERSON", "PERSON_EDUCATION", "PERSON_EXPERIENCE",
    "PERSON_CREDENTIAL", "COMPANY_CERTIFICATION", "COMPANY_CAPABILITY"}
\* Rows that belong to another row of the company, and to which
PersonParts == {"PERSON_EDUCATION", "PERSON_EXPERIENCE", "PERSON_CREDENTIAL"}
ParentOf(kind) ==
    CASE kind \in PersonParts -> "PERSON"
      [] kind = "FINANCIAL_METRIC" -> "FINANCIAL_PERIOD"
      [] OTHER -> "company"

NewCompany == [status |-> "DRAFT", complete |-> FALSE]
NewRecord(kind, status) ==
    [kind |-> kind, status |-> status, total |-> 0, own |-> 0, declared |-> status]
NewLink(n, d, validation, role) ==
    [record |-> n, document |-> d, validation |-> validation, role |-> role, review |-> "PENDING"]

Init ==
    /\ company = NewCompany
    /\ records = <<>> /\ links = <<>> /\ snapshots = <<>>
    /\ documents = {}
    /\ request = [c \in Clients |-> Idle]
    /\ edits = 0

Edit == edits < MaxEdits /\ edits' = edits + 1
Archived == company.status = "ARCHIVED"

-----------------------------------------------------------------------------
\* update_company: the identity is completed. archive_company
UpdateCompany ==
    /\ ~Archived /\ ~company.complete /\ Edit
    /\ company' = [company EXCEPT !.complete = TRUE]
    /\ UNCHANGED <<records, documents, links, snapshots, request>>
Archive ==
    /\ ~Archived /\ Edit
    /\ company' = [company EXCEPT !.status = "ARCHIVED"]
    /\ UNCHANGED <<records, documents, links, snapshots, request>>

AddRecord(record) ==
    /\ Len(records) < MaxRecords
    /\ records' = Append(records, record)
    /\ UNCHANGED <<company, documents, links, snapshots, request, edits>>

\* create_legal_registration, the only one that asks whether the company is archived;
\* create_rup, create_unspsc, create_financial_period, create_person, create_certification
\* and create_capability
CreateRecord(kind, status) ==
    /\ kind # "EXPERIENCE_RECORD" /\ ParentOf(kind) = "company"
    /\ kind = "LEGAL_REGISTRATION" => ~Archived
    /\ AddRecord(NewRecord(kind, status))

\* create_person_education, _experience, _credential and create_financial_metric: what the
\* row is a part of must be there.
CreatePart(kind, status) ==
    /\ ParentOf(kind) \in Present \cup {r.kind : r \in Range(records)}
    /\ AddRecord(NewRecord(kind, status))

\* create_experience: the share of the company in the contract (here the whole of it) is
\* worked out when the user does not give it.
CreateExperience(status, total) ==
    /\ "EXPERIENCE_RECORD" \in Kinds
    /\ AddRecord([NewRecord("EXPERIENCE_RECORD", status) EXCEPT !.total = total, !.own = total])

\* update_...: _patch writes whatever the user sends, and nothing else.
UpdateRecord(n, status) ==
    /\ Edit
    /\ records' = [records EXCEPT ![n].status = status, ![n].declared = status]
    /\ UNCHANGED <<company, documents, links, snapshots, request>>
UpdateExperience(n, total) ==
    /\ records[n].kind = "EXPERIENCE_RECORD" /\ Edit
    /\ records' = [records EXCEPT ![n].total = total]
    /\ UNCHANGED <<company, documents, links, snapshots, request>>

\* _store_company_evidence: a content the company has already is refused, by the look-up
\* or by uq_company_evidence_sha256, and its file is removed again.
Upload(d) ==
    /\ ~Archived /\ d \notin documents
    /\ documents' = documents \cup {d}
    /\ UNCHANGED <<company, records, links, snapshots, request, edits>>

\* _validate_evidence_reference: a link cites the document as a whole, a segment of it, a
\* segment of another document, or words that its segment does not have.
ValidationOf(reference) ==
    CASE reference = "document" -> "DOCUMENT_ONLY"
      [] reference = "segment" -> "VALID_SEGMENT"
      [] reference = "other document" -> "INVALID_SEGMENT"
      [] OTHER -> "QUOTE_NOT_FOUND"

\* _validate_subject_belongs_to_company: the row is looked up among those of its kind.
HasSubject(kind, n) == n \in DOMAIN records /\ records[n].kind = kind

\* _mark_subject_supported: it knows the rows that are the company's own, and leaves those
\* that are parts of them as they are.
Supports(validation) == validation \notin {"INVALID_SEGMENT", "QUOTE_NOT_FOUND", "LOCATION_MISMATCH"}
MarkedSupported(n, validation) ==
    IF Supports(validation) /\ ParentOf(records[n].kind) = "company" /\ records[n].status = "DECLARED"
    THEN [records EXCEPT ![n].status = "SUPPORTED"] ELSE records

\* create_evidence_link: the link is written whatever its validation says.
LinkEvidence(kind, n, d, reference, role) ==
    /\ Len(links) < MaxLinks /\ d \in documents /\ HasSubject(kind, n)
    /\ links' = Append(links, NewLink(n, d, ValidationOf(reference), role))
    /\ records' = MarkedSupported(n, ValidationOf(reference))
    /\ UNCHANGED <<company, documents, snapshots, request, edits>>

\* review_evidence_link: to accept a link changes nothing that is read here.
ReviewLink(l, review) ==
    /\ Edit
    /\ links' = [links EXCEPT ![l].review = review]
    /\ UNCHANGED <<company, records, documents, snapshots, request>>

-----------------------------------------------------------------------------
\* calculate_completeness: a link that is not rejected counts, whatever its validation;
\* what a person studied or did before is not asked for. No handler makes evidence expire.
Counted(record) == record.kind \notin {"PERSON_EDUCATION", "PERSON_EXPERIENCE"}
Covered(read) == {l.record : l \in {x \in Range(read.links) : x.review # "REJECTED"}}
Unsupported(read) ==
    {n \in DOMAIN read.records :
        Counted(read.records[n]) /\ read.records[n].status = "DECLARED" /\ n \notin Covered(read)}

\* The kinds that the checks ask for
Required == {"LEGAL_REGISTRATION", "RUP_SNAPSHOT", "FINANCIAL_PERIOD", "FINANCIAL_METRIC",
    "EXPERIENCE_RECORD", "PERSON", "COMPANY_CERTIFICATION"}
Ready(read) ==
    /\ read.company.complete
    /\ Required \subseteq Present \cup {r.kind : r \in Range(read.records)}
    /\ Unsupported(read) = {}
    /\ \A l \in Range(read.links) : l.role # "CONFLICTING"

\* _snapshot_payload: what was read is copied
Payload(read) == [records |-> read.records, documents |-> read.documents, links |-> read.links]
NewSnapshot(read) ==
    LET copied == Payload(read) IN
    [status |-> "DRAFT", ready |-> Ready(read), records |-> copied.records,
     documents |-> copied.documents, links |-> copied.links]

\* Mutant of ReadOrder: the links are read before what they link.
ReadOrderLinksFirst == <<"links", "documents", "records">>

\* _company_or_404: the selectinload options, in their order
ReadOrder == <<"records", "documents", "links">>

BeginSnapshot(c) ==
    /\ request[c] = Idle /\ Len(snapshots) < MaxSnapshots
    /\ Cardinality({x \in Clients : request[x].op = "snapshot"}) < MaxReaders
    /\ request' = [request EXCEPT ![c] = [op |-> "snapshot", done |-> 0, company |-> company,
                                          records |-> <<>>, documents |-> {}, links |-> <<>>]]
    /\ UNCHANGED <<company, records, documents, links, snapshots, edits>>

ReadRows(c) ==
    /\ request[c].op = "snapshot" /\ request[c].done < Len(ReadOrder)
    /\ LET read == [request[c] EXCEPT !.done = @ + 1]
           next == ReadOrder[request[c].done + 1] IN
       request' = [request EXCEPT ![c] =
                     CASE next = "records" -> [read EXCEPT !.records = records]
                       [] next = "documents" -> [read EXCEPT !.documents = documents]
                       [] next = "links" -> [read EXCEPT !.links = links]]
    /\ UNCHANGED <<company, records, documents, links, snapshots, edits>>

\* create_snapshot: refused when the profile is not ready, unless incomplete ones are
\* allowed. The version is the next one, and its number is read in the same transaction.
CommitSnapshot(c, allowIncomplete) ==
    LET read == request[c] IN
    /\ read.op = "snapshot" /\ read.done = Len(ReadOrder)
    /\ IF (Ready(read) \/ allowIncomplete) /\ Len(snapshots) < MaxSnapshots
       THEN snapshots' = Append(snapshots, NewSnapshot(read))
       ELSE UNCHANGED snapshots
    /\ request' = [request EXCEPT ![c] = Idle]
    /\ UNCHANGED <<company, records, documents, links, edits>>

\* publish_snapshot reads the snapshot and the published ones before it commits.
Published == {s \in DOMAIN snapshots : snapshots[s].status = "PUBLISHED"}
BeginPublish(c, s) ==
    /\ request[c] = Idle /\ s \notin Published
    /\ request' = [request EXCEPT ![c] = [op |-> "publish", snapshot |-> s, published |-> Published]]
    /\ UNCHANGED <<company, records, documents, links, snapshots, edits>>

\* Mutant of StatusAfter: the snapshot is published before the published ones are superseded.
StatusAfterEarly(s, read, chosen) ==
    IF s \in read \cup {chosen} THEN "SUPERSEDED" ELSE snapshots[s].status

\* What was published is superseded, and then the chosen one is published.
StatusAfter(s, read, chosen) ==
    IF s = chosen THEN "PUBLISHED"
    ELSE IF s \in read THEN "SUPERSEDED" ELSE snapshots[s].status

CommitPublish(c) ==
    LET r == request[c] IN
    /\ r.op = "publish"
    /\ snapshots' = [s \in DOMAIN snapshots |->
          [snapshots[s] EXCEPT !.status = StatusAfter(s, r.published, r.snapshot)]]
    /\ request' = [request EXCEPT ![c] = Idle]
    /\ UNCHANGED <<company, records, documents, links, edits>>

Next ==
    \/ UpdateCompany \/ Archive \/ \E d \in Contents : Upload(d)
    \/ \E status \in Declared :
          \/ \E total \in Values : CreateExperience(status, total)
          \/ \E kind \in Kinds : CreateRecord(kind, status) \/ CreatePart(kind, status)
          \/ \E n \in DOMAIN records : UpdateRecord(n, status)
    \/ \E n \in DOMAIN records, total \in Values : UpdateExperience(n, total)
    \/ \E kind \in Kinds, n \in 1..MaxRecords, d \in Contents, c \in Citations :
          LinkEvidence(kind, n, d, c[1], c[2])
    \/ \E l \in DOMAIN links : ReviewLink(l, "REJECTED")
    \/ \E c \in Clients :
          \/ \E s \in DOMAIN snapshots : BeginPublish(c, s)
          \/ \E allow \in BOOLEAN : CommitSnapshot(c, allow)
          \/ BeginSnapshot(c) \/ ReadRows(c) \/ CommitPublish(c)

Spec == Init /\ [][Next]_vars

-----------------------------------------------------------------------------
TypeOK ==
    /\ company.status \in {"DRAFT", "ARCHIVED"}
    /\ \A n \in DOMAIN records : records[n].kind \in Kinds /\ records[n].status \in RecordStatus
    /\ \A l \in DOMAIN links :
          /\ links[l].record \in DOMAIN records /\ links[l].document \in documents
          /\ links[l].validation \in Validation
    /\ \A s \in DOMAIN snapshots : snapshots[s].status \in SnapshotStatus

\* docs/specialized-evaluators.md: evaluations read what is supported from the snapshot
\* together with its links. A record that only a link made SUPPORTED has such a link in
\* every snapshot, though records and links are read one after the other.
SupportedHasLink ==
    \A s \in DOMAIN snapshots : \A n \in DOMAIN snapshots[s].records :
        LET r == snapshots[s].records[n] IN
        (r.status = "SUPPORTED" /\ r.declared # "SUPPORTED") =>
            \E l \in Range(snapshots[s].links) : l.record = n /\ Supports(l.validation)

\* A company that has published a snapshot goes on having a published one, whatever is
\* published at the same time.
StaysPublished ==
    (\E s \in DOMAIN snapshots : snapshots[s].status # "DRAFT") => Published # {}

\* docs/company-profile-snapshots.md:17: whatever was published is superseded.
OnePublished == Cardinality(Published) <= 1

\* A snapshot links records and documents that it has.
LinksResolve ==
    \A s \in DOMAIN snapshots : \A l \in Range(snapshots[s].links) :
        l.record \in DOMAIN snapshots[s].records /\ l.document \in snapshots[s].documents

\* docs/company-evidence.md: a segment or a quotation that is not of the document is refused,
\* so that a profile that is ready has good evidence of what it declares.
ReadyIsBacked ==
    \A s \in DOMAIN snapshots : snapshots[s].ready =>
        \A n \in DOMAIN snapshots[s].records :
            snapshots[s].records[n].status = "DECLARED" =>
                \E l \in Range(snapshots[s].links) : l.record = n /\ Supports(l.validation)

\* The value of a contract that is the company's is worked out from its total
\* (attributable_value_formula), and says what the total says.
ShareFollowsTotal ==
    \A n \in DOMAIN records : records[n].kind = "EXPERIENCE_RECORD" => records[n].own = records[n].total
=============================================================================
