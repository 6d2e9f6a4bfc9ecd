------------------------------ MODULE ServicesProofs ------------------------------
(***************************************************************************)
(* The services around the evaluations, for every value of their           *)
(* constants: evidence of company profiles, accounts, public documents,    *)
(* opportunities. Beside the invariant of each stands what its rows may    *)
(* hold (the Typing parts), which is inductive only together with it: that *)
(* a worker names a row there is follows from who holds what.              *)
(***************************************************************************)
EXTENDS Services, RestrictedDeploymentProofs, FiniteSetTheorems, SequenceTheorems,
        WellFoundedInduction, TLAPS

-----------------------------------------------------------------------------
\* A sequence that grows, or has an element replaced, is one.
LEMMA Appended ==
    ASSUME NEW s, IsSequence(s), NEW e
    PROVE  LET t == Append(s, e) IN
           /\ IsSequence(t)
           /\ Len(s) \in Nat
           /\ DOMAIN s = 1 .. Len(s)
           /\ DOMAIN t = 1 .. (Len(s) + 1)
           /\ t[Len(s) + 1] = e
           /\ \A n \in 1 .. Len(s) : t[n] = s[n]
  <1>1. PICK S : s \in Seq(S)
    BY DEF IsSequence
  <1>2. s \in Seq(S \cup {e}) /\ e \in S \cup {e}
    BY <1>1
  <1>3. Append(s, e) \in Seq(S \cup {e})
    BY <1>2
  <1>4. QED
    BY <1>2, <1>3 DEF IsSequence

LEMMA Replaced ==
    ASSUME NEW s, IsSequence(s), NEW n \in DOMAIN s, NEW e
    PROVE  LET t == [s EXCEPT ![n] = e] IN
           /\ IsSequence(t)
           /\ DOMAIN t = DOMAIN s
           /\ t[n] = e
           /\ \A m \in DOMAIN s \ {n} : t[m] = s[m]
  <1>1. PICK S : s \in Seq(S)
    BY DEF IsSequence
  <1>2. s \in Seq(S \cup {e}) /\ e \in S \cup {e} /\ n \in 1 .. Len(s)
    BY <1>1
  <1>3. [s EXCEPT ![n] = e] \in Seq(S \cup {e})
    BY <1>2, ExceptSeq
  <1>4. QED
    BY <1>3 DEF IsSequence

-----------------------------------------------------------------------------
(* CompanyProfiles.  Records are read before the links that support them,  *)
(* and links only become more: what a request has read of the records is   *)
(* backed by the links that are there, and then by the ones that it reads. *)

RecordFields == {"kind", "status", "total", "own", "declared"}
LinkFields == {"record", "document", "validation", "role", "review"}
SnapshotFields == {"status", "ready", "records", "documents", "links"}
ReadingFields == {"op", "done", "company", "records", "documents", "links"}

Backs(link, n) == link.record = n /\ Com!Supports(link.validation)
Backed(entries, cited) ==
    \A n \in DOMAIN entries : (entries[n].status = "SUPPORTED" /\ entries[n].declared # "SUPPORTED") =>
        \E l \in DOMAIN cited : Backs(cited[l], n)

ComRows ==
    /\ IsSequence(comRecords) /\ \A n \in DOMAIN comRecords : DOMAIN comRecords[n] = RecordFields
    /\ IsSequence(comLinks) /\ \A l \in DOMAIN comLinks : DOMAIN comLinks[l] = LinkFields
    /\ IsSequence(comSnapshots) /\ \A s \in DOMAIN comSnapshots : DOMAIN comSnapshots[s] = SnapshotFields
    /\ DOMAIN comRequest = Clients

\* What a request that makes a snapshot has read; it has yet to read the links, or has.
ReadingOK(r) ==
    r.op = "snapshot" =>
        /\ DOMAIN r = ReadingFields /\ r.done \in 0 .. 3
        /\ r.done = 0 => r.records = <<>>
        /\ r.done < 3 => Backed(r.records, comLinks)
        /\ r.done = 3 => Backed(r.records, r.links)
PublishingOK(r) == r.op = "publish" => r.snapshot \in DOMAIN comSnapshots

ComInv ==
    /\ ComRows
    /\ Backed(comRecords, comLinks)
    /\ \A c \in Clients : ReadingOK(comRequest[c]) /\ PublishingOK(comRequest[c])
    /\ \A s \in DOMAIN comSnapshots : Backed(comSnapshots[s].records, comSnapshots[s].links)
    /\ Com!StaysPublished

\* Links that are added to, or reviewed, back what they backed.
LEMMA BackedByMore ==
    ASSUME NEW entries, NEW cited, NEW more, Backed(entries, cited),
           \A l \in DOMAIN cited : /\ l \in DOMAIN more
                                   /\ more[l].record = cited[l].record
                                   /\ more[l].validation = cited[l].validation
    PROVE  Backed(entries, more)
  BY DEF Backed, Backs, Com!Supports

\* A step that leaves requests and snapshots alone, and the links at least as they were,
\* keeps what is said of them.
LEMMA OthersKeepComInv ==
    ASSUME ComInv, UNCHANGED <<comRequest, comSnapshots>>,
           IsSequence(comRecords'), \A n \in DOMAIN comRecords' : DOMAIN comRecords'[n] = RecordFields,
           IsSequence(comLinks'), \A l \in DOMAIN comLinks' : DOMAIN comLinks'[l] = LinkFields,
           \A l \in DOMAIN comLinks : /\ l \in DOMAIN comLinks'
                                      /\ comLinks'[l].record = comLinks[l].record
                                      /\ comLinks'[l].validation = comLinks[l].validation,
           Backed(comRecords', comLinks')
    PROVE  ComInv'
  <1>1. ComRows'
    BY DEF ComInv, ComRows
  <1>2. \A entries : Backed(entries, comLinks) => Backed(entries, comLinks')
    BY BackedByMore
  <1>3. ASSUME NEW c \in Clients
        PROVE  (ReadingOK(comRequest[c]) /\ PublishingOK(comRequest[c]))'
    BY <1>2 DEF ComInv, ReadingOK, PublishingOK
  <1>4. QED
    BY <1>1, <1>3 DEF ComInv, Com!StaysPublished, Com!Published, Backed

\* What clients declare.
LEMMA AddRecordKeepsInv ==
    ASSUME ComInv, NEW record, DOMAIN record = RecordFields, record.declared = record.status,
           Com!AddRecord(record)
    PROVE  ComInv'
  <1>1. comRecords' = Append(comRecords, record) /\ UNCHANGED <<comRequest, comSnapshots, comLinks>>
    BY DEF Com!AddRecord
  <1>2. /\ IsSequence(comRecords') /\ Len(comRecords) \in Nat /\ DOMAIN comRecords = 1 .. Len(comRecords)
        /\ DOMAIN comRecords' = 1 .. (Len(comRecords) + 1) /\ comRecords'[Len(comRecords) + 1] = record
        /\ \A n \in 1 .. Len(comRecords) : comRecords'[n] = comRecords[n]
    BY <1>1, Appended DEF ComInv, ComRows
  <1>3. \A n \in DOMAIN comRecords' : n \in DOMAIN comRecords \/ comRecords'[n] = record
    BY <1>2
  <1>4. Backed(comRecords', comLinks')
    BY <1>1, <1>2, <1>3 DEF ComInv, Backed
  <1>5. \A n \in DOMAIN comRecords' : DOMAIN comRecords'[n] = RecordFields
    BY <1>2, <1>3 DEF ComInv, ComRows
  <1>6. QED
    BY <1>1, <1>2, <1>4, <1>5, OthersKeepComInv DEF ComInv, ComRows

LEMMA NewRecordFields ==
    ASSUME NEW kind, NEW status
    PROVE  /\ DOMAIN Com!NewRecord(kind, status) = RecordFields
           /\ Com!NewRecord(kind, status).status = status
           /\ Com!NewRecord(kind, status).declared = status
  BY DEF Com!NewRecord, RecordFields

LEMMA CreateKeepsInv ==
    ASSUME ComInv, NEW status, NEW total, NEW kind,
           \/ Com!CreateRecord(kind, status)
           \/ Com!CreatePart(kind, status)
           \/ Com!CreateExperience(status, total)
    PROVE  ComInv'
  <1>1. CASE Com!CreateRecord(kind, status) \/ Com!CreatePart(kind, status)
    BY <1>1, NewRecordFields, AddRecordKeepsInv DEF Com!CreateRecord, Com!CreatePart
  <1>2. CASE Com!CreateExperience(status, total)
    <2>1. PICK record : record = [Com!NewRecord("EXPERIENCE_RECORD", status)
                                      EXCEPT !.total = total, !.own = total]
      OBVIOUS
    <2>2. DOMAIN record = RecordFields /\ record.declared = record.status
      BY <2>1, NewRecordFields DEF RecordFields
    <2>3. Com!AddRecord(record)
      BY <1>2, <2>1 DEF Com!CreateExperience
    <2>4. QED
      BY <2>2, <2>3, AddRecordKeepsInv
  <1>3. QED
    BY <1>1, <1>2

LEMMA UpdateKeepsInv ==
    ASSUME ComInv, NEW n \in DOMAIN comRecords, NEW value,
           Com!UpdateRecord(n, value) \/ Com!UpdateExperience(n, value)
    PROVE  ComInv'
  <1>1. PICK record : /\ comRecords' = [comRecords EXCEPT ![n] = record]
                      /\ DOMAIN record = RecordFields
                      /\ \/ record.declared = record.status
                         \/ record.declared = comRecords[n].declared /\ record.status = comRecords[n].status
    <2>1. PICK old : old = comRecords[n] /\ DOMAIN old = RecordFields
      BY DEF ComInv, ComRows
    <2>2. CASE Com!UpdateRecord(n, value)
      <3>1. PICK record : record = [old EXCEPT !.status = value, !.declared = value]
        OBVIOUS
      <3>2. comRecords' = [comRecords EXCEPT ![n] = record]
        BY <2>1, <2>2, <3>1 DEF Com!UpdateRecord
      <3>3. DOMAIN record = RecordFields /\ record.status = value /\ record.declared = value
        BY <2>1, <3>1 DEF RecordFields
      <3>4. QED
        BY <3>2, <3>3
    <2>3. CASE Com!UpdateExperience(n, value)
      <3>1. PICK record : record = [old EXCEPT !.total = value]
        OBVIOUS
      <3>2. comRecords' = [comRecords EXCEPT ![n] = record]
        BY <2>1, <2>3, <3>1 DEF Com!UpdateExperience
      <3>3. /\ DOMAIN record = RecordFields
            /\ record.status = old.status /\ record.declared = old.declared
        BY <2>1, <3>1 DEF RecordFields
      <3>4. QED
        BY <2>1, <3>2, <3>3
    <2>4. QED
      BY <2>2, <2>3
  <1>2. UNCHANGED <<comRequest, comSnapshots, comLinks>>
    BY DEF Com!UpdateRecord, Com!UpdateExperience
  <1>3. /\ IsSequence(comRecords') /\ DOMAIN comRecords' = DOMAIN comRecords /\ comRecords'[n] = record
        /\ \A m \in DOMAIN comRecords \ {n} : comRecords'[m] = comRecords[m]
    BY <1>1, Replaced DEF ComInv, ComRows
  <1>4. Backed(comRecords', comLinks')
    BY <1>1, <1>2, <1>3 DEF ComInv, Backed
  <1>5. \A m \in DOMAIN comRecords' : DOMAIN comRecords'[m] = RecordFields
    BY <1>1, <1>3 DEF ComInv, ComRows
  <1>6. QED
    BY <1>2, <1>3, <1>4, <1>5, OthersKeepComInv DEF ComInv, ComRows

\* Evidence: the link is there as soon as the record is SUPPORTED.
LEMMA LinkKeepsInv ==
    ASSUME ComInv, NEW kind, NEW n, NEW d, NEW reference, NEW role,
           Com!LinkEvidence(kind, n, d, reference, role)
    PROVE  ComInv'
  <1>1. PICK link : /\ comLinks' = Append(comLinks, link)
                    /\ DOMAIN link = LinkFields
                    /\ link.record = n /\ link.validation = Com!ValidationOf(reference)
    BY DEF Com!LinkEvidence, Com!NewLink, LinkFields
  <1>2. UNCHANGED <<comRequest, comSnapshots>> /\ n \in DOMAIN comRecords
    BY DEF Com!LinkEvidence, Com!HasSubject
  <1>3. /\ IsSequence(comLinks') /\ Len(comLinks) \in Nat /\ DOMAIN comLinks = 1 .. Len(comLinks)
        /\ DOMAIN comLinks' = 1 .. (Len(comLinks) + 1) /\ comLinks'[Len(comLinks) + 1] = link
        /\ \A l \in 1 .. Len(comLinks) : comLinks'[l] = comLinks[l]
    BY <1>1, Appended DEF ComInv, ComRows
  <1>4. \A l \in DOMAIN comLinks' : l \in DOMAIN comLinks \/ comLinks'[l] = link
    BY <1>3
  <1>5. \A l \in DOMAIN comLinks : l \in DOMAIN comLinks' /\ comLinks'[l] = comLinks[l]
    BY <1>3
  <1>6. Backed(comRecords, comLinks')
    BY <1>5, BackedByMore DEF ComInv
  <1>7. /\ IsSequence(comRecords') /\ \A m \in DOMAIN comRecords' : DOMAIN comRecords'[m] = RecordFields
        /\ Backed(comRecords', comLinks')
    <2>1. CASE comRecords' = comRecords
      BY <2>1, <1>6 DEF ComInv, ComRows
    <2>2. CASE comRecords' # comRecords
      <3>1. PICK old : old = comRecords[n] /\ DOMAIN old = RecordFields
        BY <1>2 DEF ComInv, ComRows
      <3>2. /\ comRecords' = [comRecords EXCEPT ![n] = [old EXCEPT !.status = "SUPPORTED"]]
            /\ Com!Supports(link.validation)
        BY <2>2, <3>1, <1>1 DEF Com!LinkEvidence, Com!MarkedSupported
      <3>3. /\ IsSequence(comRecords') /\ DOMAIN comRecords' = DOMAIN comRecords
            /\ DOMAIN comRecords'[n] = RecordFields
            /\ \A m \in DOMAIN comRecords \ {n} : comRecords'[m] = comRecords[m]
        BY <3>1, <3>2, <1>2, Replaced DEF ComInv, ComRows
      <3>4. Backs(comLinks'[Len(comLinks) + 1], n) /\ (Len(comLinks) + 1) \in DOMAIN comLinks'
        BY <3>2, <1>1, <1>3 DEF Backs
      <3>5. Backed(comRecords', comLinks')
        BY <3>3, <3>4, <1>6 DEF Backed
      <3>6. QED
        BY <3>3, <3>5 DEF ComInv, ComRows
    <2>3. QED
      BY <2>1, <2>2
  <1>8. \A l \in DOMAIN comLinks' : DOMAIN comLinks'[l] = LinkFields
    BY <1>1, <1>3, <1>4 DEF ComInv, ComRows
  <1>9. QED
    BY <1>2, <1>3, <1>5, <1>7, <1>8, OthersKeepComInv

LEMMA ReviewLinkKeepsInv ==
    ASSUME ComInv, NEW l \in DOMAIN comLinks, NEW review, Com!ReviewLink(l, review)
    PROVE  ComInv'
  <1>1. PICK link : /\ comLinks' = [comLinks EXCEPT ![l] = link]
                    /\ DOMAIN link = LinkFields
                    /\ link.record = comLinks[l].record /\ link.validation = comLinks[l].validation
    <2>1. PICK old : old = comLinks[l] /\ DOMAIN old = LinkFields
      BY DEF ComInv, ComRows
    <2>2. PICK link : link = [old EXCEPT !.review = review]
      OBVIOUS
    <2>3. comLinks' = [comLinks EXCEPT ![l] = link]
      BY <2>1, <2>2 DEF Com!ReviewLink
    <2>4. /\ DOMAIN link = LinkFields
          /\ link.record = old.record /\ link.validation = old.validation
      BY <2>1, <2>2 DEF LinkFields
    <2>5. QED
      BY <2>1, <2>3, <2>4
  <1>2. UNCHANGED <<comRequest, comSnapshots, comRecords>>
    BY DEF Com!ReviewLink
  <1>3. /\ IsSequence(comLinks') /\ DOMAIN comLinks' = DOMAIN comLinks /\ comLinks'[l] = link
        /\ \A m \in DOMAIN comLinks \ {l} : comLinks'[m] = comLinks[m]
    BY <1>1, Replaced DEF ComInv, ComRows
  <1>4. \A m \in DOMAIN comLinks : /\ m \in DOMAIN comLinks'
                                   /\ comLinks'[m].record = comLinks[m].record
                                   /\ comLinks'[m].validation = comLinks[m].validation
    BY <1>1, <1>3
  <1>5. Backed(comRecords', comLinks')
    BY <1>2, <1>4, BackedByMore DEF ComInv
  <1>6. \A m \in DOMAIN comLinks' : DOMAIN comLinks'[m] = LinkFields
    BY <1>1, <1>3 DEF ComInv, ComRows
  <1>7. QED
    BY <1>2, <1>3, <1>4, <1>5, <1>6, OthersKeepComInv DEF ComInv, ComRows

\* A snapshot is read row by row, and then written.
LEMMA ReadOrderIs == /\ Len(Com!ReadOrder) = 3
                     /\ Com!ReadOrder[1] = "records"
                     /\ Com!ReadOrder[2] = "documents"
                     /\ Com!ReadOrder[3] = "links"
  BY DEF Com!ReadOrder

LEMMA RequestsKeepComInv ==
    ASSUME ComInv, NEW c \in Clients, NEW r, comRequest' = [comRequest EXCEPT ![c] = r],
           UNCHANGED <<comRecords, comLinks>>, ReadingOK(r), PublishingOK(r),
           UNCHANGED comSnapshots
    PROVE  ComInv'
  <1>1. \A x \in Clients : comRequest'[x] = IF x = c THEN r ELSE comRequest[x]
    BY DEF ComInv, ComRows
  <1>2. DOMAIN comRequest' = Clients
    BY DEF ComInv, ComRows
  <1>3. ASSUME NEW x \in Clients
        PROVE  (ReadingOK(comRequest[x]) /\ PublishingOK(comRequest[x]))'
    BY <1>1 DEF ComInv, ReadingOK, PublishingOK
  <1>4. QED
    BY <1>2, <1>3 DEF ComInv, ComRows, Com!StaysPublished, Com!Published

LEMMA BeginSnapshotKeepsInv ==
    ASSUME ComInv, NEW c \in Clients, Com!BeginSnapshot(c)
    PROVE  ComInv'
  <1>1. PICK r : /\ comRequest' = [comRequest EXCEPT ![c] = r]
                 /\ r = [op |-> "snapshot", done |-> 0, company |-> comCompany,
                         records |-> <<>>, documents |-> {}, links |-> <<>>]
    BY DEF Com!BeginSnapshot
  <1>2. ReadingOK(r) /\ PublishingOK(r)
    BY <1>1 DEF ReadingOK, PublishingOK, ReadingFields, Backed
  <1>3. QED
    BY <1>1, <1>2, RequestsKeepComInv DEF Com!BeginSnapshot

LEMMA ReadRowsKeepsInv ==
    ASSUME ComInv, NEW c \in Clients, Com!ReadRows(c)
    PROVE  ComInv'
  <1>1. PICK old : old = comRequest[c]
    OBVIOUS
  <1>2. /\ old.op = "snapshot" /\ DOMAIN old = ReadingFields /\ old.done \in 0 .. 2
        /\ old.done = 0 => old.records = <<>>
        /\ Backed(old.records, comLinks)
    BY <1>1, ReadOrderIs DEF Com!ReadRows, ComInv, ReadingOK
  <1>3. PICK r : /\ comRequest' = [comRequest EXCEPT ![c] = r]
                 /\ DOMAIN r = ReadingFields /\ r.op = "snapshot" /\ r.done = old.done + 1
                 /\ r.done = 1 => r.records = comRecords
                 /\ r.done > 1 => r.records = old.records
                 /\ r.done = 3 => r.links = comLinks
    <2>1. PICK next : next = Com!ReadOrder[old.done + 1]
      OBVIOUS
    <2>2. PICK read : read = [old EXCEPT !.done = @ + 1]
      OBVIOUS
    <2>3. PICK r : r = CASE next = "records" -> [read EXCEPT !.records = comRecords]
                         [] next = "documents" -> [read EXCEPT !.documents = comDocuments]
                         [] next = "links" -> [read EXCEPT !.links = comLinks]
      OBVIOUS
    <2>4. comRequest' = [comRequest EXCEPT ![c] = r]
      BY <1>1, <2>1, <2>2, <2>3 DEF Com!ReadRows
    <2>5. /\ DOMAIN read = ReadingFields /\ read.op = "snapshot" /\ read.done = old.done + 1
          /\ read.records = old.records
      BY <2>2, <1>2 DEF ReadingFields
    <2>6. ASSUME old.done = 0
          PROVE  /\ DOMAIN r = ReadingFields /\ r.op = "snapshot" /\ r.done = old.done + 1
                 /\ r.done = 1 => r.records = comRecords
                 /\ r.done > 1 => r.records = old.records
                 /\ r.done = 3 => r.links = comLinks
      <3>1. next = "records"
        BY <2>1, <2>6, ReadOrderIs
      <3>2. r = [read EXCEPT !.records = comRecords]
        BY <2>3, <3>1
      <3>3. r.done = 1 /\ DOMAIN r = ReadingFields /\ r.op = "snapshot" /\ r.records = comRecords
        BY <3>2, <2>5, <2>6 DEF ReadingFields
      <3>4. QED
        BY <3>3, <2>6
    <2>7. ASSUME old.done = 1
          PROVE  /\ DOMAIN r = ReadingFields /\ r.op = "snapshot" /\ r.done = old.done + 1
                 /\ r.done = 1 => r.records = comRecords
                 /\ r.done > 1 => r.records = old.records
                 /\ r.done = 3 => r.links = comLinks
      <3>1. next = "documents"
        BY <2>1, <2>7, ReadOrderIs
      <3>2. r = [read EXCEPT !.documents = comDocuments]
        BY <2>3, <3>1
      <3>3. r.done = 2 /\ DOMAIN r = ReadingFields /\ r.op = "snapshot" /\ r.records = old.records
        BY <3>2, <2>5, <2>7 DEF ReadingFields
      <3>4. QED
        BY <3>3, <2>7
    <2>8. ASSUME old.done = 2
          PROVE  /\ DOMAIN r = ReadingFields /\ r.op = "snapshot" /\ r.done = old.done + 1
                 /\ r.done = 1 => r.records = comRecords
                 /\ r.done > 1 => r.records = old.records
                 /\ r.done = 3 => r.links = comLinks
      <3>1. next = "links"
        BY <2>1, <2>8, ReadOrderIs
      <3>2. r = [read EXCEPT !.links = comLinks]
        BY <2>3, <3>1
      <3>3. /\ r.done = 3 /\ DOMAIN r = ReadingFields /\ r.op = "snapshot"
            /\ r.records = old.records /\ r.links = comLinks
        BY <3>2, <2>5, <2>8 DEF ReadingFields
      <3>4. QED
        BY <3>3, <2>8
    <2>9. /\ DOMAIN r = ReadingFields /\ r.op = "snapshot" /\ r.done = old.done + 1
          /\ r.done = 1 => r.records = comRecords
          /\ r.done > 1 => r.records = old.records
          /\ r.done = 3 => r.links = comLinks
      BY <2>6, <2>7, <2>8, <1>2
    <2>10. QED
      BY <2>4, <2>9
  <1>4. Backed(r.records, comLinks)
    BY <1>2, <1>3 DEF ComInv
  <1>5. ReadingOK(r) /\ PublishingOK(r)
    BY <1>2, <1>3, <1>4 DEF ReadingOK, PublishingOK
  <1>6. QED
    BY <1>3, <1>5, RequestsKeepComInv DEF Com!ReadRows

LEMMA IdleIsOK == ReadingOK(Com!Idle) /\ PublishingOK(Com!Idle)
  BY DEF Com!Idle, ReadingOK, PublishingOK

LEMMA CommitSnapshotKeepsInv ==
    ASSUME ComInv, NEW c \in Clients, NEW allow, Com!CommitSnapshot(c, allow)
    PROVE  ComInv'
  <1>1. /\ comRequest' = [comRequest EXCEPT ![c] = Com!Idle] /\ UNCHANGED <<comRecords, comLinks>>
        /\ comRequest[c].op = "snapshot" /\ comRequest[c].done = 3
    BY ReadOrderIs DEF Com!CommitSnapshot
  <1>2. CASE comSnapshots' = comSnapshots
    BY <1>1, <1>2, IdleIsOK, RequestsKeepComInv
  <1>3. CASE comSnapshots' # comSnapshots
    <2>1. PICK new : /\ comSnapshots' = Append(comSnapshots, new)
                     /\ DOMAIN new = SnapshotFields /\ new.status = "DRAFT"
                     /\ Backed(new.records, new.links)
      <3>1. Backed(comRequest[c].records, comRequest[c].links)
        BY <1>1 DEF ComInv, ReadingOK
      <3>2. PICK new : new = Com!NewSnapshot(comRequest[c])
        OBVIOUS
      <3>3. /\ DOMAIN new = SnapshotFields /\ new.status = "DRAFT"
            /\ new.records = comRequest[c].records /\ new.links = comRequest[c].links
        BY <3>2 DEF Com!NewSnapshot, Com!Payload, SnapshotFields
      <3>4. comSnapshots' = Append(comSnapshots, new)
        BY <1>3, <3>2 DEF Com!CommitSnapshot
      <3>5. QED
        BY <3>1, <3>3, <3>4
    <2>2. /\ IsSequence(comSnapshots') /\ Len(comSnapshots) \in Nat /\ DOMAIN comSnapshots = 1 .. Len(comSnapshots)
          /\ DOMAIN comSnapshots' = 1 .. (Len(comSnapshots) + 1) /\ comSnapshots'[Len(comSnapshots) + 1] = new
          /\ \A s \in 1 .. Len(comSnapshots) : comSnapshots'[s] = comSnapshots[s]
      BY <2>1, Appended DEF ComInv, ComRows
    <2>3. \A s \in DOMAIN comSnapshots' : s \in DOMAIN comSnapshots \/ comSnapshots'[s] = new
      BY <2>2
    <2>4. \A s \in DOMAIN comSnapshots : s \in DOMAIN comSnapshots' /\ comSnapshots'[s] = comSnapshots[s]
      BY <2>2
    <2>5. \A x \in Clients : comRequest'[x] = IF x = c THEN Com!Idle ELSE comRequest[x]
      BY <1>1 DEF ComInv, ComRows
    <2>6. ComRows'
      BY <1>1, <2>1, <2>2, <2>3, <2>4 DEF ComInv, ComRows
    <2>7. ASSUME NEW x \in Clients
          PROVE  (ReadingOK(comRequest[x]) /\ PublishingOK(comRequest[x]))'
      BY <1>1, <2>4, <2>5 DEF ComInv, ReadingOK, PublishingOK, Com!Idle
    <2>8. \A s \in DOMAIN comSnapshots' : Backed(comSnapshots'[s].records, comSnapshots'[s].links)
      BY <2>1, <2>3, <2>4 DEF ComInv
    <2>9. Com!StaysPublished'
      BY <2>1, <2>3, <2>4 DEF ComInv, Com!StaysPublished, Com!Published
    <2>10. QED
      BY <1>1, <2>6, <2>7, <2>8, <2>9 DEF ComInv
  <1>4. QED
    BY <1>2, <1>3

LEMMA BeginPublishKeepsInv ==
    ASSUME ComInv, NEW c \in Clients, NEW s \in DOMAIN comSnapshots, Com!BeginPublish(c, s)
    PROVE  ComInv'
  <1>1. PICK r : /\ comRequest' = [comRequest EXCEPT ![c] = r]
                 /\ r = [op |-> "publish", snapshot |-> s, published |-> Com!Published]
    BY DEF Com!BeginPublish
  <1>2. ReadingOK(r) /\ PublishingOK(r)
    BY <1>1 DEF ReadingOK, PublishingOK
  <1>3. QED
    BY <1>1, <1>2, RequestsKeepComInv DEF Com!BeginPublish

\* The snapshot that a request publishes is a published one after it, whatever others did.
LEMMA CommitPublishKeepsInv ==
    ASSUME ComInv, NEW c \in Clients, Com!CommitPublish(c)
    PROVE  ComInv'
  <1>1. PICK chosen \in DOMAIN comSnapshots : chosen = comRequest[c].snapshot
    BY DEF Com!CommitPublish, ComInv, PublishingOK
  <1>2. /\ comRequest' = [comRequest EXCEPT ![c] = Com!Idle] /\ UNCHANGED <<comRecords, comLinks>>
        /\ DOMAIN comSnapshots' = DOMAIN comSnapshots
        /\ comSnapshots' = [s \in DOMAIN comSnapshots |-> comSnapshots'[s]]
        /\ \A s \in DOMAIN comSnapshots : comSnapshots'[s] = [comSnapshots[s] EXCEPT
              !.status = Com!StatusAfter(s, comRequest[c].published, chosen)]
    BY <1>1 DEF Com!CommitPublish
  <1>3. ASSUME NEW s \in DOMAIN comSnapshots
        PROVE  /\ DOMAIN comSnapshots'[s] = SnapshotFields
               /\ comSnapshots'[s].records = comSnapshots[s].records
               /\ comSnapshots'[s].links = comSnapshots[s].links
               /\ comSnapshots'[s].status = Com!StatusAfter(s, comRequest[c].published, chosen)
    <2>1. PICK old : old = comSnapshots[s] /\ DOMAIN old = SnapshotFields
      BY DEF ComInv, ComRows
    <2>2. QED
      BY <2>1, <1>2 DEF SnapshotFields
  <1>4. IsSequence(comSnapshots')
    <2>1. PICK k \in Nat : DOMAIN comSnapshots = 1 .. k
      BY DEF ComInv, ComRows, IsSequence
    <2>2. comSnapshots' \in [1 .. k -> {comSnapshots'[s] : s \in 1 .. k}]
      BY <2>1, <1>2
    <2>3. QED
      BY <2>2, SeqDef DEF IsSequence
  <1>5. \A x \in Clients : comRequest'[x] = IF x = c THEN Com!Idle ELSE comRequest[x]
    BY <1>2 DEF ComInv, ComRows
  <1>6. ComRows'
    BY <1>2, <1>3, <1>4 DEF ComInv, ComRows
  <1>7. ASSUME NEW x \in Clients
        PROVE  (ReadingOK(comRequest[x]) /\ PublishingOK(comRequest[x]))'
    BY <1>2, <1>5 DEF ComInv, ReadingOK, PublishingOK, Com!Idle
  <1>8. \A s \in DOMAIN comSnapshots' : Backed(comSnapshots'[s].records, comSnapshots'[s].links)
    BY <1>2, <1>3 DEF ComInv
  <1>9. Com!StaysPublished'
    <2>1. comSnapshots'[chosen].status = "PUBLISHED"
      BY <1>3 DEF Com!StatusAfter
    <2>2. QED
      BY <2>1, <1>2 DEF Com!StaysPublished, Com!Published
  <1>10. QED
    BY <1>2, <1>6, <1>7, <1>8, <1>9 DEF ComInv

LEMMA ComInitInv == Com!Init => ComInv
  <1> SUFFICES ASSUME Com!Init PROVE ComInv
    OBVIOUS
  <1>1. IsSequence(<<>>)
    BY DEF IsSequence
  <1>2. DOMAIN comRequest = Clients /\ \A c \in Clients : comRequest[c] = Com!Idle
    BY DEF Com!Init
  <1>3. QED
    BY <1>1, <1>2, IdleIsOK DEF Com!Init, ComInv, ComRows, Backed, Com!StaysPublished

LEMMA ComNextInv == ComInv /\ [Com!Next]_(Com!vars) => ComInv'
  <1> SUFFICES ASSUME ComInv, [Com!Next]_(Com!vars) PROVE ComInv'
    OBVIOUS
  <1>1. CASE UNCHANGED <<comRecords, comLinks, comRequest, comSnapshots>>
    BY <1>1, OthersKeepComInv DEF ComInv, ComRows
  <1>2. CASE \E status, total, kind : \/ Com!CreateRecord(kind, status)
                                      \/ Com!CreatePart(kind, status)
                                      \/ Com!CreateExperience(status, total)
    BY <1>2, CreateKeepsInv
  <1>3. CASE \E n \in DOMAIN comRecords : \E value : Com!UpdateRecord(n, value) \/ Com!UpdateExperience(n, value)
    BY <1>3, UpdateKeepsInv
  <1>4. CASE \E kind, n, d, reference, role : Com!LinkEvidence(kind, n, d, reference, role)
    BY <1>4, LinkKeepsInv
  <1>5. CASE \E l \in DOMAIN comLinks : \E review : Com!ReviewLink(l, review)
    BY <1>5, ReviewLinkKeepsInv
  <1>6. CASE \E c \in Clients : \E s \in DOMAIN comSnapshots : Com!BeginPublish(c, s)
    BY <1>6, BeginPublishKeepsInv
  <1>7. CASE \E c \in Clients, allow \in BOOLEAN : Com!CommitSnapshot(c, allow)
    BY <1>7, CommitSnapshotKeepsInv
  <1>8. CASE \E c \in Clients : Com!BeginSnapshot(c) \/ Com!ReadRows(c) \/ Com!CommitPublish(c)
    BY <1>8, BeginSnapshotKeepsInv, ReadRowsKeepsInv, CommitPublishKeepsInv
  <1>9. (Com!UpdateCompany \/ Com!Archive \/ (\E d \in Contents : Com!Upload(d)) \/ UNCHANGED Com!vars)
           => UNCHANGED <<comRecords, comLinks, comRequest, comSnapshots>>
    BY DEF Com!UpdateCompany, Com!Archive, Com!Upload, Com!vars
  <1>10. QED
    BY <1>1, <1>2, <1>3, <1>4, <1>5, <1>6, <1>7, <1>8, <1>9 DEF Com!Next

LEMMA ComInvariant == Com!Spec => []ComInv
  BY ComInitInv, ComNextInv, PTL DEF Com!Spec

\* A record that evidence made SUPPORTED has that evidence in every snapshot, however
\* the reads of a snapshot interleave with links, reviews and edits of records.
THEOREM SupportedHasItsLink == Com!Spec => []SupportedHasLink
  <1>1. ComInv => SupportedHasLink
    <2> SUFFICES ASSUME ComInv, NEW s \in DOMAIN comSnapshots, NEW n \in DOMAIN comSnapshots[s].records,
                        comSnapshots[s].records[n].status = "SUPPORTED",
                        comSnapshots[s].records[n].declared # "SUPPORTED"
                 PROVE  \E l \in Com!Range(comSnapshots[s].links) :
                            l.record = n /\ Com!Supports(l.validation)
      BY DEF SupportedHasLink, Com!SupportedHasLink
    <2>1. PICK l \in DOMAIN comSnapshots[s].links : Backs(comSnapshots[s].links[l], n)
      BY DEF ComInv, Backed
    <2>2. comSnapshots[s].links[l] \in Com!Range(comSnapshots[s].links)
      BY DEF Com!Range
    <2>3. QED
      BY <2>1, <2>2 DEF Backs
  <1>2. QED
    BY <1>1, ComInvariant, PTL

\* A company that has published a snapshot keeps a published one, whatever is published
\* at the same time.
THEOREM PublishedStays == Com!Spec => []StaysPublished
  <1>1. ComInv => StaysPublished
    BY DEF ComInv, StaysPublished
  <1>2. QED
    BY <1>1, ComInvariant, PTL

-----------------------------------------------------------------------------
(* The rows of CompanyProfiles stay well formed.                           *)

ComTyping == DOMAIN comCompany = {"status", "complete"} /\ Com!TypeOK

\* What a step does to the rows that the typing is about.
LEMMA ComTypingStays ==
    ASSUME ComTyping, UNCHANGED <<comCompany, comRecords, comLinks>>,
           comDocuments \subseteq comDocuments',
           \A s \in DOMAIN comSnapshots' : comSnapshots'[s].status \in Com!SnapshotStatus
    PROVE  ComTyping'
  BY DEF ComTyping, Com!TypeOK

LEMMA RecordsKeepComTyping ==
    ASSUME ComInv, ComTyping, UNCHANGED <<comCompany, comDocuments, comSnapshots>>,
           DOMAIN comRecords \subseteq DOMAIN comRecords',
           \A n \in DOMAIN comRecords' :
              comRecords'[n].kind \in Kinds /\ comRecords'[n].status \in Com!RecordStatus,
           \A l \in DOMAIN comLinks' :
              /\ comLinks'[l].record \in DOMAIN comRecords /\ comLinks'[l].document \in comDocuments
              /\ comLinks'[l].validation \in Com!Validation
    PROVE  ComTyping'
  BY DEF ComTyping, Com!TypeOK

LEMMA AddRecordKeepsTyping ==
    ASSUME ComInv, ComTyping, NEW record, record.kind \in Kinds, record.status \in Com!RecordStatus,
           Com!AddRecord(record)
    PROVE  ComTyping'
  <1>1. /\ comRecords' = Append(comRecords, record)
        /\ UNCHANGED <<comCompany, comDocuments, comLinks, comSnapshots>>
    BY DEF Com!AddRecord
  <1>2. /\ Len(comRecords) \in Nat /\ DOMAIN comRecords = 1 .. Len(comRecords)
        /\ DOMAIN comRecords' = 1 .. (Len(comRecords) + 1) /\ comRecords'[Len(comRecords) + 1] = record
        /\ \A n \in 1 .. Len(comRecords) : comRecords'[n] = comRecords[n]
    BY <1>1, Appended DEF ComInv, ComRows
  <1>3. \A n \in DOMAIN comRecords' :
           comRecords'[n] = record \/ (n \in DOMAIN comRecords /\ comRecords'[n] = comRecords[n])
    BY <1>2
  <1>4. DOMAIN comRecords \subseteq DOMAIN comRecords'
    BY <1>2
  <1>5. QED
    BY <1>1, <1>3, <1>4 DEF ComTyping, Com!TypeOK

\* Declared records have the kind and the status that the user gave.
LEMMA CreateKeepsTyping ==
    ASSUME ComInv, ComTyping, NEW status \in Declared, NEW total, NEW kind \in Kinds,
           \/ Com!CreateRecord(kind, status)
           \/ Com!CreatePart(kind, status)
           \/ Com!CreateExperience(status, total)
    PROVE  ComTyping'
  <1> status \in Com!RecordStatus
    BY DeclaredAssumption
  <1>1. CASE Com!CreateRecord(kind, status) \/ Com!CreatePart(kind, status)
    <2>1. PICK record : record = Com!NewRecord(kind, status)
      OBVIOUS
    <2>2. record.kind = kind /\ record.status = status
      BY <2>1 DEF Com!NewRecord
    <2>3. Com!AddRecord(record)
      BY <1>1, <2>1 DEF Com!CreateRecord, Com!CreatePart
    <2>4. QED
      BY <2>2, <2>3, AddRecordKeepsTyping
  <1>2. CASE Com!CreateExperience(status, total)
    <2>1. PICK record : record = [Com!NewRecord("EXPERIENCE_RECORD", status)
                                      EXCEPT !.total = total, !.own = total]
      OBVIOUS
    <2>2. record.kind = "EXPERIENCE_RECORD" /\ record.status = status
      BY <2>1 DEF Com!NewRecord
    <2>3. Com!AddRecord(record) /\ "EXPERIENCE_RECORD" \in Kinds
      BY <1>2, <2>1 DEF Com!CreateExperience
    <2>4. QED
      BY <2>2, <2>3, AddRecordKeepsTyping
  <1>3. QED
    BY <1>1, <1>2

LEMMA ReplacedRecordKeepsTyping ==
    ASSUME ComInv, ComTyping, NEW n \in DOMAIN comRecords, NEW record,
           record.kind = comRecords[n].kind, record.status \in Com!RecordStatus,
           comRecords' = [comRecords EXCEPT ![n] = record],
           UNCHANGED <<comCompany, comDocuments, comSnapshots>>,
           \A l \in DOMAIN comLinks' :
              /\ comLinks'[l].record \in DOMAIN comRecords /\ comLinks'[l].document \in comDocuments
              /\ comLinks'[l].validation \in Com!Validation
    PROVE  ComTyping'
  <1>1. /\ DOMAIN comRecords' = DOMAIN comRecords /\ comRecords'[n] = record
        /\ \A m \in DOMAIN comRecords \ {n} : comRecords'[m] = comRecords[m]
    BY Replaced DEF ComInv, ComRows
  <1>2. \A m \in DOMAIN comRecords' :
           comRecords'[m].kind \in Kinds /\ comRecords'[m].status \in Com!RecordStatus
    BY <1>1 DEF ComTyping, Com!TypeOK
  <1>3. QED
    BY <1>1, <1>2, RecordsKeepComTyping

LEMMA UpdateKeepsTyping ==
    ASSUME ComInv, ComTyping, NEW n \in DOMAIN comRecords, NEW value,
           (Com!UpdateRecord(n, value) /\ value \in Declared) \/ Com!UpdateExperience(n, value)
    PROVE  ComTyping'
  <1>1. PICK old : old = comRecords[n] /\ DOMAIN old = RecordFields
    BY DEF ComInv, ComRows
  <1>2. UNCHANGED <<comCompany, comDocuments, comSnapshots, comLinks>>
    BY DEF Com!UpdateRecord, Com!UpdateExperience
  <1>3. \A l \in DOMAIN comLinks' :
              /\ comLinks'[l].record \in DOMAIN comRecords /\ comLinks'[l].document \in comDocuments
              /\ comLinks'[l].validation \in Com!Validation
    BY <1>2 DEF ComTyping, Com!TypeOK
  <1>4. CASE Com!UpdateRecord(n, value) /\ value \in Declared
    <2>1. PICK record : record = [old EXCEPT !.status = value, !.declared = value]
      OBVIOUS
    <2>2. comRecords' = [comRecords EXCEPT ![n] = record]
      BY <1>1, <1>4, <2>1 DEF Com!UpdateRecord
    <2>3. record.kind = old.kind /\ record.status = value
      BY <1>1, <2>1 DEF RecordFields
    <2>4. record.status \in Com!RecordStatus
      BY <1>4, <2>3, DeclaredAssumption
    <2>5. QED
      BY <1>1, <1>2, <1>3, <2>2, <2>3, <2>4, ReplacedRecordKeepsTyping
  <1>5. CASE Com!UpdateExperience(n, value)
    <2>1. PICK record : record = [old EXCEPT !.total = value]
      OBVIOUS
    <2>2. comRecords' = [comRecords EXCEPT ![n] = record]
      BY <1>1, <1>5, <2>1 DEF Com!UpdateExperience
    <2>3. record.kind = old.kind /\ record.status = old.status
      BY <1>1, <2>1 DEF RecordFields
    <2>4. record.status \in Com!RecordStatus
      BY <1>1, <2>3 DEF ComTyping, Com!TypeOK
    <2>5. QED
      BY <1>1, <1>2, <1>3, <2>2, <2>3, <2>4, ReplacedRecordKeepsTyping
  <1>6. QED
    BY <1>4, <1>5

\* A link is of a record and a document that are there; neither is ever deleted.
LEMMA LinkKeepsTyping ==
    ASSUME ComInv, ComTyping, NEW kind, NEW n, NEW d, NEW reference, NEW role,
           Com!LinkEvidence(kind, n, d, reference, role)
    PROVE  ComTyping'
  <1>1. PICK link : /\ comLinks' = Append(comLinks, link)
                    /\ link.record = n /\ link.document = d
                    /\ link.validation = Com!ValidationOf(reference)
    BY DEF Com!LinkEvidence, Com!NewLink
  <1>2. /\ UNCHANGED <<comCompany, comDocuments, comSnapshots>>
        /\ n \in DOMAIN comRecords /\ d \in comDocuments
    BY DEF Com!LinkEvidence, Com!HasSubject
  <1>3. Com!ValidationOf(reference) \in Com!Validation
    BY DEF Com!ValidationOf, Com!Validation
  <1>4. /\ Len(comLinks) \in Nat /\ DOMAIN comLinks = 1 .. Len(comLinks)
        /\ DOMAIN comLinks' = 1 .. (Len(comLinks) + 1) /\ comLinks'[Len(comLinks) + 1] = link
        /\ \A l \in 1 .. Len(comLinks) : comLinks'[l] = comLinks[l]
    BY <1>1, Appended DEF ComInv, ComRows
  <1>5. \A l \in DOMAIN comLinks' :
           comLinks'[l] = link \/ (l \in DOMAIN comLinks /\ comLinks'[l] = comLinks[l])
    BY <1>4
  <1>6. \A l \in DOMAIN comLinks' :
              /\ comLinks'[l].record \in DOMAIN comRecords /\ comLinks'[l].document \in comDocuments
              /\ comLinks'[l].validation \in Com!Validation
    BY <1>1, <1>2, <1>3, <1>5 DEF ComTyping, Com!TypeOK
  <1>7. CASE comRecords' = comRecords
    BY <1>2, <1>6, <1>7, RecordsKeepComTyping DEF ComTyping, Com!TypeOK
  <1>8. CASE comRecords' # comRecords
    <2>1. PICK old : old = comRecords[n] /\ DOMAIN old = RecordFields
      BY <1>2 DEF ComInv, ComRows
    <2>2. PICK record : record = [old EXCEPT !.status = "SUPPORTED"]
      OBVIOUS
    <2>3. comRecords' = [comRecords EXCEPT ![n] = record]
      BY <1>8, <2>1, <2>2 DEF Com!LinkEvidence, Com!MarkedSupported
    <2>4. record.kind = old.kind /\ record.status \in Com!RecordStatus
      BY <2>1, <2>2 DEF RecordFields, Com!RecordStatus
    <2>5. QED
      BY <1>2, <1>6, <2>1, <2>3, <2>4, ReplacedRecordKeepsTyping
  <1>9. QED
    BY <1>7, <1>8

LEMMA ReviewLinkKeepsTyping ==
    ASSUME ComInv, ComTyping, NEW l \in DOMAIN comLinks, NEW review, Com!ReviewLink(l, review)
    PROVE  ComTyping'
  <1>1. PICK old : old = comLinks[l] /\ DOMAIN old = LinkFields
    BY DEF ComInv, ComRows
  <1>2. PICK link : link = [old EXCEPT !.review = review]
    OBVIOUS
  <1>3. comLinks' = [comLinks EXCEPT ![l] = link]
    BY <1>1, <1>2 DEF Com!ReviewLink
  <1>4. /\ link.record = old.record /\ link.validation = old.validation
        /\ link.document = old.document
    BY <1>1, <1>2 DEF LinkFields
  <1>5. /\ DOMAIN comLinks' = DOMAIN comLinks /\ comLinks'[l] = link
        /\ \A m \in DOMAIN comLinks \ {l} : comLinks'[m] = comLinks[m]
    BY <1>3, Replaced DEF ComInv, ComRows
  <1>6. UNCHANGED <<comCompany, comRecords, comDocuments, comSnapshots>>
    BY DEF Com!ReviewLink
  <1>7. QED
    BY <1>1, <1>4, <1>5, <1>6 DEF ComTyping, Com!TypeOK

LEMMA CommitsKeepTyping ==
    ASSUME ComInv, ComTyping, NEW c \in Clients,
           (\E allow \in BOOLEAN : Com!CommitSnapshot(c, allow)) \/ Com!CommitPublish(c)
    PROVE  ComTyping'
  <1>1. UNCHANGED <<comCompany, comRecords, comDocuments, comLinks>>
    BY DEF Com!CommitSnapshot, Com!CommitPublish
  <1>2. CASE \E allow \in BOOLEAN : Com!CommitSnapshot(c, allow)
    <2>1. CASE comSnapshots' = comSnapshots
      BY <1>1, <2>1 DEF ComTyping, Com!TypeOK
    <2>2. CASE comSnapshots' # comSnapshots
      <3>1. PICK new : comSnapshots' = Append(comSnapshots, new) /\ new.status = "DRAFT"
        BY <1>2, <2>2 DEF Com!CommitSnapshot, Com!NewSnapshot
      <3>2. /\ Len(comSnapshots) \in Nat /\ DOMAIN comSnapshots = 1 .. Len(comSnapshots)
            /\ DOMAIN comSnapshots' = 1 .. (Len(comSnapshots) + 1) /\ comSnapshots'[Len(comSnapshots) + 1] = new
            /\ \A s \in 1 .. Len(comSnapshots) : comSnapshots'[s] = comSnapshots[s]
        BY <3>1, Appended DEF ComInv, ComRows
      <3>3. \A s \in DOMAIN comSnapshots' :
               comSnapshots'[s] = new \/ (s \in DOMAIN comSnapshots /\ comSnapshots'[s] = comSnapshots[s])
        BY <3>2
      <3>4. QED
        BY <1>1, <3>1, <3>3, ComTypingStays DEF ComTyping, Com!TypeOK, Com!SnapshotStatus
    <2>3. QED
      BY <2>1, <2>2
  <1>3. CASE Com!CommitPublish(c)
    <2>1. /\ DOMAIN comSnapshots' = DOMAIN comSnapshots
          /\ \A s \in DOMAIN comSnapshots : comSnapshots'[s] = [comSnapshots[s] EXCEPT
                !.status = Com!StatusAfter(s, comRequest[c].published, comRequest[c].snapshot)]
      BY <1>3 DEF Com!CommitPublish
    <2>2. ASSUME NEW s \in DOMAIN comSnapshots
          PROVE  comSnapshots'[s].status \in Com!SnapshotStatus
      <3>1. PICK old : old = comSnapshots[s] /\ DOMAIN old = SnapshotFields
        BY DEF ComInv, ComRows
      <3>2. comSnapshots'[s].status = Com!StatusAfter(s, comRequest[c].published, comRequest[c].snapshot)
        BY <2>1, <3>1 DEF SnapshotFields
      <3>3. QED
        BY <3>2 DEF ComTyping, Com!TypeOK, Com!StatusAfter, Com!SnapshotStatus
    <2>3. QED
      BY <1>1, <2>1, <2>2, ComTypingStays
  <1>4. QED
    BY <1>2, <1>3

LEMMA CompanyKeepsTyping ==
    ASSUME ComTyping, Com!UpdateCompany \/ Com!Archive
    PROVE  ComTyping'
  <1>1. /\ DOMAIN comCompany' = {"status", "complete"}
        /\ comCompany'.status \in {"DRAFT", "ARCHIVED"}
    BY DEF ComTyping, Com!TypeOK, Com!UpdateCompany, Com!Archive
  <1>2. UNCHANGED <<comRecords, comDocuments, comLinks, comSnapshots>>
    BY DEF Com!UpdateCompany, Com!Archive
  <1>3. QED
    BY <1>1, <1>2 DEF ComTyping, Com!TypeOK

LEMMA ComNextTyping == ComInv /\ ComTyping /\ [Com!Next]_(Com!vars) => ComTyping'
  <1> SUFFICES ASSUME ComInv, ComTyping, [Com!Next]_(Com!vars) PROVE ComTyping'
    OBVIOUS
  <1>1. CASE Com!UpdateCompany \/ Com!Archive
    BY <1>1, CompanyKeepsTyping
  <1>2. CASE \E status \in Declared, total, kind \in Kinds :
                \/ Com!CreateRecord(kind, status) \/ Com!CreatePart(kind, status)
    BY <1>2, CreateKeepsTyping
  <1>3. CASE \E status \in Declared, total \in Values : Com!CreateExperience(status, total)
    <2>1. PICK status \in Declared, total \in Values : Com!CreateExperience(status, total)
      BY <1>3
    <2>2. "EXPERIENCE_RECORD" \in Kinds
      BY <2>1 DEF Com!CreateExperience
    <2>3. QED
      BY <2>1, <2>2, CreateKeepsTyping
  <1>4. CASE \E n \in DOMAIN comRecords : \/ \E status \in Declared : Com!UpdateRecord(n, status)
                                          \/ \E total \in Values : Com!UpdateExperience(n, total)
    BY <1>4, UpdateKeepsTyping
  <1>5. CASE \E kind, n, d, reference, role : Com!LinkEvidence(kind, n, d, reference, role)
    BY <1>5, LinkKeepsTyping
  <1>6. CASE \E l \in DOMAIN comLinks : Com!ReviewLink(l, "REJECTED")
    BY <1>6, ReviewLinkKeepsTyping
  <1>7. CASE \E c \in Clients : (\E allow \in BOOLEAN : Com!CommitSnapshot(c, allow)) \/ Com!CommitPublish(c)
    BY <1>7, CommitsKeepTyping
  <1>8. CASE \/ \E d \in Contents : Com!Upload(d)
             \/ \E c \in Clients : \/ \E s \in DOMAIN comSnapshots : Com!BeginPublish(c, s)
                                   \/ Com!BeginSnapshot(c) \/ Com!ReadRows(c)
             \/ UNCHANGED Com!vars
    <2>1. /\ UNCHANGED <<comCompany, comRecords, comLinks, comSnapshots>>
          /\ comDocuments \subseteq comDocuments'
      BY <1>8 DEF Com!Upload, Com!BeginPublish, Com!BeginSnapshot, Com!ReadRows, Com!vars
    <2>2. QED
      BY <2>1, ComTypingStays DEF ComTyping, Com!TypeOK
  <1>9. QED
    BY <1>1, <1>2, <1>3, <1>4, <1>5, <1>6, <1>7, <1>8 DEF Com!Next

\* Records keep a kind and a status that exist, and links what they link: nothing that a
\* link cites is ever deleted.
THEOREM CompanyTyping == Com!Spec => []Com!TypeOK
  <1>1. Com!Init => ComTyping
    BY DEF Com!Init, Com!NewCompany, ComTyping, Com!TypeOK
  <1>2. ComTyping => Com!TypeOK
    BY DEF ComTyping
  <1>3. QED
    BY <1>1, <1>2, ComInvariant, ComNextTyping, PTL DEF Com!Spec

-----------------------------------------------------------------------------
(* AuthSessions.  A login writes what it worked out from the row it read.  *)

\* The settings are numbers (Settings, config.py).

AccountRow == [status : Aut!Status, failed : Nat, until : Int]
SessionRow == [user : Users, expires : Int, revoked : BOOLEAN]
Login == [op : {"login"}, user : Users, row : AccountRow, right : BOOLEAN, alone : BOOLEAN,
          accepted : BOOLEAN]

AutRows ==
    /\ autAccount \in [Users -> AccountRow]
    /\ autSessions \in Seq(SessionRow)
    /\ autFailures \in [Users -> Nat]
    /\ autRequest \in [Clients -> Login \cup {Aut!Idle}]
    /\ autNow \in Int

\* The count of a row, or of a copy that a login has, is not ahead of the failures.
NeverAhead ==
    /\ \A u \in Users : autAccount[u].failed <= autFailures[u]
    /\ \A c \in Clients : autRequest[c] # Aut!Idle => autRequest[c].row.failed <= autFailures[autRequest[c].user]

\* A login that no other overlaps finds the count that it has read, or one that an
\* administrator has reset, and an account that nobody has locked meanwhile.
AloneIsAlone ==
    \A c \in Clients : (autRequest[c] # Aut!Idle /\ autRequest[c].alone) =>
        /\ Aut!Logging(autRequest[c].user) = {c}
        /\ autAccount[autRequest[c].user].failed \in {0, autRequest[c].row.failed}
        /\ autRequest[c].accepted => autAccount[autRequest[c].user].status # "LOCKED"

AutInv == AutRows /\ NeverAhead /\ AloneIsAlone /\ Aut!LockedByFailures

LEMMA AutInitInv == Aut!Init => AutInv
  <1> SUFFICES ASSUME Aut!Init PROVE AutInv
    OBVIOUS
  <1>1. Aut!NewAccount \in AccountRow
    BY DEF Aut!NewAccount, AccountRow, Aut!Status
  <1>2. AutRows
    BY <1>1 DEF AutRows, Aut!Init
  <1>3. /\ \A u \in Users : autAccount[u].failed = 0 /\ autAccount[u].status = "ACTIVE" /\ autFailures[u] = 0
        /\ \A c \in Clients : autRequest[c] = Aut!Idle
    BY DEF Aut!Init, Aut!NewAccount
  <1>4. QED
    BY <1>2, <1>3 DEF AutInv, NeverAhead, AloneIsAlone, Aut!LockedByFailures

LEMMA BeginLoginKeepsInv ==
    ASSUME AutInv, NEW c \in Clients, NEW u \in Users, NEW right \in BOOLEAN,
           Aut!BeginLogin(c, u, right)
    PROVE  AutInv'
  <1>1. PICK login \in Login :
          /\ autRequest' = [r \in Clients |->
                IF r = c THEN login
                ELSE IF r \in Aut!Logging(u) THEN [autRequest[r] EXCEPT !.alone = FALSE] ELSE autRequest[r]]
          /\ login.user = u /\ login.row = autAccount[u]
          /\ login.alone = (Aut!Logging(u) = {})
          /\ login.accepted => autAccount[u].status = "ACTIVE"
    <2> DEFINE accepts == right /\ autAccount[u].status = "ACTIVE" /\ autAccount[u].until <= autNow
               begun == [op |-> "login", user |-> u, row |-> autAccount[u], right |-> right,
                         alone |-> Aut!Logging(u) = {}, accepted |-> accepts]
    <2>1. accepts \in BOOLEAN /\ (Aut!Logging(u) = {}) \in BOOLEAN /\ autAccount[u] \in AccountRow
      BY DEF AutInv, AutRows
    <2>2. begun \in Login
      BY <2>1 DEF Login
    <2>3. /\ begun.user = u /\ begun.row = autAccount[u] /\ begun.alone = (Aut!Logging(u) = {})
          /\ begun.accepted => autAccount[u].status = "ACTIVE"
      BY <2>1
    <2> HIDE DEF accepts
    <2>4. autRequest' = [r \in Clients |->
                IF r = c THEN begun
                ELSE IF r \in Aut!Logging(u) THEN [autRequest[r] EXCEPT !.alone = FALSE] ELSE autRequest[r]]
      BY DEF Aut!BeginLogin, accepts
    <2> HIDE DEF begun
    <2> QED
      BY <2>2, <2>3, <2>4
  <1>2. UNCHANGED <<autAccount, autSessions, autFailures, autNow>> /\ autRequest[c] = Aut!Idle
    BY DEF Aut!BeginLogin
  <1>3. \A r \in Clients : autRequest[r] = Aut!Idle \/ autRequest[r] \in Login
    BY DEF AutInv, AutRows
  <1>4. Aut!Idle \notin Login
    BY DEF Login, Aut!Idle
  <1>5. ASSUME NEW r \in Clients, r # c
        PROVE  \/ r \in Aut!Logging(u) /\ autRequest'[r] \in Login /\ autRequest[r] \in Login
                  /\ autRequest'[r].user = autRequest[r].user /\ autRequest'[r].row = autRequest[r].row
                  /\ ~autRequest'[r].alone /\ autRequest'[r].accepted = autRequest[r].accepted
               \/ r \notin Aut!Logging(u) /\ autRequest'[r] = autRequest[r]
    <2>1. CASE r \in Aut!Logging(u)
      <3>1. autRequest[r] \in Login /\ autRequest'[r] = [autRequest[r] EXCEPT !.alone = FALSE]
        BY <1>1, <1>3, <1>5, <2>1 DEF Aut!Logging
      <3>2. QED
        BY <2>1, <3>1 DEF Login
    <2>2. CASE r \notin Aut!Logging(u)
      BY <1>1, <1>5, <2>2
    <2>3. QED
      BY <2>1, <2>2
  <1>6. autRequest'[c] \in Login /\ autRequest'[c].user = u /\ autRequest'[c].row = autAccount[u]
        /\ autRequest'[c].alone = (Aut!Logging(u) = {})
        /\ (autRequest'[c].accepted => autAccount[u].status = "ACTIVE")
    BY <1>1
  <1>7. AutRows'
    <2>1. autRequest' \in [Clients -> Login \cup {Aut!Idle}]
      <3>1. \A r \in Clients : autRequest'[r] \in Login \cup {Aut!Idle}
        BY <1>3, <1>5, <1>6
      <3>2. autRequest' = [r \in Clients |-> autRequest'[r]]
        BY <1>1
      <3>3. QED
        BY <3>1, <3>2
    <2>2. QED
      BY <1>2, <2>1 DEF AutInv, AutRows, Aut!Idle
  <1>8. NeverAhead'
    <2>1. \A v \in Users : autAccount'[v].failed <= autFailures'[v]
      BY <1>2 DEF AutInv, NeverAhead
    <2>2. ASSUME NEW r \in Clients, autRequest'[r] # Aut!Idle
          PROVE  autRequest'[r].row.failed <= autFailures'[autRequest'[r].user]
      <3>1. CASE r = c
        BY <3>1, <1>2, <1>6 DEF AutInv, NeverAhead
      <3>2. CASE r # c
        <4>1. /\ autRequest[r] # Aut!Idle
              /\ autRequest'[r].row = autRequest[r].row /\ autRequest'[r].user = autRequest[r].user
          BY <2>2, <3>2, <1>4, <1>5
        <4>2. QED
          BY <4>1, <1>2 DEF AutInv, NeverAhead
      <3>3. QED
        BY <3>1, <3>2
    <2>3. QED
      BY <2>1, <2>2 DEF NeverAhead, Aut!Idle
  <1>9. AloneIsAlone'
    <2> SUFFICES ASSUME NEW r \in Clients, autRequest'[r] # Aut!Idle, autRequest'[r].alone
                 PROVE  /\ Aut!Logging(autRequest[r].user)' = {r}
                        /\ autAccount[autRequest'[r].user].failed \in {0, autRequest'[r].row.failed}
                        /\ autRequest'[r].accepted => autAccount[autRequest'[r].user].status # "LOCKED"
      BY <1>2 DEF AloneIsAlone, Aut!Idle
    <2>1. CASE r = c
      <3>1. Aut!Logging(u) = {}
        BY <1>6, <2>1
      <3>2. Aut!Logging(autRequest[r].user)' = {x \in Clients : autRequest'[x] # Aut!Idle /\ autRequest'[x].user = u}
        BY <1>6, <2>1 DEF Aut!Logging, Aut!Idle
      <3>3. \A x \in Clients : x # c => (autRequest'[x] = Aut!Idle \/ autRequest'[x].user # u)
        BY <3>1, <1>5 DEF Aut!Logging
      <3>4. Aut!Logging(autRequest[r].user)' = {c}
        BY <3>2, <3>3, <1>6, <1>4
      <3>5. QED
        BY <3>4, <1>6, <2>1
    <2>2. CASE r # c
      <3>1. r \notin Aut!Logging(u) /\ autRequest'[r] = autRequest[r]
        BY <1>5, <2>2
      <3>2. autRequest[r].user # u
        BY <3>1 DEF Aut!Logging
      <3>3. Aut!Logging(autRequest[r].user) = {r}
        BY <3>1 DEF AutInv, AloneIsAlone
      <3>4. \A x \in Clients : x # r => (autRequest[x] = Aut!Idle \/ autRequest[x].user # autRequest[r].user)
        BY <3>3 DEF Aut!Logging
      <3>5. ASSUME NEW x \in Clients, x # r
            PROVE  autRequest'[x] = Aut!Idle \/ autRequest'[x].user # autRequest'[r].user
        <4>1. CASE x = c
          BY <3>1, <3>2, <4>1, <1>6
        <4>2. CASE x # c
          BY <3>1, <3>4, <3>5, <4>2, <1>4, <1>5
        <4>3. QED
          BY <4>1, <4>2
      <3>6. Aut!Logging(autRequest[r].user)' = {r}
        BY <3>5 DEF Aut!Logging, Aut!Idle
      <3>7. QED
        BY <3>1, <3>6 DEF AutInv, AloneIsAlone
    <2>3. QED
      BY <2>1, <2>2
  <1>10. QED
    BY <1>2, <1>7, <1>8, <1>9 DEF AutInv, Aut!LockedByFailures

LEMMA FinishLoginKeepsInv ==
    ASSUME AutInv, NEW c \in Clients, Aut!FinishLogin(c)
    PROVE  AutInv'
  <1>1. PICK login \in Login : login = autRequest[c]
    BY DEF AutInv, AutRows, Aut!FinishLogin, Aut!Idle
  <1>2. PICK u \in Users : u = login.user
    BY <1>1 DEF Login
  <1>3. PICK was \in AccountRow : was = login.row
    BY <1>1 DEF Login
  <1>4. PICK old \in AccountRow : old = autAccount[u]
    BY DEF AutInv, AutRows
  <1>5. /\ old.failed <= autFailures[u] /\ was.failed <= autFailures[u] /\ autFailures[u] \in Nat
        /\ old.failed \in Nat /\ was.failed \in Nat
        /\ old.status = "LOCKED" => autFailures[u] >= MaxFailed
    <2>1. old.failed \in Nat /\ was.failed \in Nat
      BY <1>3, <1>4 DEF AccountRow
    <2>2. autFailures[u] \in Nat
      BY <1>2 DEF AutInv, AutRows
    <2>3. old.failed <= autFailures[u]
      BY <1>2, <1>4 DEF AutInv, NeverAhead
    <2>4. was.failed <= autFailures[u]
      BY <1>1, <1>2, <1>3 DEF AutInv, NeverAhead, Login, Aut!Idle
    <2>5. old.status = "LOCKED" => autFailures[u] >= MaxFailed
      BY <1>2, <1>4 DEF AutInv, Aut!LockedByFailures
    <2>6. QED
      BY ONLY <2>1, <2>2, <2>3, <2>4, <2>5
  <1>6. login.alone => /\ Aut!Logging(u) = {c}
                       /\ old.failed \in {0, was.failed}
                       /\ login.accepted => old.status # "LOCKED"
    BY <1>1, <1>2, <1>3, <1>4 DEF AutInv, AloneIsAlone, Login, Aut!Idle
  <1>7. /\ autRequest' = [autRequest EXCEPT ![c] = Aut!Idle]
        /\ UNCHANGED <<autNow, autSpent>>
    BY DEF Aut!FinishLogin
  <1>8. PICK row \in AccountRow :
          /\ autAccount' = [autAccount EXCEPT ![u] = row]
          /\ ~login.accepted =>
                /\ row.failed = was.failed + 1
                /\ row.status = "LOCKED" => (old.status = "LOCKED" \/ was.failed + 1 >= MaxFailed)
          /\ login.accepted =>
                /\ row.failed = IF was.failed = 0 THEN old.failed ELSE 0
                /\ row.status = old.status
    <2> DEFINE count == Aut!CountAfter(login.accepted, was.failed)
               locks == ~login.accepted /\ count >= MaxFailed
               row == [status |-> IF locks /\ was.status # "LOCKED" THEN "LOCKED" ELSE old.status,
                       failed |-> IF count = was.failed THEN old.failed ELSE count,
                       until  |-> IF locks THEN autNow + Lockout
                                  ELSE IF login.accepted /\ was.until # 0 THEN 0 ELSE old.until]
    <2>1. PICK status, failed, until :
             /\ status = (IF locks /\ was.status # "LOCKED" THEN "LOCKED" ELSE old.status)
             /\ failed = (IF count = was.failed THEN old.failed ELSE count)
             /\ until = (IF locks THEN autNow + Lockout
                         ELSE IF login.accepted /\ was.until # 0 THEN 0 ELSE old.until)
      OBVIOUS
    <2>2. autAccount' = [autAccount EXCEPT ![u] = row]
      <3>1. row = [status |-> status, failed |-> failed, until |-> until]
        BY <2>1
      <3>2. autAccount' = [autAccount EXCEPT ![u].failed = failed, ![u].until = until, ![u].status = status]
        <4>1. autAccount' = [autAccount EXCEPT
                  ![u].failed = IF count = was.failed THEN @ ELSE count,
                  ![u].until = IF locks THEN autNow + Lockout
                               ELSE IF login.accepted /\ was.until # 0 THEN 0 ELSE @,
                  ![u].status = IF locks /\ was.status # "LOCKED" THEN "LOCKED" ELSE @]
          BY <1>1, <1>2, <1>3 DEF Aut!FinishLogin
        <4> HIDE DEF count, locks, row
        <4>2. QED
          BY <4>1, <2>1, <1>4
      <3> HIDE DEF count, locks, row
      <3>3. autAccount \in [Users -> AccountRow]
        BY DEF AutInv, AutRows
      <3>4. autAccount'[u] = row /\ DOMAIN autAccount' = Users
        BY <3>1, <3>2, <3>3 DEF AccountRow
      <3>5. \A v \in Users \ {u} : autAccount'[v] = autAccount[v]
        BY <3>2, <3>3
      <3>6. autAccount' = [v \in Users |-> autAccount'[v]]
        BY <3>2, <3>3
      <3>7. QED
        BY <3>3, <3>4, <3>5, <3>6
    <2>3. count \in Nat
      BY <1>5 DEF Aut!CountAfter
    <2>4. row \in AccountRow
      BY <2>3, <1>4, ServicesAssumption DEF AccountRow, AutInv, AutRows, Aut!Status
    <2>5. login.accepted \in BOOLEAN
      BY DEF Login
    <2>6. ~login.accepted =>
                /\ row.failed = was.failed + 1
                /\ row.status = "LOCKED" => (old.status = "LOCKED" \/ was.failed + 1 >= MaxFailed)
      BY <2>5, <1>5 DEF Aut!CountAfter
    <2>7. login.accepted =>
                /\ row.failed = IF was.failed = 0 THEN old.failed ELSE 0
                /\ row.status = old.status
      BY <2>5, <1>5 DEF Aut!CountAfter
    <2> HIDE DEF row
    <2> QED
      BY <2>2, <2>4, <2>6, <2>7
  <1>9. PICK n \in Nat : /\ autFailures' = [autFailures EXCEPT ![u] = n]
                         /\ ~login.accepted => n = autFailures[u] + 1
                         /\ login.accepted => n = IF login.alone THEN 0 ELSE autFailures[u]
    <2>1. PICK n : n = (IF ~login.accepted THEN autFailures[u] + 1
                        ELSE IF login.alone THEN 0 ELSE autFailures[u])
      OBVIOUS
    <2>2. autFailures' = [autFailures EXCEPT ![u] = n]
      <3>1. autFailures' = [autFailures EXCEPT ![u] = IF ~login.accepted THEN @ + 1
                                                ELSE IF login.alone THEN 0 ELSE @]
        BY <1>1, <1>2 DEF Aut!FinishLogin
      <3>2. QED
        BY <2>1, <3>1
    <2>3. n \in Nat
      BY <2>1, <1>5
    <2>4. QED
      BY <2>1, <2>2, <2>3
  <1>10. row.failed <= n
    <2>1. row.failed \in Nat
      BY DEF AccountRow
    <2>2. CASE ~login.accepted
      BY <2>2, <1>5, <1>8, <1>9
    <2>3. CASE login.accepted /\ login.alone
      BY <2>3, <1>5, <1>6, <1>8, <1>9
    <2>4. CASE login.accepted /\ ~login.alone
      BY <2>4, <2>1, <1>5, <1>8, <1>9
    <2>5. QED
      BY <2>2, <2>3, <2>4
  <1>11. row.status = "LOCKED" => n >= MaxFailed
    <2>1. CASE ~login.accepted
      BY <2>1, <1>5, <1>8, <1>9, ServicesAssumption
    <2>2. CASE login.accepted /\ login.alone
      BY <2>2, <1>6, <1>8
    <2>3. CASE login.accepted /\ ~login.alone
      BY <2>3, <1>5, <1>8, <1>9
    <2>4. QED
      BY <2>1, <2>2, <2>3
  <1>12. (n >= autFailures[u]) \/ Aut!Logging(u) = {c}
    <2>1. CASE ~login.accepted
      BY <2>1, <1>5, <1>9
    <2>2. CASE login.accepted /\ login.alone
      BY <2>2, <1>6
    <2>3. CASE login.accepted /\ ~login.alone
      BY <2>3, <1>5, <1>9
    <2>4. QED
      BY <2>1, <2>2, <2>3
  <1>13. AutRows'
    <2>1. autSessions' \in Seq(SessionRow)
      <3>1. Aut!NewSession(u) \in SessionRow
        BY ServicesAssumption DEF Aut!NewSession, SessionRow, AutInv, AutRows
      <3>2. autSessions \in Seq(SessionRow)
        BY DEF AutInv, AutRows
      <3>3. autSessions' = autSessions \/ autSessions' = Append(autSessions, Aut!NewSession(u))
        BY <1>1, <1>2 DEF Aut!FinishLogin
      <3> HIDE DEF SessionRow
      <3>4. QED
        BY <3>1, <3>2, <3>3
    <2>2. QED
      BY <2>1, <1>7, <1>8, <1>9 DEF AutInv, AutRows, Aut!Idle
  <1>14. NeverAhead'
    <2>1. \A v \in Users : autAccount'[v].failed <= autFailures'[v]
      BY <1>8, <1>9, <1>10 DEF AutInv, AutRows, NeverAhead
    <2>2. ASSUME NEW r \in Clients, autRequest'[r] # Aut!Idle
          PROVE  autRequest'[r].row.failed <= autFailures'[autRequest'[r].user]
      <3>1. r # c /\ autRequest'[r] = autRequest[r]
        BY <2>2, <1>7 DEF AutInv, AutRows
      <3>2. autRequest[r] \in Login
        BY <2>2, <3>1 DEF AutInv, AutRows
      <3>3. PICK v \in Users : v = autRequest[r].user
        BY <3>2 DEF Login
      <3>4. PICK k \in Nat : k = autRequest[r].row.failed /\ k <= autFailures[v]
        BY <3>1, <3>2, <3>3, <2>2 DEF Login, AccountRow, AutInv, NeverAhead
      <3>5. CASE v # u
        BY <3>1, <3>3, <3>4, <3>5, <1>9 DEF AutInv, AutRows
      <3>6. CASE v = u
        <4>1. Aut!Logging(u) # {c}
          BY <3>1, <3>3, <3>6, <2>2 DEF Aut!Logging
        <4>2. autFailures'[v] = n /\ n >= autFailures[u]
          BY <4>1, <3>6, <1>9, <1>12 DEF AutInv, AutRows
        <4>3. QED
          BY <4>2, <3>1, <3>3, <3>4, <3>6, <1>5
      <3>7. QED
        BY <3>5, <3>6
    <2>3. QED
      BY <2>1, <2>2 DEF NeverAhead, Aut!Idle
  <1>15. AloneIsAlone'
    <2> SUFFICES ASSUME NEW r \in Clients, autRequest'[r] # Aut!Idle, autRequest'[r].alone
                 PROVE  /\ Aut!Logging(autRequest[r].user)' = {r}
                        /\ autAccount'[autRequest'[r].user].failed \in {0, autRequest'[r].row.failed}
                        /\ autRequest'[r].accepted => autAccount'[autRequest'[r].user].status # "LOCKED"
      BY DEF AloneIsAlone, Aut!Idle
    <2>1. r # c /\ autRequest'[r] = autRequest[r]
      BY <1>7 DEF AutInv, AutRows
    <2>2. /\ Aut!Logging(autRequest[r].user) = {r}
          /\ autAccount[autRequest[r].user].failed \in {0, autRequest[r].row.failed}
          /\ autRequest[r].accepted => autAccount[autRequest[r].user].status # "LOCKED"
      BY <2>1 DEF AutInv, AloneIsAlone
    <2>3. c \in Aut!Logging(u)
      BY <1>1, <1>2 DEF Aut!Logging, Login, Aut!Idle
    <2>4. autRequest[r].user # u
      BY <2>1, <2>2, <2>3
    <2>5. autAccount'[autRequest[r].user] = autAccount[autRequest[r].user]
      <3>1. autRequest[r].user \in Users
        BY <2>1 DEF AutInv, AutRows, Login
      <3>2. QED
        BY <3>1, <2>4, <1>8 DEF AutInv, AutRows
    <2>6. Aut!Logging(autRequest[r].user)' = {r}
      <3>1. \A x \in Clients : x # r => (autRequest[x] = Aut!Idle \/ autRequest[x].user # autRequest[r].user)
        BY <2>2 DEF Aut!Logging
      <3>2. \A x \in Clients : x # r => (autRequest'[x] = Aut!Idle \/ autRequest'[x].user # autRequest'[r].user)
        BY <3>1, <2>1, <1>7 DEF AutInv, AutRows
      <3>3. QED
        BY <3>2 DEF Aut!Logging, Aut!Idle
    <2>7. QED
      BY <2>1, <2>2, <2>5, <2>6
  <1>16. Aut!LockedByFailures'
    BY <1>8, <1>9, <1>11 DEF AutInv, AutRows, Aut!LockedByFailures
  <1>17. QED
    BY <1>13, <1>14, <1>15, <1>16 DEF AutInv

\* The other steps leave the logins under way as they are.
LEMMA SessionsKeepInv ==
    ASSUME AutInv, NEW s \in DOMAIN autSessions, Aut!Logout(s) \/ Aut!ChangePassword(s)
    PROVE  AutInv'
  <1>1. UNCHANGED <<autAccount, autFailures, autRequest, autNow>>
    BY DEF Aut!Logout, Aut!ChangePassword
  <1>2. autSessions' \in Seq(SessionRow)
    <2>0. \A row \in SessionRow : [row EXCEPT !.revoked = TRUE] \in SessionRow
      BY DEF SessionRow
    <2>1. \A n \in DOMAIN autSessions : /\ autSessions[n] \in SessionRow
                                        /\ [autSessions[n] EXCEPT !.revoked = TRUE] \in SessionRow
      BY <2>0 DEF AutInv, AutRows
    <2>2. PICK k \in Nat : DOMAIN autSessions = 1 .. k
      BY DEF AutInv, AutRows
    <2>3. CASE Aut!Logout(s)
      <3>1. autSessions' = [autSessions EXCEPT ![s] = [autSessions[s] EXCEPT !.revoked = TRUE]]
        BY <2>3 DEF Aut!Logout
      <3>2. autSessions \in Seq(SessionRow)
        BY DEF AutInv, AutRows
      <3> HIDE DEF SessionRow
      <3>3. QED
        BY <3>1, <3>2, <2>1, ExceptSeq
    <2>4. CASE Aut!ChangePassword(s)
      <3>1. /\ DOMAIN autSessions' = DOMAIN autSessions
            /\ autSessions' = [n \in DOMAIN autSessions |-> autSessions'[n]]
            /\ \A n \in DOMAIN autSessions : autSessions'[n] \in SessionRow
        BY <2>1, <2>4 DEF Aut!ChangePassword
      <3>2. autSessions' \in [1 .. k -> SessionRow]
        BY <3>1, <2>2
      <3>3. QED
        BY <3>2, SeqDef
    <2>5. QED
      BY <2>3, <2>4
  <1>3. QED
    BY <1>1, <1>2 DEF AutInv, AutRows, NeverAhead, AloneIsAlone, Aut!LockedByFailures, Aut!Logging

LEMMA AdministrationKeepsInv ==
    ASSUME AutInv, NEW u \in Users, Aut!Disable(u) \/ Aut!Enable(u)
    PROVE  AutInv'
  <1>1. UNCHANGED <<autSessions, autRequest, autNow>>
    BY DEF Aut!Disable, Aut!Enable
  <1>2. PICK row \in AccountRow : /\ autAccount' = [autAccount EXCEPT ![u] = row]
                                  /\ row.failed \in {0, autAccount[u].failed}
                                  /\ row.status # "LOCKED"
    <2>1. CASE Aut!Disable(u)
      <3>1. autAccount' = [autAccount EXCEPT ![u] = [autAccount[u] EXCEPT !.status = "DISABLED"]]
        BY <2>1 DEF Aut!Disable
      <3>2. PICK old \in AccountRow : old = autAccount[u]
        BY DEF AutInv, AutRows
      <3>3. [old EXCEPT !.status = "DISABLED"] \in AccountRow
        BY DEF AccountRow, Aut!Status
      <3>4. /\ [old EXCEPT !.status = "DISABLED"].failed = old.failed
            /\ [old EXCEPT !.status = "DISABLED"].status = "DISABLED"
        BY DEF AccountRow
      <3>5. QED
        BY <3>1, <3>2, <3>3, <3>4
    <2>2. CASE Aut!Enable(u)
      <3>1. Aut!NewAccount \in AccountRow /\ Aut!NewAccount.failed = 0 /\ Aut!NewAccount.status # "LOCKED"
        BY DEF Aut!NewAccount, AccountRow, Aut!Status
      <3>2. autAccount' = [autAccount EXCEPT ![u] = Aut!NewAccount]
        BY <2>2 DEF Aut!Enable
      <3>3. QED
        BY <3>1, <3>2
    <2>3. QED
      BY <2>1, <2>2
  <1>3. autFailures' = autFailures \/ (autFailures' = [autFailures EXCEPT ![u] = 0] /\ Aut!Logging(u) = {} /\ row.failed = 0)
    BY <1>2 DEF Aut!Disable, Aut!Enable, Aut!NewAccount, AutInv, AutRows
  <1>4. AutRows'
    BY <1>1, <1>2, <1>3 DEF AutInv, AutRows
  <1>5. NeverAhead'
    <2>1. \A v \in Users : autAccount'[v].failed \in Nat /\ autAccount[v].failed \in Nat /\ autFailures[v] \in Nat
      BY <1>4 DEF AutInv, AutRows, AccountRow
    <2>2. \A v \in Users : autAccount'[v].failed <= autFailures'[v]
      BY <1>2, <1>3, <2>1 DEF AutInv, AutRows, NeverAhead
    <2>3. \A r \in Clients : autRequest[r] # Aut!Idle => autFailures'[autRequest[r].user] = autFailures[autRequest[r].user]
      BY <1>3 DEF Aut!Logging, AutInv, AutRows, Login
    <2>4. QED
      BY <1>1, <2>2, <2>3 DEF NeverAhead, AutInv
  <1>6. AloneIsAlone'
    <2> SUFFICES ASSUME NEW r \in Clients, autRequest[r] # Aut!Idle, autRequest[r].alone
                 PROVE  /\ Aut!Logging(autRequest[r].user)' = {r}
                        /\ autAccount'[autRequest[r].user].failed \in {0, autRequest[r].row.failed}
                        /\ autRequest[r].accepted => autAccount'[autRequest[r].user].status # "LOCKED"
      BY <1>1 DEF AloneIsAlone
    <2>1. Aut!Logging(autRequest[r].user)' = Aut!Logging(autRequest[r].user)
      BY <1>1 DEF Aut!Logging
    <2>2. autRequest[r].user \in Users
      BY DEF AutInv, AutRows, Login
    <2>3. QED
      BY <1>2, <2>1, <2>2 DEF AutInv, AutRows, AloneIsAlone
  <1>7. Aut!LockedByFailures'
    BY <1>2, <1>3, <1>4 DEF AutInv, AutRows, Aut!LockedByFailures
  <1>8. QED
    BY <1>4, <1>5, <1>6, <1>7 DEF AutInv

LEMMA AutNextInv == AutInv /\ [Aut!Next]_(Aut!vars) => AutInv'
  <1> SUFFICES ASSUME AutInv, [Aut!Next]_(Aut!vars) PROVE AutInv'
    OBVIOUS
  <1>1. CASE \E c \in Clients, u \in Users, right \in BOOLEAN : Aut!BeginLogin(c, u, right)
    BY <1>1, BeginLoginKeepsInv
  <1>2. CASE \E c \in Clients : Aut!FinishLogin(c)
    BY <1>2, FinishLoginKeepsInv
  <1>3. CASE \E s \in DOMAIN autSessions : Aut!Logout(s) \/ Aut!ChangePassword(s)
    BY <1>3, SessionsKeepInv
  <1>4. CASE \E u \in Users : Aut!Disable(u) \/ Aut!Enable(u)
    BY <1>4, AdministrationKeepsInv
  <1>5. CASE Aut!Tick \/ UNCHANGED Aut!vars
    <2>1. autNow' \in Int /\ UNCHANGED <<autAccount, autFailures, autRequest, autSessions>>
      BY <1>5 DEF Aut!Tick, Aut!vars, AutInv, AutRows
    <2>2. QED
      BY <2>1 DEF AutInv, AutRows, NeverAhead, AloneIsAlone, Aut!LockedByFailures, Aut!Logging
  <1>6. QED
    BY <1>1, <1>2, <1>3, <1>4, <1>5 DEF Aut!Next

\* Nobody is locked out by fewer failed logins than the setting says: a login that writes
\* from a row it read before another one wrote never counts a failure twice.
THEOREM LockedOutByFailures == Aut!Spec => []LockedByFailures
  <1>1. Aut!Init => AutInv
    BY AutInitInv
  <1>2. AutInv /\ [Aut!Next]_(Aut!vars) => AutInv'
    BY AutNextInv
  <1>3. AutInv => LockedByFailures
    BY DEF AutInv, LockedByFailures
  <1>4. QED
    BY <1>1, <1>2, <1>3, PTL DEF Aut!Spec

\* What the rows of the accounts hold: statuses that the code has, counts of failures, and
\* sessions of users that there are.
THEOREM AccountsTyping == Aut!Spec => []Aut!TypeOK
  <1>1. AutInv => Aut!TypeOK
    <2> SUFFICES ASSUME AutRows
                 PROVE  Aut!TypeOK
      BY DEF AutInv
    <2>1. ASSUME NEW u \in Users
          PROVE  autAccount[u].status \in Aut!Status /\ autAccount[u].failed \in Nat
      <3>1. autAccount[u] \in AccountRow
        BY DEF AutRows
      <3>2. QED
        BY <3>1 DEF AccountRow
    <2>2. ASSUME NEW s \in DOMAIN autSessions
          PROVE  autSessions[s].user \in Users
      <3>1. autSessions[s] \in SessionRow
        BY DEF AutRows
      <3>2. QED
        BY <3>1 DEF SessionRow
    <2>3. QED
      BY <2>1, <2>2 DEF Aut!TypeOK
  <1>2. QED
    BY <1>1, AutInitInv, AutNextInv, PTL DEF Aut!Spec

-----------------------------------------------------------------------------
(* ExternalDocuments.                                                      *)

DownloadFields == {"status", "document"}
DocumentFields == {"discovery", "download", "versions"}
Done == {"DOWNLOADED", "UPDATED"}

ExtRows ==
    /\ DOMAIN extSource = {"closing", "listed", "supported", "content"}
    /\ extSource.content \in [Ext!Docs -> Held]
    /\ IsSequence(extDownloads)
    /\ \A j \in DOMAIN extDownloads : DOMAIN extDownloads[j] = DownloadFields /\ extDownloads[j].document \in Ext!Docs
    /\ DOMAIN extDocuments = Ext!Docs /\ DOMAIN extStored = Held /\ DOMAIN extWorker = Workers

\* The file of a content is that of a download that has ended well, and is there.
StoredOK ==
    \A k \in Held : extStored[k] # Null =>
        /\ extStored[k] \in extFiles \cap DOMAIN extDownloads
        /\ extDownloads[extStored[k]].status \in Done

\* The versions of a document have the file of their content.
DocumentOK(document) ==
    /\ DOMAIN document = DocumentFields
    /\ IsSequence(document.versions)
    /\ \A n \in DOMAIN document.versions :
          LET version == document.versions[n] IN
          version.content \in Held /\ version.key = extStored[version.content] /\ version.key # Null

DocumentsOK ==
    /\ \A d \in Ext!Docs : extDocuments[d] # Null => DocumentOK(extDocuments[d])
    /\ \A j \in DOMAIN extDownloads : DocumentOK(extDocuments[extDownloads[j].document])

\* What a worker of a download has read: the content that it goes on to store has the
\* file that it shares, or the one that it has saved for itself.
HolderOK(r) ==
    /\ r.op \in {"download", "store"} =>
          r.job \in DOMAIN extDownloads /\ extDownloads[r.job].status = "DOWNLOADING"
    /\ r.op = "store" =>
          /\ r.content \in Held
          /\ IF r.shared = Null THEN r.job \in extFiles ELSE extStored[r.content] = r.shared
    /\ r.op = "persist" =>
          \A d \in Ext!Docs : r.loaded[d] # Null => DocumentOK(extDocuments[d])
ExtHolders ==
    /\ \A w \in Workers : HolderOK(extWorker[w])
    /\ \A v, w \in Workers :
          (/\ extWorker[v].op \in {"download", "store"} /\ extWorker[w].op \in {"download", "store"}
           /\ extWorker[v].job = extWorker[w].job) => v = w

ExtInv == ExtRows /\ StoredOK /\ DocumentsOK /\ ExtHolders

LEMMA ExtInitInv == Ext!Init => ExtInv
  <1> SUFFICES ASSUME Ext!Init PROVE ExtInv
    OBVIOUS
  <1>1. IsSequence(<<>>)
    BY DEF IsSequence
  <1>2. PICK date \in Dates \cup {Null}, content \in [Ext!Docs -> Held] :
           extSource = [closing |-> date, listed |-> Ext!Docs, supported |-> Ext!Docs, content |-> content]
    BY DEF Ext!Init
  <1>3. ExtRows
    BY <1>1, <1>2 DEF Ext!Init, ExtRows
  <1>4. StoredOK /\ DocumentsOK
    BY DEF Ext!Init, StoredOK, DocumentsOK
  <1>5. ExtHolders
    BY DEF Ext!Init, ExtHolders, HolderOK, Ext!Idle
  <1>6. QED
    BY <1>3, <1>4, <1>5 DEF ExtInv

-----------------------------------------------------------------------------
\* A content that has a file keeps it, so do the versions of a document.
StoredGrows == DOMAIN extStored' = DOMAIN extStored /\ \A k \in Held : extStored[k] # Null => extStored'[k] = extStored[k]

LEMMA DocumentStaysOK ==
    ASSUME StoredGrows, NEW document, DocumentOK(document)
    PROVE  DocumentOK(document)'
  BY DEF DocumentOK, StoredGrows

\* No file of a step goes but those of a download under way, which no content has.
LEMMA FilesStay ==
    ASSUME StoredOK, UNCHANGED <<extStored, extDownloads>>, NEW gone, extFiles \ gone \subseteq extFiles',
           \A j \in gone : j \notin DOMAIN extDownloads \/ extDownloads[j].status \notin Done
    PROVE  StoredOK'
  BY DEF StoredOK

\* The steps of a synchronisation and of the source: documents stay documents, and what
\* else matters is left alone.
LEMMA SyncStepKeepsInv ==
    ASSUME ExtInv, UNCHANGED <<extDownloads, extStored, extFiles>>,
           DOMAIN extSource' = {"closing", "listed", "supported", "content"},
           extSource'.content \in [Ext!Docs -> Held],
           DOMAIN extDocuments' = Ext!Docs,
           \A d \in Ext!Docs : \/ extDocuments'[d] = extDocuments[d]
                               \/ DocumentOK(extDocuments'[d]),
           DOMAIN extWorker' = Workers,
           \A w \in Workers : \/ extWorker'[w] = extWorker[w]
                              \/ extWorker'[w].op \in {"idle", "sync"}
                              \/ /\ extWorker'[w].op = "persist"
                                 /\ extWorker'[w].loaded = extDocuments /\ UNCHANGED extDocuments
    PROVE  ExtInv'
  <1>1. ExtRows'
    BY DEF ExtInv, ExtRows
  <1>2. StoredOK'
    BY DEF ExtInv, StoredOK
  <1>3. StoredGrows
    BY DEF StoredGrows
  <1>4. \A d \in Ext!Docs : DocumentOK(extDocuments[d]) => DocumentOK(extDocuments'[d])
    OBVIOUS
  <1>5. \A j \in DOMAIN extDownloads : extDownloads[j].document \in Ext!Docs
    BY DEF ExtInv, ExtRows
  <1>6. /\ \A d \in Ext!Docs : extDocuments'[d] # Null => DocumentOK(extDocuments'[d])
        /\ \A j \in DOMAIN extDownloads : DocumentOK(extDocuments'[extDownloads[j].document])
    BY <1>4, <1>5 DEF ExtInv, DocumentsOK
  <1>7. DocumentsOK'
    BY <1>6 DEF DocumentsOK, DocumentOK
  <1>8. \A w \in Workers : HolderOK(extWorker'[w])
    BY DEF ExtInv, DocumentsOK, ExtHolders, HolderOK
  <1>9. ExtHolders'
    <2>1. ASSUME NEW w \in Workers PROVE HolderOK(extWorker[w])'
      <3>1. PICK r : r = extWorker'[w] /\ HolderOK(r)
        BY <1>8
      <3>2. r.op = "persist" => \A d \in Ext!Docs : r.loaded[d] # Null => DocumentOK(extDocuments[d])'
        <4>1. ASSUME NEW document, DocumentOK(document) PROVE DocumentOK(document)'
          BY <4>1, <1>3, DocumentStaysOK
        <4>2. \A d \in Ext!Docs : DocumentOK(extDocuments'[d]) => DocumentOK(extDocuments[d])'
          BY <4>1 DEF DocumentOK
        <4>3. QED
          BY <3>1, <1>4, <4>2 DEF HolderOK
      <3>3. QED
        BY <3>1, <3>2 DEF HolderOK
    <2>2. \A v, w \in Workers :
             (/\ extWorker'[v].op \in {"download", "store"} /\ extWorker'[w].op \in {"download", "store"}
              /\ extWorker'[v].job = extWorker'[w].job) => v = w
      BY DEF ExtInv, ExtHolders
    <2>3. QED
      BY <2>1, <2>2 DEF ExtHolders
  <1>10. QED
    BY <1>1, <1>2, <1>7, <1>9 DEF ExtInv

LEMMA SyncsKeepExtInv ==
    ASSUME ExtInv, NEW w \in Workers, Ext!ClaimSync(w) \/ Ext!ReadSource(w) \/ Ext!FailSync(w)
    PROVE  ExtInv'
  <1>1. /\ UNCHANGED <<extSource, extDocuments, extDownloads, extStored, extFiles>>
    BY DEF Ext!ClaimSync, Ext!ReadSource, Ext!FailSync
  <1>2. PICK held : /\ extWorker' = [extWorker EXCEPT ![w] = held]
                    /\ held.op \in {"idle", "sync"} \/ (held.op = "persist" /\ held.loaded = extDocuments)
    <2>1. CASE Ext!ClaimSync(w)
      <3>1. PICK n : extWorker' = [extWorker EXCEPT ![w] = [op |-> "sync", sync |-> n]]
        BY <2>1 DEF Ext!ClaimSync
      <3>2. PICK held : held = [op |-> "sync", sync |-> n]
        OBVIOUS
      <3>3. held.op = "sync" /\ extWorker' = [extWorker EXCEPT ![w] = held]
        BY <3>1, <3>2
      <3>4. QED
        BY <3>3
    <2>2. CASE Ext!ReadSource(w)
      <3>1. PICK refresh : extWorker' = [extWorker EXCEPT ![w] =
                [op |-> "persist", sync |-> extWorker[w].sync, refresh |-> refresh, loaded |-> extDocuments]]
        BY <2>2 DEF Ext!ReadSource
      <3>2. PICK held : held = [op |-> "persist", sync |-> extWorker[w].sync, refresh |-> refresh,
                                loaded |-> extDocuments]
        OBVIOUS
      <3>3. held.op = "persist" /\ held.loaded = extDocuments
        BY <3>2
      <3>4. QED
        BY <3>1, <3>2, <3>3
    <2>3. CASE Ext!FailSync(w)
      <3>1. PICK held : held = Ext!Idle
        OBVIOUS
      <3>2. held.op = "idle"
        BY <3>1 DEF Ext!Idle
      <3>3. QED
        BY <2>3, <3>1, <3>2 DEF Ext!FailSync
    <2>4. QED
      BY <2>1, <2>2, <2>3
  <1>3. /\ DOMAIN extWorker' = Workers /\ extWorker'[w] = held
        /\ \A v \in Workers \ {w} : extWorker'[v] = extWorker[v]
    BY <1>2 DEF ExtInv, ExtRows
  <1>4. QED
    BY <1>1, <1>2, <1>3, SyncStepKeepsInv DEF ExtInv, ExtRows

LEMMA PersistKeepsExtInv ==
    ASSUME ExtInv, NEW w \in Workers, Ext!PersistRefresh(w)
    PROVE  ExtInv'
  <1>1. PICK r : r = extWorker[w] /\ HolderOK(r) /\ r.op = "persist"
    BY DEF Ext!PersistRefresh, ExtInv, ExtHolders
  <1>2. PICK discover, seen :
           extDocuments' = [d \in Ext!Docs |-> IF d \in seen THEN Ext!Listed(r, d)
                                            ELSE IF discover THEN Ext!Unlisted(d) ELSE extDocuments[d]]
    BY <1>1 DEF Ext!PersistRefresh
  <1>3. ASSUME NEW d \in Ext!Docs PROVE DocumentOK(Ext!Listed(r, d))
    <2>1. CASE r.loaded[d] = Null
      <3>1. PICK new : new = Ext!Listed(r, d)
        OBVIOUS
      <3>2. DOMAIN new = DocumentFields /\ new.versions = <<>>
        BY <2>1, <3>1 DEF Ext!Listed, Ext!NewDocument, DocumentFields
      <3>3. IsSequence(<<>>)
        BY DEF IsSequence
      <3>4. QED
        BY <3>1, <3>2, <3>3 DEF DocumentOK
    <2>2. CASE r.loaded[d] # Null
      <3>1. PICK old : old = extDocuments[d] /\ DocumentOK(old)
        BY <1>1, <2>2 DEF HolderOK
      <3>2. PICK download : Ext!Listed(r, d) = [old EXCEPT !.discovery = "LISTED", !.download = download]
        BY <2>2, <3>1 DEF Ext!Listed
      <3>3. PICK new : new = [old EXCEPT !.discovery = "LISTED", !.download = download]
        OBVIOUS
      <3>4. DOMAIN new = DocumentFields /\ new.versions = old.versions
        BY <3>1, <3>3 DEF DocumentOK, DocumentFields
      <3>5. QED
        BY <3>1, <3>2, <3>3, <3>4 DEF DocumentOK
    <2>3. QED
      BY <2>1, <2>2
  <1>4. ASSUME NEW d \in Ext!Docs PROVE Ext!Unlisted(d) = extDocuments[d] \/ DocumentOK(Ext!Unlisted(d))
    <2>1. CASE extDocuments[d] = Null
      BY <2>1 DEF Ext!Unlisted
    <2>2. CASE extDocuments[d] # Null
      <3>1. PICK old : old = extDocuments[d] /\ DocumentOK(old)
        BY <2>2 DEF ExtInv, DocumentsOK
      <3>2. PICK new : new = [old EXCEPT !.discovery = "MISSING"]
        OBVIOUS
      <3>3. DOMAIN new = DocumentFields /\ new.versions = old.versions
        BY <3>1, <3>2 DEF DocumentOK, DocumentFields
      <3>4. Ext!Unlisted(d) = new
        BY <2>2, <3>1, <3>2 DEF Ext!Unlisted
      <3>5. QED
        BY <3>1, <3>3, <3>4 DEF DocumentOK
    <2>3. QED
      BY <2>1, <2>2
  <1>5. /\ DOMAIN extDocuments' = Ext!Docs
        /\ \A d \in Ext!Docs : extDocuments'[d] = extDocuments[d] \/ DocumentOK(extDocuments'[d])
    BY <1>2, <1>3, <1>4
  <1>6. /\ DOMAIN extWorker' = Workers /\ extWorker'[w].op = "idle"
        /\ \A v \in Workers \ {w} : extWorker'[v] = extWorker[v]
    BY DEF Ext!PersistRefresh, Ext!Idle, ExtInv, ExtRows
  <1>7. UNCHANGED <<extSource, extDownloads, extStored, extFiles>>
    BY DEF Ext!PersistRefresh
  <1>8. \A v \in Workers : extWorker'[v] = extWorker[v] \/ extWorker'[v].op \in {"idle", "sync"}
    BY <1>6
  <1>9. QED
    BY <1>5, <1>6, <1>7, <1>8, SyncStepKeepsInv DEF ExtInv, ExtRows

LEMMA SourceKeepsExtInv ==
    ASSUME ExtInv, Ext!SourceChanges
    PROVE  ExtInv'
  <1>1. PICK old : old = extSource /\ DOMAIN old = {"closing", "listed", "supported", "content"}
                   /\ old.content \in [Ext!Docs -> Held]
    BY DEF ExtInv, ExtRows
  <1>2. DOMAIN extSource' = {"closing", "listed", "supported", "content"}
        /\ extSource'.content \in [Ext!Docs -> Held]
    <2>1. ASSUME NEW date, extSource' = [extSource EXCEPT !.closing = date]
          PROVE  DOMAIN extSource' = DOMAIN old /\ extSource'.content = old.content
      BY <1>1, <2>1
    <2>2. ASSUME NEW listed, extSource' = [extSource EXCEPT !.listed = listed]
          PROVE  DOMAIN extSource' = DOMAIN old /\ extSource'.content = old.content
      BY <1>1, <2>2
    <2>3. ASSUME NEW supported, extSource' = [extSource EXCEPT !.supported = supported]
          PROVE  DOMAIN extSource' = DOMAIN old /\ extSource'.content = old.content
      BY <1>1, <2>3
    <2>4. ASSUME NEW d \in Ext!Docs, NEW k \in Held, extSource' = [extSource EXCEPT !.content[d] = k]
          PROVE  DOMAIN extSource' = DOMAIN old /\ extSource'.content \in [Ext!Docs -> Held]
      <3>1. PICK content : content = [old.content EXCEPT ![d] = k]
        OBVIOUS
      <3>2. content \in [Ext!Docs -> Held]
        BY <1>1, <3>1
      <3>3. extSource' = [old EXCEPT !.content = content]
        BY <1>1, <2>4, <3>1
      <3>4. QED
        BY <1>1, <3>2, <3>3
    <2>5. \/ \E date : extSource' = [extSource EXCEPT !.closing = date]
          \/ \E listed : extSource' = [extSource EXCEPT !.listed = listed]
          \/ \E supported : extSource' = [extSource EXCEPT !.supported = supported]
          \/ \E d \in Ext!Docs, k \in Held : extSource' = [extSource EXCEPT !.content[d] = k]
      BY DEF Ext!SourceChanges
    <2>6. QED
      BY <1>1, <2>1, <2>2, <2>3, <2>4, <2>5
  <1>3. UNCHANGED <<extDocuments, extDownloads, extStored, extFiles, extWorker>>
    BY DEF Ext!SourceChanges
  <1>4. QED
    BY <1>2, <1>3, SyncStepKeepsInv DEF ExtInv, ExtRows

\* A step that replaces one document.
LEMMA DocumentReplaced ==
    ASSUME ExtInv, StoredGrows, NEW d \in Ext!Docs, NEW document, DocumentOK(document)',
           extDocuments' = [extDocuments EXCEPT ![d] = document],
           \A j \in DOMAIN extDownloads' :
              /\ extDownloads'[j].document \in Ext!Docs
              /\ DocumentOK(extDocuments[extDownloads'[j].document]) \/ extDownloads'[j].document = d
    PROVE  /\ DocumentsOK' /\ DOMAIN extDocuments' = Ext!Docs
           /\ \A e \in Ext!Docs : DocumentOK(extDocuments[e]) => DocumentOK(extDocuments[e])'
  <1>1. /\ DOMAIN extDocuments' = Ext!Docs /\ extDocuments'[d] = document
        /\ \A e \in Ext!Docs \ {d} : extDocuments'[e] = extDocuments[e]
    BY DEF ExtInv, ExtRows
  <1>2. \A x : DocumentOK(x) => DocumentOK(x)'
    BY DocumentStaysOK
  <1>3. ASSUME NEW e \in Ext!Docs, e # d, DocumentOK(extDocuments[e]) PROVE DocumentOK(extDocuments[e])'
    <2>1. PICK x : x = extDocuments[e] /\ DocumentOK(x) /\ DocumentOK(x)'
      BY <1>2, <1>3
    <2>2. extDocuments'[e] = x
      BY <1>1, <1>3, <2>1
    <2>3. QED
      BY <2>1, <2>2 DEF DocumentOK
  <1>4. DocumentOK(extDocuments[d])'
    BY <1>1 DEF DocumentOK
  <1>5. \A e \in Ext!Docs : DocumentOK(extDocuments[e]) => DocumentOK(extDocuments[e])'
    BY <1>3, <1>4
  <1>6. \A e \in Ext!Docs : extDocuments'[e] # Null => DocumentOK(extDocuments[e])'
    BY <1>1, <1>4, <1>5 DEF ExtInv, DocumentsOK
  <1>7. \A j \in DOMAIN extDownloads' : DocumentOK(extDocuments[extDownloads[j].document])'
    BY <1>4, <1>5
  <1>8. DocumentsOK'
    BY <1>6, <1>7 DEF DocumentsOK
  <1>9. QED
    BY <1>1, <1>5, <1>8

\* What a worker has read stays as it is.
LEMMA HolderStaysOK ==
    ASSUME StoredGrows, NEW r, HolderOK(r), DOMAIN extDownloads \subseteq DOMAIN extDownloads',
           r.op \in {"download", "store"} => extDownloads'[r.job].status = "DOWNLOADING",
           (r.op = "store" /\ r.job \in extFiles) => r.job \in extFiles',
           \A e \in Ext!Docs : DocumentOK(extDocuments[e]) => DocumentOK(extDocuments[e])'
    PROVE  HolderOK(r)'
  <1>1. r.op \in {"download", "store"} =>
           r.job \in DOMAIN extDownloads' /\ extDownloads'[r.job].status = "DOWNLOADING"
    BY DEF HolderOK
  <1>2. r.op = "store" => /\ r.content \in Held
                          /\ IF r.shared = Null THEN r.job \in extFiles' ELSE extStored'[r.content] = r.shared
    BY DEF HolderOK, StoredGrows
  <1>3. r.op = "persist" => \A d \in Ext!Docs : r.loaded[d] # Null => DocumentOK(extDocuments[d])'
    BY DEF HolderOK
  <1>4. QED
    BY <1>1, <1>2, <1>3 DEF HolderOK

LEMMA EnqueueKeepsExtInv ==
    ASSUME ExtInv, NEW d \in Ext!Docs, Ext!EnqueueDownload(d)
    PROVE  ExtInv'
  <1>1. PICK job : /\ extDownloads' = Append(extDownloads, job)
                   /\ DOMAIN job = DownloadFields /\ job.document = d /\ job.status = "PENDING"
    BY DEF Ext!EnqueueDownload, Ext!NewDownload, DownloadFields
  <1>2. PICK old : old = extDocuments[d] /\ DocumentOK(old)
    BY DEF Ext!EnqueueDownload, ExtInv, DocumentsOK
  <1>3. PICK document : document = [old EXCEPT !.download = "PENDING"]
    OBVIOUS
  <1>4. /\ extDocuments' = [extDocuments EXCEPT ![d] = document]
        /\ UNCHANGED <<extSource, extStored, extFiles, extWorker>>
    BY <1>2, <1>3 DEF Ext!EnqueueDownload
  <1>5. StoredGrows
    BY <1>4 DEF StoredGrows
  <1>6. DocumentOK(document)'
    <2>1. DOMAIN document = DocumentFields /\ document.versions = old.versions
      BY <1>2, <1>3 DEF DocumentOK, DocumentFields
    <2>2. QED
      BY <1>2, <1>4, <2>1 DEF DocumentOK
  <1>7. /\ IsSequence(extDownloads')
        /\ \A j \in DOMAIN extDownloads : /\ j \in DOMAIN extDownloads' /\ extDownloads'[j] = extDownloads[j]
        /\ \A j \in DOMAIN extDownloads' : j \in DOMAIN extDownloads \/ extDownloads'[j] = job
    <2>1. /\ IsSequence(extDownloads') /\ Len(extDownloads) \in Nat
          /\ DOMAIN extDownloads = 1 .. Len(extDownloads)
          /\ DOMAIN extDownloads' = 1 .. (Len(extDownloads) + 1) /\ extDownloads'[Len(extDownloads) + 1] = job
          /\ \A j \in 1 .. Len(extDownloads) : extDownloads'[j] = extDownloads[j]
      BY <1>1, Appended DEF ExtInv, ExtRows
    <2>2. QED
      BY <2>1
  <1>8. \A j \in DOMAIN extDownloads' :
           /\ DOMAIN extDownloads'[j] = DownloadFields /\ extDownloads'[j].document \in Ext!Docs
           /\ DocumentOK(extDocuments[extDownloads'[j].document]) \/ extDownloads'[j].document = d
    BY <1>1, <1>7 DEF ExtInv, ExtRows, DocumentsOK
  <1>9. /\ DocumentsOK' /\ DOMAIN extDocuments' = Ext!Docs
        /\ \A e \in Ext!Docs : DocumentOK(extDocuments[e]) => DocumentOK(extDocuments[e])'
    BY <1>4, <1>5, <1>6, <1>8, DocumentReplaced
  <1>10. ExtRows'
    BY <1>4, <1>7, <1>8, <1>9 DEF ExtInv, ExtRows
  <1>11. StoredOK'
    BY <1>4, <1>7 DEF ExtInv, StoredOK
  <1>12. ExtHolders'
    <2>1. \A r : (HolderOK(r) /\ r.op \in {"download", "store"}) =>
              r.job \in DOMAIN extDownloads /\ extDownloads'[r.job].status = "DOWNLOADING"
      BY <1>7 DEF HolderOK
    <2>2. ASSUME NEW w \in Workers PROVE HolderOK(extWorker[w])'
      <3>1. PICK r : r = extWorker[w] /\ HolderOK(r)
        BY DEF ExtInv, ExtHolders
      <3>2. DOMAIN extDownloads \subseteq DOMAIN extDownloads'
        BY <1>7
      <3>3. HolderOK(r)'
        BY <1>4, <1>5, <1>9, <2>1, <3>1, <3>2, HolderStaysOK
      <3>4. QED
        BY <1>4, <3>1, <3>3 DEF HolderOK
    <2>3. QED
      BY <1>4, <2>2 DEF ExtInv, ExtHolders
  <1>13. QED
    BY <1>9, <1>10, <1>11, <1>12 DEF ExtInv

\* What the steps of a download have in common: they move one job, which is not done, and
\* its document together. A content is only given the file of that job, and no other file
\* goes. The worker that moves it is the only one that holds it, or nobody holds it.
DownloadMoves(w, j, status, document, held) ==
    /\ extDownloads[j].status \notin Done /\ extDownloads' = [extDownloads EXCEPT ![j].status = status]
    /\ DocumentOK(document)' /\ extDocuments' = [extDocuments EXCEPT ![extDownloads[j].document] = document]
    /\ UNCHANGED extSource /\ StoredGrows
    /\ \A k \in Held : extStored'[k] = extStored[k] \/ (extStored'[k] = j /\ status \in Done /\ j \in extFiles')
    /\ extFiles \ {j} \subseteq extFiles'
    /\ extWorker' = [extWorker EXCEPT ![w] = held] /\ HolderOK(held)'
    /\ held.op \in {"download", "store"} => held.job = j
    /\ \A v \in Workers \ {w} : extWorker[v].op \in {"download", "store"} => extWorker[v].job # j

LEMMA DownloadMovesKeepsInv ==
    ASSUME ExtInv, NEW w \in Workers, NEW j \in DOMAIN extDownloads, NEW status, NEW document, NEW held,
           DownloadMoves(w, j, status, document, held)
    PROVE  ExtInv'
  <1>0. /\ extDownloads[j].status \notin Done /\ extDownloads' = [extDownloads EXCEPT ![j].status = status]
        /\ DocumentOK(document)' /\ extDocuments' = [extDocuments EXCEPT ![extDownloads[j].document] = document]
        /\ UNCHANGED extSource /\ StoredGrows
        /\ \A k \in Held : extStored'[k] = extStored[k] \/ (extStored'[k] = j /\ status \in Done /\ j \in extFiles')
        /\ extFiles \ {j} \subseteq extFiles'
        /\ extWorker' = [extWorker EXCEPT ![w] = held] /\ HolderOK(held)'
        /\ held.op \in {"download", "store"} => held.job = j
        /\ \A v \in Workers \ {w} : extWorker[v].op \in {"download", "store"} => extWorker[v].job # j
    BY DEF DownloadMoves
  <1> USE <1>0
  <1>1. PICK d \in Ext!Docs : d = extDownloads[j].document
    BY DEF ExtInv, ExtRows
  <1>2. /\ IsSequence(extDownloads') /\ DOMAIN extDownloads' = DOMAIN extDownloads
        /\ extDownloads'[j].status = status
        /\ \A i \in DOMAIN extDownloads : /\ DOMAIN extDownloads'[i] = DownloadFields
                                          /\ extDownloads'[i].document = extDownloads[i].document
        /\ \A i \in DOMAIN extDownloads \ {j} : extDownloads'[i] = extDownloads[i]
    <2>1. PICK old : old = extDownloads[j] /\ DOMAIN old = DownloadFields
      BY DEF ExtInv, ExtRows
    <2>2. PICK job : job = [old EXCEPT !.status = status]
      OBVIOUS
    <2>3. DOMAIN job = DownloadFields /\ job.status = status /\ job.document = old.document
      BY <2>1, <2>2 DEF DownloadFields
    <2>4. extDownloads' = [extDownloads EXCEPT ![j] = job] /\ IsSequence(extDownloads) /\ j \in DOMAIN extDownloads
      BY <2>1, <2>2 DEF ExtInv, ExtRows
    <2>5. /\ IsSequence(extDownloads') /\ DOMAIN extDownloads' = DOMAIN extDownloads /\ extDownloads'[j] = job
          /\ \A i \in DOMAIN extDownloads \ {j} : extDownloads'[i] = extDownloads[i]
      BY ONLY <2>4, Replaced
    <2>6. \A i \in DOMAIN extDownloads : DOMAIN extDownloads[i] = DownloadFields
      BY DEF ExtInv, ExtRows
    <2>7. QED
      BY <2>1, <2>3, <2>5, <2>6
  <1>3. /\ DocumentsOK' /\ DOMAIN extDocuments' = Ext!Docs
        /\ \A e \in Ext!Docs : DocumentOK(extDocuments[e]) => DocumentOK(extDocuments[e])'
    <2>1. \A i \in DOMAIN extDownloads' :
             /\ extDownloads'[i].document \in Ext!Docs
             /\ DocumentOK(extDocuments[extDownloads'[i].document]) \/ extDownloads'[i].document = d
      BY <1>2 DEF ExtInv, ExtRows, DocumentsOK
    <2>2. extDocuments' = [extDocuments EXCEPT ![d] = document]
      BY <1>1
    <2>3. QED
      BY <1>1, <2>1, <2>2, DocumentReplaced
  <1>4. /\ DOMAIN extWorker' = Workers /\ extWorker'[w] = held
        /\ \A v \in Workers \ {w} : extWorker'[v] = extWorker[v]
    BY DEF ExtInv, ExtRows
  <1>5. ExtRows'
    BY <1>2, <1>3, <1>4 DEF ExtInv, ExtRows, StoredGrows
  <1>6. StoredOK'
    <2>1. ASSUME NEW k \in Held, extStored'[k] # Null
          PROVE  extStored'[k] \in extFiles' \cap DOMAIN extDownloads' /\ extDownloads'[extStored'[k]].status \in Done
      <3>1. CASE extStored'[k] = extStored[k]
        <4>1. /\ extStored[k] \in extFiles \cap DOMAIN extDownloads
              /\ extDownloads[extStored[k]].status \in Done
          BY <2>1, <3>1 DEF ExtInv, StoredOK
        <4>2. extStored[k] # j
          BY <4>1
        <4>3. QED
          BY <1>2, <3>1, <4>1, <4>2
      <3>2. CASE extStored'[k] # extStored[k]
        BY <1>2, <3>2
      <3>3. QED
        BY <3>1, <3>2
    <2>2. QED
      BY <2>1 DEF StoredOK
  <1>7. ExtHolders'
    <2>1. ASSUME NEW v \in Workers, v # w PROVE HolderOK(extWorker[v])'
      <3>1. PICK r : r = extWorker[v] /\ HolderOK(r)
        BY DEF ExtInv, ExtHolders
      <3>2. r.op \in {"download", "store"} => /\ r.job # j /\ r.job \in DOMAIN extDownloads
                                              /\ extDownloads[r.job].status = "DOWNLOADING"
        BY <2>1, <3>1 DEF HolderOK
      <3>3. /\ r.op \in {"download", "store"} => extDownloads'[r.job].status = "DOWNLOADING"
            /\ (r.op = "store" /\ r.job \in extFiles) => r.job \in extFiles'
            /\ DOMAIN extDownloads \subseteq DOMAIN extDownloads'
        BY <1>2, <3>2
      <3>4. HolderOK(r)'
        BY <1>3, <3>1, <3>3, HolderStaysOK
      <3>5. extWorker'[v] = r
        BY <1>4, <2>1, <3>1
      <3>6. QED
        BY <3>4, <3>5 DEF HolderOK
    <2>2. HolderOK(extWorker[w])'
      BY <1>4 DEF HolderOK
    <2>3. \A u, v \in Workers :
             (/\ extWorker'[u].op \in {"download", "store"} /\ extWorker'[v].op \in {"download", "store"}
              /\ extWorker'[u].job = extWorker'[v].job) => u = v
      BY <1>4 DEF ExtInv, ExtHolders
    <2>4. QED
      BY <2>1, <2>2, <2>3 DEF ExtHolders
  <1>8. QED
    BY <1>3, <1>5, <1>6, <1>7 DEF ExtInv

\* A worker that holds a download is the only one, and it is not done.
LEMMA HeldAlone ==
    ASSUME ExtInv, NEW w \in Workers, extWorker[w].op \in {"download", "store"}
    PROVE  /\ extWorker[w].job \in DOMAIN extDownloads
           /\ extDownloads[extWorker[w].job].status \notin Done
           /\ DocumentOK(extDocuments[extDownloads[extWorker[w].job].document])
           /\ extDownloads[extWorker[w].job].document \in Ext!Docs
           /\ \A v \in Workers \ {w} : extWorker[v].op \in {"download", "store"} => extWorker[v].job # extWorker[w].job
  <1>1. extWorker[w].job \in DOMAIN extDownloads /\ extDownloads[extWorker[w].job].status = "DOWNLOADING"
    BY DEF ExtInv, ExtHolders, HolderOK
  <1>2. QED
    BY <1>1 DEF ExtInv, ExtRows, ExtHolders, DocumentsOK, Done

LEMMA ClaimDownloadKeepsExtInv ==
    ASSUME ExtInv, NEW w \in Workers, Ext!ClaimDownload(w)
    PROVE  ExtInv'
  <1>1. PICK j \in DOMAIN extDownloads :
          /\ extDownloads[j].status = "PENDING"
          /\ extDownloads' = [extDownloads EXCEPT ![j].status = "DOWNLOADING"]
          /\ extDocuments' = [extDocuments EXCEPT ![extDownloads[j].document].download = "DOWNLOADING"]
          /\ extWorker' = [extWorker EXCEPT ![w] = [op |-> "download", job |-> j]]
          /\ UNCHANGED <<extSource, extStored, extFiles>>
    BY DEF Ext!ClaimDownload
  <1>2. PICK d, old : d \in Ext!Docs /\ d = extDownloads[j].document /\ old = extDocuments[d] /\ DocumentOK(old)
    BY DEF ExtInv, ExtRows, DocumentsOK
  <1>3. PICK document, held : /\ document = [old EXCEPT !.download = "DOWNLOADING"]
                              /\ held = [op |-> "download", job |-> j]
    OBVIOUS
  <1>4. /\ extDocuments' = [extDocuments EXCEPT ![extDownloads[j].document] = document]
        /\ extWorker' = [extWorker EXCEPT ![w] = held]
    BY <1>1, <1>2, <1>3
  <1>5. StoredGrows
    BY <1>1 DEF StoredGrows
  <1>6. DocumentOK(document)'
    <2>1. DOMAIN document = DocumentFields /\ document.versions = old.versions
      BY <1>2, <1>3 DEF DocumentOK, DocumentFields
    <2>2. QED
      BY <1>1, <1>2, <2>1 DEF DocumentOK
  <1>7. held.op = "download" /\ held.job = j
    BY <1>3
  <1>8. HolderOK(held)'
    <2>1. j \in DOMAIN extDownloads' /\ extDownloads'[j].status = "DOWNLOADING"
      <3>1. PICK was : was = extDownloads[j] /\ DOMAIN was = DownloadFields
        BY DEF ExtInv, ExtRows
      <3>2. PICK job : job = [was EXCEPT !.status = "DOWNLOADING"]
        OBVIOUS
      <3>3. job.status = "DOWNLOADING"
        BY <3>1, <3>2 DEF DownloadFields
      <3>4. extDownloads' = [extDownloads EXCEPT ![j] = job]
        BY <1>1, <3>1, <3>2
      <3>5. QED
        BY <3>3, <3>4
    <2>2. QED
      BY <1>7, <2>1 DEF HolderOK
  <1>9. \A v \in Workers \ {w} : extWorker[v].op \in {"download", "store"} => extWorker[v].job # j
    BY <1>1 DEF ExtInv, ExtHolders, HolderOK
  <1>10. extDownloads[j].status \notin Done
    BY <1>1 DEF Done
  <1>11. /\ \A k \in Held : extStored'[k] = extStored[k]
         /\ extFiles \ {j} \subseteq extFiles' /\ UNCHANGED extSource
    BY <1>1
  <1>12. extDownloads' = [extDownloads EXCEPT ![j].status = "DOWNLOADING"]
    BY <1>1
  <1>13. DownloadMoves(w, j, "DOWNLOADING", document, held)
    BY <1>4, <1>5, <1>6, <1>7, <1>8, <1>9, <1>10, <1>11, <1>12 DEF DownloadMoves
  <1>14. QED
    BY <1>13, DownloadMovesKeepsInv

\* A download that ends: the worker is free, and a content has at most the file of the
\* job besides the files that contents had.
LEMMA SettledKeepsExtInv ==
    ASSUME ExtInv, NEW w \in Workers, extWorker[w].op \in {"download", "store"},
           NEW j, j = extWorker[w].job, NEW status, NEW document, NEW d, d = extDownloads[j].document,
           Ext!Settle(w, status, d, document),
           DOMAIN document = DocumentFields, DocumentOK(document)',
           UNCHANGED extSource, StoredGrows,
           \A k \in Held : extStored'[k] = extStored[k] \/ (extStored'[k] = j /\ status \in Done /\ j \in extFiles'),
           extFiles \ {j} \subseteq extFiles'
    PROVE  ExtInv'
  <1>1. /\ j \in DOMAIN extDownloads /\ extDownloads[j].status \notin Done
        /\ \A v \in Workers \ {w} : extWorker[v].op \in {"download", "store"} => extWorker[v].job # j
    BY HeldAlone
  <1>2. PICK new, held : new = [document EXCEPT !.download = status] /\ held = Ext!Idle
    OBVIOUS
  <1>3. /\ extDownloads' = [extDownloads EXCEPT ![j].status = status]
        /\ extDocuments' = [extDocuments EXCEPT ![extDownloads[j].document] = new]
        /\ extWorker' = [extWorker EXCEPT ![w] = held]
    BY <1>2 DEF Ext!Settle
  <1>4. DOMAIN new = DocumentFields /\ new.versions = document.versions
    BY <1>2 DEF DocumentFields
  <1>5. DocumentOK(new)'
    BY <1>4 DEF DocumentOK
  <1>6. held.op = "idle"
    BY <1>2 DEF Ext!Idle
  <1>7. HolderOK(held)'
    BY <1>6 DEF HolderOK
  <1>8. held.op \in {"download", "store"} => held.job = j
    BY <1>6
  <1>9. /\ ExtInv /\ w \in Workers /\ UNCHANGED extSource /\ StoredGrows
        /\ \A k \in Held : extStored'[k] = extStored[k] \/ (extStored'[k] = j /\ status \in Done /\ j \in extFiles')
        /\ extFiles \ {j} \subseteq extFiles'
    OBVIOUS
  <1>10. DownloadMoves(w, j, status, new, held)
    BY <1>1, <1>3, <1>5, <1>7, <1>8, <1>9 DEF DownloadMoves
  <1>11. QED
    BY <1>1, <1>10, DownloadMovesKeepsInv

LEMMA DownloadKeepsExtInv ==
    ASSUME ExtInv, NEW w \in Workers, Ext!Download(w)
    PROVE  ExtInv'
  <1>1. PICK j, d, k : j = extWorker[w].job /\ d = extDownloads[j].document /\ k = extSource.content[d]
    OBVIOUS
  <1>2. extWorker[w].op = "download" /\ UNCHANGED <<extSource, extStored>>
    BY DEF Ext!Download
  <1>3. PICK old : old = extDocuments[d] /\ DocumentOK(old) /\ d \in Ext!Docs /\ j \in DOMAIN extDownloads
    BY <1>1, <1>2, HeldAlone
  <1>4. StoredGrows /\ \A x \in Held : extStored'[x] = extStored[x]
    BY <1>2 DEF StoredGrows
  <1>5. CASE Ext!Settle(w, "UNCHANGED", d, extDocuments[d]) /\ UNCHANGED extFiles
    <2>1. DOMAIN old = DocumentFields /\ DocumentOK(old)'
      BY <1>3, <1>4, DocumentStaysOK DEF DocumentOK
    <2>2. Ext!Settle(w, "UNCHANGED", d, old)
      BY <1>3, <1>5
    <2>3. extFiles \ {j} \subseteq extFiles'
      BY <1>5
    <2>4. QED
      BY <1>1, <1>2, <1>4, <2>1, <2>2, <2>3, SettledKeepsExtInv
  <1>6. CASE /\ extWorker' = [extWorker EXCEPT ![w] = [op |-> "store", job |-> j, content |-> k, shared |-> extStored[k]]]
             /\ extFiles' = IF extStored[k] = Null THEN extFiles \cup {j} ELSE extFiles
             /\ UNCHANGED <<extDownloads, extDocuments>>
    <2>1. PICK held : held = [op |-> "store", job |-> j, content |-> k, shared |-> extStored[k]]
      OBVIOUS
    <2>2. held.op = "store" /\ held.job = j /\ held.content = k /\ held.shared = extStored[k]
      BY <2>1
    <2>3. /\ DOMAIN extWorker' = Workers /\ extWorker'[w] = held
          /\ \A v \in Workers \ {w} : extWorker'[v] = extWorker[v]
      BY <1>6, <2>1 DEF ExtInv, ExtRows
    <2>4. extFiles \subseteq extFiles' /\ (extStored[k] = Null => j \in extFiles')
      BY <1>6
    <2>5. ExtRows'
      BY <1>2, <1>6, <2>3 DEF ExtInv, ExtRows
    <2>6. StoredOK'
      BY <1>2, <1>6, <2>4 DEF ExtInv, StoredOK
    <2>7. DocumentsOK'
      BY <1>2, <1>6 DEF ExtInv, DocumentsOK, DocumentOK
    <2>8. \A e \in Ext!Docs : DocumentOK(extDocuments[e]) => DocumentOK(extDocuments[e])'
      BY <1>2, <1>6 DEF DocumentOK
    <2>9. k \in Held
      BY <1>1, <1>3 DEF ExtInv, ExtRows
    <2>10. extDownloads[j].status = "DOWNLOADING"
      BY <1>1, <1>2 DEF ExtInv, ExtHolders, HolderOK
    <2>11. HolderOK(extWorker[w])'
      <3>1. HolderOK(held)'
        BY <1>2, <1>3, <1>6, <2>2, <2>4, <2>9, <2>10 DEF HolderOK
      <3>2. QED
        BY <2>3, <3>1 DEF HolderOK
    <2>12. ASSUME NEW v \in Workers, v # w PROVE HolderOK(extWorker[v])'
      <3>1. PICK r : r = extWorker[v] /\ HolderOK(r)
        BY DEF ExtInv, ExtHolders
      <3>2. /\ r.op \in {"download", "store"} => extDownloads'[r.job].status = "DOWNLOADING"
            /\ (r.op = "store" /\ r.job \in extFiles) => r.job \in extFiles'
            /\ DOMAIN extDownloads \subseteq DOMAIN extDownloads'
        BY <1>6, <2>4, <3>1 DEF HolderOK
      <3>3. HolderOK(r)'
        BY <1>4, <2>8, <3>1, <3>2, HolderStaysOK
      <3>4. extWorker'[v] = r
        BY <2>3, <2>12, <3>1
      <3>5. QED
        BY <3>3, <3>4 DEF HolderOK
    <2>13. \A u, v \in Workers :
              (/\ extWorker'[u].op \in {"download", "store"} /\ extWorker'[v].op \in {"download", "store"}
               /\ extWorker'[u].job = extWorker'[v].job) => u = v
      <3>1. \A v \in Workers \ {w} : extWorker[v].op \in {"download", "store"} => extWorker[v].job # j
        BY <1>1, <1>2, HeldAlone
      <3>2. QED
        BY <2>2, <2>3, <3>1 DEF ExtInv, ExtHolders
    <2>14. QED
      BY <2>5, <2>6, <2>7, <2>11, <2>12, <2>13 DEF ExtInv, ExtHolders
  <1>7. QED
    BY <1>1, <1>5, <1>6 DEF Ext!Download

LEMMA StoreVersionKeepsExtInv ==
    ASSUME ExtInv, NEW w \in Workers, Ext!StoreVersion(w)
    PROVE  ExtInv'
  <1>1. PICK r, j, d, key : /\ r = extWorker[w] /\ j = r.job /\ d = extDownloads[j].document
                            /\ key = IF r.shared = Null THEN j ELSE r.shared
    OBVIOUS
  <1>2. /\ r.op = "store" /\ HolderOK(r) /\ Ext!Accepted(r, d)
        /\ extStored' = [extStored EXCEPT ![r.content] = key] /\ UNCHANGED <<extSource, extFiles>>
    BY <1>1 DEF Ext!StoreVersion, ExtInv, ExtHolders
  <1>3. PICK old : old = extDocuments[d] /\ DocumentOK(old) /\ d \in Ext!Docs /\ j \in DOMAIN extDownloads
    BY <1>1, <1>2, HeldAlone
  <1>4. j # Null
    <2>1. PICK S : extDownloads \in Seq(S)
      BY DEF ExtInv, ExtRows, IsSequence
    <2>2. QED
      BY <1>3, <2>1, ServicesAssumption
  <1>5. /\ r.content \in Held /\ key # Null
        /\ IF r.shared = Null THEN extStored[r.content] = Null /\ key = j /\ j \in extFiles
           ELSE extStored[r.content] = key
    BY <1>1, <1>2, <1>4 DEF HolderOK, Ext!Accepted
  <1>6. DOMAIN extStored' = DOMAIN extStored /\ extStored'[r.content] = key
        /\ \A k \in Held \ {r.content} : extStored'[k] = extStored[k]
    BY <1>2, <1>5 DEF ExtInv, ExtRows
  <1>7. StoredGrows
    BY <1>5, <1>6 DEF StoredGrows
  <1>8. PICK version : version = Ext!NewVersion(r.content, key)
    OBVIOUS
  <1>9. PICK document : document = [old EXCEPT !.versions = Append(old.versions, version)]
    OBVIOUS
  <1>10. DOMAIN document = DocumentFields /\ document.versions = Append(old.versions, version)
    BY <1>3, <1>9 DEF DocumentOK, DocumentFields
  <1>11. DocumentOK(document)'
    <2>1. PICK versions : versions = old.versions /\ IsSequence(versions)
      BY <1>3 DEF DocumentOK
    <2>2. /\ IsSequence(Append(versions, version)) /\ Len(versions) \in Nat
          /\ DOMAIN versions = 1 .. Len(versions)
          /\ DOMAIN Append(versions, version) = 1 .. (Len(versions) + 1)
          /\ Append(versions, version)[Len(versions) + 1] = version
          /\ \A n \in 1 .. Len(versions) : Append(versions, version)[n] = versions[n]
      BY <2>1, Appended
    <2>3. \A n \in DOMAIN Append(versions, version) :
             \/ n \in DOMAIN versions /\ Append(versions, version)[n] = versions[n]
             \/ Append(versions, version)[n] = version
      BY <2>2
    <2>4. version.content = r.content /\ version.key = key
      BY <1>8 DEF Ext!NewVersion
    <2>5. \A n \in DOMAIN versions : /\ versions[n].content \in Held /\ versions[n].key # Null
                                     /\ versions[n].key = extStored'[versions[n].content]
      BY <1>3, <1>7, <2>1 DEF DocumentOK, StoredGrows
    <2>6. \A n \in DOMAIN Append(versions, version) :
             LET v == Append(versions, version)[n] IN
             v.content \in Held /\ v.key = extStored'[v.content] /\ v.key # Null
      BY <1>5, <1>6, <2>3, <2>4, <2>5
    <2>7. QED
      BY <1>10, <2>1, <2>2, <2>6 DEF DocumentOK
  <1>12. PICK status : /\ status = IF extDocuments[d].versions = <<>> THEN "DOWNLOADED" ELSE "UPDATED"
                       /\ status \in Done
    BY DEF Done
  <1>13. Ext!Settle(w, status, d, document)
    <2>1. document = [extDocuments[d] EXCEPT !.versions = Append(@, Ext!NewVersion(r.content, key))]
      BY <1>3, <1>8, <1>9
    <2>2. Ext!Settle(w, IF extDocuments[d].versions = <<>> THEN "DOWNLOADED" ELSE "UPDATED", d,
                     [extDocuments[d] EXCEPT !.versions = Append(@, Ext!NewVersion(r.content, key))])
      BY <1>1 DEF Ext!StoreVersion
    <2>3. QED
      BY <1>12, <2>1, <2>2
  <1>14. \A k \in Held : extStored'[k] = extStored[k] \/ (extStored'[k] = j /\ status \in Done /\ j \in extFiles')
    BY <1>2, <1>5, <1>6, <1>12
  <1>15. /\ ExtInv /\ w \in Workers /\ extWorker[w].op \in {"download", "store"} /\ j = extWorker[w].job
         /\ extFiles \ {j} \subseteq extFiles' /\ UNCHANGED extSource
    BY <1>1, <1>2
  <1>16. QED
    BY ONLY <1>1, <1>7, <1>10, <1>11, <1>13, <1>14, <1>15, SettledKeepsExtInv

LEMMA FailuresKeepExtInv ==
    ASSUME ExtInv, NEW w \in Workers, Ext!StoreFails(w) \/ Ext!DownloadFails(w)
    PROVE  ExtInv'
  <1>1. PICK r, j, d : r = extWorker[w] /\ j = r.job /\ d = extDownloads[j].document
    OBVIOUS
  <1>2. r.op \in {"download", "store"} /\ HolderOK(r)
    BY <1>1 DEF Ext!StoreFails, Ext!DownloadFails, ExtInv, ExtHolders
  <1>3. PICK status : /\ Ext!Settle(w, status, d, extDocuments[d])
                      /\ extFiles \ {j} \subseteq extFiles' /\ UNCHANGED <<extSource, extStored>>
    <2>1. CASE Ext!StoreFails(w)
      BY <1>1, <2>1 DEF Ext!StoreFails, Ext!Compensated
    <2>2. CASE Ext!DownloadFails(w)
      BY <1>1, <2>2 DEF Ext!DownloadFails
    <2>3. QED
      BY <2>1, <2>2
  <1>4. PICK old : old = extDocuments[d] /\ DocumentOK(old)
    BY <1>1, <1>2, HeldAlone
  <1>5. StoredGrows /\ \A k \in Held : extStored'[k] = extStored[k]
    BY <1>3 DEF StoredGrows
  <1>6. DOMAIN old = DocumentFields /\ DocumentOK(old)'
    BY <1>4, <1>5, DocumentStaysOK DEF DocumentOK
  <1>7. Ext!Settle(w, status, d, old)
    BY <1>3, <1>4
  <1>8. QED
    BY <1>1, <1>2, <1>3, <1>5, <1>6, <1>7, SettledKeepsExtInv

LEMMA CrashKeepsExtInv ==
    ASSUME ExtInv, NEW w \in Workers, Ext!Crash(w)
    PROVE  ExtInv'
  <1>1. /\ extWorker' = [extWorker EXCEPT ![w] = Ext!Idle]
        /\ UNCHANGED <<extSource, extDocuments, extDownloads, extStored, extFiles>>
    BY DEF Ext!Crash
  <1>2. Ext!Idle.op = "idle"
    BY DEF Ext!Idle
  <1>3. /\ DOMAIN extWorker' = Workers /\ extWorker'[w].op = "idle"
        /\ \A v \in Workers \ {w} : extWorker'[v] = extWorker[v]
    BY <1>1, <1>2 DEF ExtInv, ExtRows
  <1>4. QED
    BY <1>1, <1>3, SyncStepKeepsInv DEF ExtInv, ExtRows

LEMMA ExtNextInv == ExtInv /\ [Ext!Next]_(Ext!vars) => ExtInv'
  <1> SUFFICES ASSUME ExtInv, [Ext!Next]_(Ext!vars) PROVE ExtInv'
    OBVIOUS
  <1>1. CASE UNCHANGED Ext!vars \/ \E discover \in BOOLEAN : Ext!EnqueueSync(discover)
    <2>1. UNCHANGED <<extSource, extDocuments, extDownloads, extStored, extFiles, extWorker>>
      BY <1>1 DEF Ext!vars, Ext!EnqueueSync
    <2>2. QED
      BY <2>1, SyncStepKeepsInv DEF ExtInv, ExtRows
  <1>2. CASE Ext!SourceChanges
    BY <1>2, SourceKeepsExtInv
  <1>3. CASE \E d \in Ext!Docs : Ext!EnqueueDownload(d)
    BY <1>3, EnqueueKeepsExtInv
  <1>4. CASE \E w \in Workers : Ext!WorkerStep(w) \/ Ext!Crash(w)
    BY <1>4, SyncsKeepExtInv, PersistKeepsExtInv, ClaimDownloadKeepsExtInv, DownloadKeepsExtInv,
       StoreVersionKeepsExtInv, FailuresKeepExtInv, CrashKeepsExtInv DEF Ext!WorkerStep
  <1>5. QED
    BY <1>1, <1>2, <1>3, <1>4 DEF Ext!Next

LEMMA ExtInvariant == Ext!Spec => []ExtInv
  <1>1. Ext!Init => ExtInv
    BY ExtInitInv
  <1>2. ExtInv /\ [Ext!Next]_(Ext!vars) => ExtInv'
    BY ExtNextInv
  <1>3. QED
    BY <1>1, <1>2, PTL DEF Ext!Spec

\* ADR-017: every version of a public document keeps its file, also one that shares the file
\* of another document; no compensation and no synchronisation takes it away.
THEOREM VersionsKeepTheirFiles == Ext!Spec => []VersionsHaveFiles
  <1>1. ExtInv => VersionsHaveFiles
    BY DEF ExtInv, StoredOK, DocumentsOK, DocumentOK, VersionsHaveFiles,
           Ext!VersionsHaveFiles
  <1>2. QED
    BY <1>1, ExtInvariant, PTL

-----------------------------------------------------------------------------
(* The rows of ExternalDocuments stay well formed, and a closing date that *)
(* was known stays known.                                                  *)

SyncFields == {"status", "discover", "snapshot", "events"}
MaybeDates == Dates \cup {Null}

SyncOK(n) == DOMAIN extSyncs[n] = SyncFields /\ extSyncs[n].status \in Ext!SyncStatus

\* What a worker of a synchronisation has claimed, and what the source has answered.
AnswerOK(r) ==
    /\ r.op \in {"sync", "persist"} => r.sync \in DOMAIN extSyncs
    /\ r.op = "persist" => r.refresh.closing \in MaybeDates

SyncTyping ==
    /\ extSource.closing \in MaybeDates
    /\ DOMAIN extProcess = {"closing"} /\ extProcess.closing \in MaybeDates
    /\ IsSequence(extSyncs) /\ \A n \in DOMAIN extSyncs : SyncOK(n)
    /\ \A w \in Workers : AnswerOK(extWorker[w])
    /\ Ext!KnownClosingStays

StatusOK(document) == document.download \in Ext!DownloadStatus

\* What a worker has loaded for its answer is there when it persists the answer.
LoadedOK(r) == r.op = "persist" => \A d \in Ext!Docs : r.loaded[d] # Null => StatusOK(extDocuments[d])

DocumentTyping ==
    /\ \A j \in DOMAIN extDownloads :
          extDownloads[j].status \in Ext!DownloadStatus /\ StatusOK(extDocuments[extDownloads[j].document])
    /\ \A d \in Ext!Docs : extDocuments[d] # Null => StatusOK(extDocuments[d])
    /\ \A w \in Workers : LoadedOK(extWorker[w])
    /\ extFiles \subseteq DOMAIN extDownloads

-----------------------------------------------------------------------------
\* A step that neither asks nor is answered.
LEMMA OthersKeepSyncTyping ==
    ASSUME SyncTyping, UNCHANGED <<extProcess, extSyncs>>,
           extSource'.closing \in MaybeDates,
           \A w \in Workers : AnswerOK(extWorker'[w])
    PROVE  SyncTyping'
  <1>1. Ext!KnownClosingStays'
    BY DEF SyncTyping, Ext!KnownClosingStays
  <1>2. \A w \in Workers : AnswerOK(extWorker[w])'
    BY DEF AnswerOK
  <1>3. \A n \in DOMAIN extSyncs' : SyncOK(n)'
    BY DEF SyncTyping, SyncOK
  <1>4. QED
    BY <1>1, <1>2, <1>3 DEF SyncTyping

\* A worker is free again, or holds what is no synchronisation.
LEMMA WorkerKeepsSyncTyping ==
    ASSUME ExtInv, SyncTyping, NEW w \in Workers, NEW r, r.op \notin {"sync", "persist"},
           extWorker' = [extWorker EXCEPT ![w] = r],
           UNCHANGED <<extProcess, extSyncs, extSource>>
    PROVE  SyncTyping'
  <1>1. \A v \in Workers : extWorker'[v] = IF v = w THEN r ELSE extWorker[v]
    BY DEF ExtInv, ExtRows
  <1>2. AnswerOK(r)
    BY DEF AnswerOK
  <1>3. \A v \in Workers : AnswerOK(extWorker'[v])
    BY <1>1, <1>2 DEF SyncTyping
  <1>4. QED
    BY <1>3, OthersKeepSyncTyping DEF SyncTyping

LEMMA SourceKeepsSyncTyping ==
    ASSUME ExtInv, SyncTyping, Ext!SourceChanges
    PROVE  SyncTyping'
  <1>1. DOMAIN extSource = {"closing", "listed", "supported", "content"}
    BY DEF ExtInv, ExtRows
  <1>2. UNCHANGED <<extProcess, extSyncs, extWorker>>
    BY DEF Ext!SourceChanges
  <1>3. extSource'.closing \in MaybeDates
    <2>1. CASE \E date \in MaybeDates : extSource' = [extSource EXCEPT !.closing = date]
      BY <1>1, <2>1
    <2>2. CASE \E listed : extSource' = [extSource EXCEPT !.listed = listed]
      BY <1>1, <2>2 DEF SyncTyping
    <2>3. CASE \E supported : extSource' = [extSource EXCEPT !.supported = supported]
      BY <1>1, <2>3 DEF SyncTyping
    <2>4. CASE \E content : extSource' = [extSource EXCEPT !.content = content]
      BY <1>1, <2>4 DEF SyncTyping
    <2>5. QED
      BY <2>1, <2>2, <2>3, <2>4 DEF Ext!SourceChanges, MaybeDates
  <1>4. \A w \in Workers : AnswerOK(extWorker'[w])
    BY <1>2 DEF SyncTyping
  <1>5. QED
    BY <1>2, <1>3, <1>4, OthersKeepSyncTyping

LEMMA EnqueueSyncKeepsTyping ==
    ASSUME ExtInv, SyncTyping, NEW discover, Ext!EnqueueSync(discover)
    PROVE  SyncTyping'
  <1>1. PICK sync : /\ extSyncs' = Append(extSyncs, sync)
                    /\ sync = [status |-> "PENDING", discover |-> discover, snapshot |-> Null, events |-> {}]
    BY DEF Ext!EnqueueSync, Ext!NewSync
  <1>2. /\ DOMAIN sync = SyncFields /\ sync.status = "PENDING" /\ sync.snapshot = Null
    BY <1>1 DEF SyncFields
  <1>3. UNCHANGED <<extSource, extProcess, extWorker>>
    BY DEF Ext!EnqueueSync
  <1>4. /\ IsSequence(extSyncs') /\ Len(extSyncs) \in Nat /\ DOMAIN extSyncs = 1 .. Len(extSyncs)
        /\ DOMAIN extSyncs' = 1 .. (Len(extSyncs) + 1) /\ extSyncs'[Len(extSyncs) + 1] = sync
        /\ \A n \in 1 .. Len(extSyncs) : extSyncs'[n] = extSyncs[n]
    BY <1>1, Appended DEF SyncTyping
  <1>5. \A n \in DOMAIN extSyncs' : extSyncs'[n] = sync \/ (n \in DOMAIN extSyncs /\ extSyncs'[n] = extSyncs[n])
    BY <1>4
  <1>6. \A n \in DOMAIN extSyncs' : SyncOK(n)'
    BY <1>2, <1>5 DEF SyncTyping, SyncOK, Ext!SyncStatus
  <1>7. Ext!KnownClosingStays'
    BY <1>2, <1>3, <1>5 DEF SyncTyping, Ext!KnownClosingStays
  <1>8. DOMAIN extSyncs \subseteq DOMAIN extSyncs'
    BY <1>4
  <1>9. \A w \in Workers : AnswerOK(extWorker[w])'
    BY <1>3, <1>8 DEF SyncTyping, AnswerOK
  <1>10. QED
    BY <1>3, <1>4, <1>6, <1>7, <1>9 DEF SyncTyping

\* A synchronisation that goes on, and a worker that holds or leaves it.
LEMMA SyncMovesKeepTyping ==
    ASSUME ExtInv, SyncTyping, NEW w \in Workers, NEW n \in DOMAIN extSyncs, NEW sync, NEW r,
           extSyncs' = [extSyncs EXCEPT ![n] = sync], DOMAIN sync = SyncFields,
           sync.status \in Ext!SyncStatus,
           DOMAIN extProcess' = {"closing"}, extProcess'.closing \in MaybeDates,
           extProcess'.closing = Null =>
               extProcess.closing = Null /\ (sync.snapshot = Null \/ sync.snapshot.closing = Null
                                             \/ sync.snapshot = extSyncs[n].snapshot),
           extWorker' = [extWorker EXCEPT ![w] = r], AnswerOK(r), UNCHANGED extSource
    PROVE  SyncTyping'
  <1>1. /\ IsSequence(extSyncs') /\ DOMAIN extSyncs' = DOMAIN extSyncs /\ extSyncs'[n] = sync
        /\ \A m \in DOMAIN extSyncs \ {n} : extSyncs'[m] = extSyncs[m]
    BY Replaced DEF SyncTyping
  <1>2. \A m \in DOMAIN extSyncs' : SyncOK(m)'
    BY <1>1 DEF SyncTyping, SyncOK
  <1>3. Ext!KnownClosingStays'
    BY <1>1 DEF SyncTyping, Ext!KnownClosingStays
  <1>4. \A v \in Workers : extWorker'[v] = IF v = w THEN r ELSE extWorker[v]
    BY DEF ExtInv, ExtRows
  <1>5. \A v \in Workers : AnswerOK(extWorker[v])'
    BY <1>1, <1>4 DEF SyncTyping, AnswerOK
  <1>6. QED
    BY <1>1, <1>2, <1>3, <1>5 DEF SyncTyping

LEMMA SyncsKeepTyping ==
    ASSUME ExtInv, SyncTyping, NEW w \in Workers, Ext!ClaimSync(w) \/ Ext!FailSync(w)
    PROVE  SyncTyping'
  <1>1. PICK n, status, r :
           /\ n \in DOMAIN extSyncs /\ status \in Ext!SyncStatus
           /\ extSyncs' = [extSyncs EXCEPT ![n].status = status]
           /\ extWorker' = [extWorker EXCEPT ![w] = r]
           /\ AnswerOK(r)
    <2>1. CASE Ext!ClaimSync(w)
      <3>1. PICK n \in DOMAIN extSyncs : /\ extSyncs' = [extSyncs EXCEPT ![n].status = "PROCESSING"]
                                         /\ extWorker' = [extWorker EXCEPT ![w] = [op |-> "sync", sync |-> n]]
        BY <2>1 DEF Ext!ClaimSync
      <3>2. AnswerOK([op |-> "sync", sync |-> n])
        BY DEF AnswerOK
      <3>3. "PROCESSING" \in Ext!SyncStatus
        BY DEF Ext!SyncStatus
      <3>4. QED
        BY <3>1, <3>2, <3>3
    <2>2. CASE Ext!FailSync(w)
      <3>1. extWorker[w].sync \in DOMAIN extSyncs
        BY <2>2 DEF Ext!FailSync, SyncTyping, AnswerOK
      <3>2. AnswerOK(Ext!Idle)
        BY DEF AnswerOK, Ext!Idle
      <3>3. "FAILED" \in Ext!SyncStatus
        BY DEF Ext!SyncStatus
      <3>4. QED
        BY <2>2, <3>1, <3>2, <3>3 DEF Ext!FailSync
    <2>3. QED
      BY <2>1, <2>2
  <1>2. PICK sync : sync = [extSyncs[n] EXCEPT !.status = status]
    OBVIOUS
  <1>3. DOMAIN extSyncs[n] = SyncFields
    BY <1>1 DEF SyncTyping, SyncOK
  <1>4. DOMAIN sync = SyncFields /\ sync.status = status /\ sync.snapshot = extSyncs[n].snapshot
    BY <1>2, <1>3 DEF SyncFields
  <1>5. extSyncs' = [extSyncs EXCEPT ![n] = sync]
    BY <1>1, <1>2
  <1>6. UNCHANGED <<extSource, extProcess>>
    BY DEF Ext!ClaimSync, Ext!FailSync
  <1>7. QED
    BY <1>1, <1>4, <1>5, <1>6, SyncMovesKeepTyping DEF SyncTyping

LEMMA ReadSourceKeepsTyping ==
    ASSUME ExtInv, SyncTyping, NEW w \in Workers, Ext!ReadSource(w)
    PROVE  SyncTyping'
  <1>1. PICK refresh, r :
           /\ refresh \in Ext!Refreshes(extSyncs[extWorker[w].sync].discover)
           /\ extWorker' = [extWorker EXCEPT ![w] = r]
           /\ r = [op |-> "persist", sync |-> extWorker[w].sync, refresh |-> refresh, loaded |-> extDocuments]
    BY DEF Ext!ReadSource
  <1>2. refresh.closing = extSource.closing
    <2>1. \E down, listed :
             refresh = [closing |-> extSource.closing, warned |-> down # {}, documents |-> listed,
                        supported |-> extSource.supported]
      BY <1>1, Zenon DEF Ext!Refreshes
    <2>2. QED
      BY <2>1
  <1>3. extWorker[w].sync \in DOMAIN extSyncs
    BY DEF Ext!ReadSource, SyncTyping, AnswerOK
  <1>4. AnswerOK(r)
    BY <1>1, <1>2, <1>3 DEF AnswerOK, SyncTyping
  <1>5. \A v \in Workers : extWorker'[v] = IF v = w THEN r ELSE extWorker[v]
    BY <1>1 DEF ExtInv, ExtRows
  <1>6. \A v \in Workers : AnswerOK(extWorker'[v])
    BY <1>4, <1>5 DEF SyncTyping
  <1>7. UNCHANGED <<extSource, extProcess, extSyncs>>
    BY DEF Ext!ReadSource
  <1>8. QED
    BY <1>6, <1>7, OthersKeepSyncTyping DEF SyncTyping

\* What the answer leaves out does not make the process forget.
LEMMA PersistKeepsSyncTyping ==
    ASSUME ExtInv, SyncTyping, NEW w \in Workers, Ext!PersistRefresh(w)
    PROVE  SyncTyping'
  <1>1. PICK r, n : r = extWorker[w] /\ n = r.sync
    OBVIOUS
  <1>2. r.op = "persist"
    BY <1>1 DEF Ext!PersistRefresh
  <1>3. n \in DOMAIN extSyncs /\ r.refresh.closing \in MaybeDates
    BY <1>1, <1>2 DEF SyncTyping, AnswerOK
  <1>4. PICK status, snapshot, events :
           /\ status \in Ext!SyncStatus
           /\ extSyncs' = [extSyncs EXCEPT ![n].status = status, ![n].snapshot = snapshot, ![n].events = events]
           /\ snapshot = [closing |-> r.refresh.closing]
    <2>1. \A b : (IF b THEN "COMPLETED_WITH_WARNINGS" ELSE "COMPLETED") \in Ext!SyncStatus
      BY DEF Ext!SyncStatus
    <2>2. QED
      BY <1>1, <2>1 DEF Ext!PersistRefresh
  <1>5. PICK old : old = extSyncs[n] /\ DOMAIN old = SyncFields
    BY <1>3 DEF SyncTyping, SyncOK
  <1>6. PICK sync : sync = [old EXCEPT !.status = status, !.snapshot = snapshot, !.events = events]
    OBVIOUS
  <1>7. DOMAIN sync = SyncFields /\ sync.status = status /\ sync.snapshot = snapshot
    BY <1>5, <1>6 DEF SyncFields
  <1>8. extSyncs' = [extSyncs EXCEPT ![n] = sync]
    BY <1>4, <1>5, <1>6
  <1>9. extProcess' = [extProcess EXCEPT !.closing = Ext!Known(r.refresh.closing, @)]
    BY <1>1 DEF Ext!PersistRefresh
  <1>10. /\ DOMAIN extProcess' = {"closing"}
         /\ extProcess'.closing = IF r.refresh.closing = Null THEN extProcess.closing ELSE r.refresh.closing
    BY <1>9 DEF SyncTyping, Ext!Known
  <1>11. /\ extProcess'.closing \in MaybeDates
         /\ extProcess'.closing = Null => extProcess.closing = Null /\ sync.snapshot.closing = Null
    BY <1>3, <1>4, <1>7, <1>10 DEF SyncTyping
  <1>12. extWorker' = [extWorker EXCEPT ![w] = Ext!Idle] /\ UNCHANGED extSource
    BY DEF Ext!PersistRefresh
  <1>13. AnswerOK(Ext!Idle)
    BY DEF AnswerOK, Ext!Idle
  <1>14. QED
    BY <1>3, <1>4, <1>7, <1>8, <1>10, <1>11, <1>12, <1>13, SyncMovesKeepTyping

LEMMA DownloadsKeepSyncTyping ==
    ASSUME ExtInv, SyncTyping, NEW w \in Workers,
           \/ Ext!ClaimDownload(w) \/ Ext!Download(w) \/ Ext!StoreVersion(w)
           \/ Ext!StoreFails(w) \/ Ext!DownloadFails(w) \/ Ext!Crash(w)
    PROVE  SyncTyping'
  <1>1. UNCHANGED <<extSource, extProcess, extSyncs>>
    BY DEF Ext!ClaimDownload, Ext!Download, Ext!StoreVersion, Ext!StoreFails, Ext!DownloadFails, Ext!Crash
  <1>2. PICK r : extWorker' = [extWorker EXCEPT ![w] = r] /\ r.op \notin {"sync", "persist"}
    <2>1. /\ Ext!Idle.op \notin {"sync", "persist"}
          /\ \A j : [op |-> "download", job |-> j].op \notin {"sync", "persist"}
          /\ \A j, k, shared :
                [op |-> "store", job |-> j, content |-> k, shared |-> shared].op \notin {"sync", "persist"}
      BY DEF Ext!Idle
    <2>2. \/ extWorker' = [extWorker EXCEPT ![w] = Ext!Idle]
          \/ \E j : extWorker' = [extWorker EXCEPT ![w] = [op |-> "download", job |-> j]]
          \/ \E j, k, shared : extWorker' = [extWorker EXCEPT ![w] =
                [op |-> "store", job |-> j, content |-> k, shared |-> shared]]
      BY DEF Ext!ClaimDownload, Ext!Download, Ext!StoreVersion, Ext!StoreFails,
         Ext!DownloadFails, Ext!Crash, Ext!Settle
    <2>3. CASE extWorker' = [extWorker EXCEPT ![w] = Ext!Idle]
      BY <2>1, <2>3, Zenon
    <2>4. CASE \E j : extWorker' = [extWorker EXCEPT ![w] = [op |-> "download", job |-> j]]
      BY <2>1, <2>4, Zenon
    <2>5. CASE \E j, k, shared : extWorker' = [extWorker EXCEPT ![w] =
                   [op |-> "store", job |-> j, content |-> k, shared |-> shared]]
      BY <2>1, <2>5, Zenon
    <2>6. QED
      BY <2>2, <2>3, <2>4, <2>5
  <1>3. QED
    BY <1>1, <1>2, WorkerKeepsSyncTyping

LEMMA NextSyncTyping == ExtInv /\ SyncTyping /\ [Ext!Next]_(Ext!vars) => SyncTyping'
  <1> SUFFICES ASSUME ExtInv, SyncTyping, [Ext!Next]_(Ext!vars) PROVE SyncTyping'
    OBVIOUS
  <1>1. CASE Ext!SourceChanges
    BY <1>1, SourceKeepsSyncTyping
  <1>2. CASE \E discover \in BOOLEAN : Ext!EnqueueSync(discover)
    BY <1>2, EnqueueSyncKeepsTyping
  <1>3. CASE (\E d \in Ext!Docs : Ext!EnqueueDownload(d)) \/ UNCHANGED Ext!vars
    <2>1. UNCHANGED <<extSource, extProcess, extSyncs, extWorker>>
      BY <1>3 DEF Ext!EnqueueDownload, Ext!vars
    <2>2. QED
      BY <2>1, OthersKeepSyncTyping DEF SyncTyping
  <1>4. ASSUME NEW w \in Workers, Ext!WorkerStep(w) \/ Ext!Crash(w) PROVE SyncTyping'
    BY <1>4, SyncsKeepTyping, ReadSourceKeepsTyping, PersistKeepsSyncTyping, DownloadsKeepSyncTyping
       DEF Ext!WorkerStep
  <1>5. QED
    BY <1>1, <1>2, <1>3, <1>4 DEF Ext!Next

\* No document loses the status that it has.
StatusesStay == \A d \in Ext!Docs : StatusOK(extDocuments[d]) => StatusOK(extDocuments'[d])

LEMMA DocumentsKeepTyping ==
    ASSUME ExtInv, DocumentTyping, StatusesStay,
           \A d \in Ext!Docs : extDocuments'[d] = extDocuments[d] \/ StatusOK(extDocuments'[d]),
           \A j \in DOMAIN extDownloads' :
              /\ extDownloads'[j].status \in Ext!DownloadStatus
              /\ \/ StatusOK(extDocuments'[extDownloads'[j].document])
                 \/ j \in DOMAIN extDownloads /\ extDownloads'[j].document = extDownloads[j].document,
           \A w \in Workers : extWorker'[w] = extWorker[w] \/ LoadedOK(extWorker[w])',
           extFiles' \subseteq DOMAIN extDownloads'
    PROVE  DocumentTyping'
  <1>1. \A d \in Ext!Docs : extDocuments'[d] # Null => StatusOK(extDocuments'[d])
    BY DEF DocumentTyping, StatusesStay
  <1>2. \A j \in DOMAIN extDownloads : extDownloads[j].document \in Ext!Docs
    BY DEF ExtInv, ExtRows
  <1>3. \A j \in DOMAIN extDownloads' : /\ extDownloads'[j].status \in Ext!DownloadStatus
                                        /\ StatusOK(extDocuments'[extDownloads'[j].document])
    BY <1>2 DEF DocumentTyping, StatusesStay
  <1>4. ASSUME NEW w \in Workers PROVE LoadedOK(extWorker[w])'
    <2>1. LoadedOK(extWorker[w])
      BY DEF DocumentTyping
    <2>2. CASE extWorker'[w] = extWorker[w]
      BY <2>1, <2>2 DEF StatusesStay, LoadedOK, StatusOK
    <2>3. QED
      BY <2>2
  <1>5. QED
    BY <1>1, <1>3, <1>4 DEF DocumentTyping, StatusOK

\* A step of a worker that leaves the rows of documents and downloads alone.
LEMMA SameRowsKeepTyping ==
    ASSUME ExtInv, DocumentTyping, UNCHANGED <<extDocuments, extDownloads>>,
           extFiles' \subseteq DOMAIN extDownloads,
           \A w \in Workers : \/ extWorker'[w] = extWorker[w] \/ extWorker'[w].op # "persist"
                              \/ extWorker'[w].loaded = extDocuments
    PROVE  DocumentTyping'
  <1>1. \A w \in Workers : LoadedOK(extWorker[w])'
    BY DEF DocumentTyping, LoadedOK, StatusOK
  <1>2. QED
    BY <1>1 DEF DocumentTyping, StatusOK

LEMMA SyncsKeepDocumentTyping ==
    ASSUME ExtInv, DocumentTyping, NEW w \in Workers,
           Ext!ClaimSync(w) \/ Ext!FailSync(w) \/ Ext!ReadSource(w) \/ Ext!Crash(w)
    PROVE  DocumentTyping'
  <1>1. UNCHANGED <<extDocuments, extDownloads, extFiles>>
    BY DEF Ext!ClaimSync, Ext!FailSync, Ext!ReadSource, Ext!Crash
  <1>2. PICK r : extWorker' = [extWorker EXCEPT ![w] = r] /\ (r.op # "persist" \/ r.loaded = extDocuments)
    <2>1. /\ Ext!Idle.op # "persist"
          /\ \A n : [op |-> "sync", sync |-> n].op # "persist"
          /\ \A n, refresh : [op |-> "persist", sync |-> n, refresh |-> refresh,
                              loaded |-> extDocuments].loaded = extDocuments
      BY DEF Ext!Idle
    <2>2. \/ extWorker' = [extWorker EXCEPT ![w] = Ext!Idle]
          \/ \E n : extWorker' = [extWorker EXCEPT ![w] = [op |-> "sync", sync |-> n]]
          \/ \E n, refresh : extWorker' = [extWorker EXCEPT ![w] =
                [op |-> "persist", sync |-> n, refresh |-> refresh, loaded |-> extDocuments]]
      BY DEF Ext!ClaimSync, Ext!FailSync, Ext!ReadSource, Ext!Crash
    <2>3. CASE extWorker' = [extWorker EXCEPT ![w] = Ext!Idle]
      BY <2>1, <2>3, Zenon
    <2>4. CASE \E n : extWorker' = [extWorker EXCEPT ![w] = [op |-> "sync", sync |-> n]]
      BY <2>1, <2>4, Zenon
    <2>5. CASE \E n, refresh : extWorker' = [extWorker EXCEPT ![w] =
                   [op |-> "persist", sync |-> n, refresh |-> refresh, loaded |-> extDocuments]]
      <3>1. PICK n, refresh : extWorker' = [extWorker EXCEPT ![w] =
                   [op |-> "persist", sync |-> n, refresh |-> refresh, loaded |-> extDocuments]]
        BY <2>5
      <3>2. PICK r : r = [op |-> "persist", sync |-> n, refresh |-> refresh, loaded |-> extDocuments]
        OBVIOUS
      <3>3. r.loaded = extDocuments
        BY ONLY <3>2
      <3>4. extWorker' = [extWorker EXCEPT ![w] = r]
        BY ONLY <3>1, <3>2
      <3>5. QED
        BY ONLY <3>3, <3>4
    <2>6. QED
      BY <2>2, <2>3, <2>4, <2>5
  <1>3. \A v \in Workers : extWorker'[v] = IF v = w THEN r ELSE extWorker[v]
    BY <1>2 DEF ExtInv, ExtRows
  <1>4. QED
    BY <1>1, <1>2, <1>3, SameRowsKeepTyping DEF DocumentTyping

LEMMA OfferedStatus == \A refresh, d : Ext!Offered(refresh, d) \in Ext!DownloadStatus
  BY DEF Ext!Offered, Ext!DownloadStatus

LEMMA PersistKeepsDocumentTyping ==
    ASSUME ExtInv, DocumentTyping, NEW w \in Workers, Ext!PersistRefresh(w)
    PROVE  DocumentTyping'
  <1>1. PICK r : r = extWorker[w] /\ HolderOK(r) /\ r.op = "persist" /\ LoadedOK(r)
    BY DEF Ext!PersistRefresh, ExtInv, ExtHolders, DocumentTyping
  <1>2. PICK discover, seen :
           extDocuments' = [d \in Ext!Docs |-> IF d \in seen THEN Ext!Listed(r, d)
                                            ELSE IF discover THEN Ext!Unlisted(d) ELSE extDocuments[d]]
    BY <1>1 DEF Ext!PersistRefresh
  <1>3. ASSUME NEW d \in Ext!Docs PROVE StatusOK(Ext!Listed(r, d))
    <2>1. CASE r.loaded[d] = Null
      <3>1. PICK new, download : /\ new = [discovery |-> "LISTED", download |-> download, versions |-> <<>>]
                                 /\ download = Ext!Offered(r.refresh, d) /\ Ext!Listed(r, d) = new
        BY <2>1 DEF Ext!Listed, Ext!NewDocument
      <3>2. QED
        BY <3>1, OfferedStatus DEF StatusOK
    <2>2. CASE r.loaded[d] # Null
      <3>1. PICK old : old = extDocuments[d] /\ DOMAIN old = DocumentFields /\ old.download \in Ext!DownloadStatus
        BY <1>1, <2>2 DEF HolderOK, LoadedOK, StatusOK, DocumentOK
      <3>2. PICK offered, download : /\ Ext!Listed(r, d) = [old EXCEPT !.discovery = "LISTED", !.download = download]
                                     /\ offered = Ext!Offered(r.refresh, d)
                                     /\ download \in {offered, old.download}
        BY <2>2, <3>1 DEF Ext!Listed
      <3>3. PICK new : new = [old EXCEPT !.discovery = "LISTED", !.download = download]
        OBVIOUS
      <3>4. new.download = download
        BY <3>1, <3>3 DEF DocumentFields
      <3>5. QED
        BY <3>1, <3>2, <3>3, <3>4, OfferedStatus DEF StatusOK
    <2>3. QED
      BY <2>1, <2>2
  <1>4. ASSUME NEW d \in Ext!Docs
        PROVE  /\ Ext!Unlisted(d) = extDocuments[d] \/ StatusOK(Ext!Unlisted(d))
    <2>1. CASE extDocuments[d] = Null
      BY <2>1 DEF Ext!Unlisted
    <2>2. CASE extDocuments[d] # Null
      <3>1. PICK old : old = extDocuments[d] /\ DOMAIN old = DocumentFields /\ old.download \in Ext!DownloadStatus
        BY <2>2 DEF ExtInv, DocumentsOK, DocumentOK, DocumentTyping, StatusOK
      <3>2. PICK new : new = [old EXCEPT !.discovery = "MISSING"]
        OBVIOUS
      <3>3. new.download = old.download
        BY <3>1, <3>2 DEF DocumentFields
      <3>4. Ext!Unlisted(d) = new
        BY <2>2, <3>1, <3>2 DEF Ext!Unlisted
      <3>5. QED
        BY <3>1, <3>3, <3>4 DEF StatusOK
    <2>3. QED
      BY <2>1, <2>2
  <1>5. \A d \in Ext!Docs : extDocuments'[d] = extDocuments[d] \/ StatusOK(extDocuments'[d])
    BY <1>2, <1>3, <1>4
  <1>6. StatusesStay
    BY <1>5 DEF StatusesStay
  <1>7. UNCHANGED <<extDownloads, extFiles>>
    BY DEF Ext!PersistRefresh
  <1>8. \A v \in Workers : extWorker'[v] = extWorker[v] \/ LoadedOK(extWorker[v])'
    <2>1. \A v \in Workers : extWorker'[v] = extWorker[v] \/ extWorker'[v] = Ext!Idle
      BY DEF Ext!PersistRefresh, ExtInv, ExtRows
    <2>2. Ext!Idle.op # "persist"
      BY DEF Ext!Idle
    <2>3. QED
      BY <2>1, <2>2 DEF LoadedOK
  <1>9. QED
    BY <1>5, <1>6, <1>7, <1>8, DocumentsKeepTyping DEF DocumentTyping

LEMMA EnqueueKeepsDocumentTyping ==
    ASSUME ExtInv, DocumentTyping, NEW d \in Ext!Docs, Ext!EnqueueDownload(d)
    PROVE  DocumentTyping'
  <1>1. PICK job : /\ extDownloads' = Append(extDownloads, job)
                   /\ job.document = d /\ job.status = "PENDING"
    BY DEF Ext!EnqueueDownload, Ext!NewDownload
  <1>2. PICK old : old = extDocuments[d] /\ DOMAIN old = DocumentFields
    BY DEF Ext!EnqueueDownload, ExtInv, DocumentsOK, DocumentOK
  <1>3. PICK document : document = [old EXCEPT !.download = "PENDING"]
    OBVIOUS
  <1>4. /\ extDocuments' = [extDocuments EXCEPT ![d] = document]
        /\ UNCHANGED <<extFiles, extWorker>>
    BY <1>2, <1>3 DEF Ext!EnqueueDownload
  <1>5. document.download = "PENDING" /\ "PENDING" \in Ext!DownloadStatus
    BY <1>2, <1>3 DEF DocumentFields, Ext!DownloadStatus
  <1>6. /\ StatusOK(extDocuments'[d])
        /\ \A e \in Ext!Docs : extDocuments'[e] = extDocuments[e] \/ StatusOK(extDocuments'[e])
    BY <1>4, <1>5 DEF ExtInv, ExtRows, StatusOK
  <1>7. /\ \A j \in DOMAIN extDownloads : /\ j \in DOMAIN extDownloads' /\ extDownloads'[j] = extDownloads[j]
        /\ \A j \in DOMAIN extDownloads' : j \in DOMAIN extDownloads \/ extDownloads'[j] = job
    <2>1. /\ Len(extDownloads) \in Nat
          /\ DOMAIN extDownloads = 1 .. Len(extDownloads)
          /\ DOMAIN extDownloads' = 1 .. (Len(extDownloads) + 1) /\ extDownloads'[Len(extDownloads) + 1] = job
          /\ \A j \in 1 .. Len(extDownloads) : extDownloads'[j] = extDownloads[j]
      BY <1>1, Appended DEF ExtInv, ExtRows
    <2>2. QED
      BY <2>1
  <1>8. \A j \in DOMAIN extDownloads' :
              /\ extDownloads'[j].status \in Ext!DownloadStatus
              /\ \/ StatusOK(extDocuments'[extDownloads'[j].document])
                 \/ j \in DOMAIN extDownloads /\ extDownloads'[j].document = extDownloads[j].document
    BY <1>1, <1>5, <1>6, <1>7 DEF DocumentTyping
  <1>9. StatusesStay
    BY <1>6 DEF StatusesStay
  <1>10. extFiles' \subseteq DOMAIN extDownloads'
    BY <1>4, <1>7 DEF DocumentTyping
  <1>11. QED
    BY <1>4, <1>6, <1>8, <1>9, <1>10, DocumentsKeepTyping

\* A download and its document take a status together.
LEMMA SettledKeepsDocumentTyping ==
    ASSUME ExtInv, DocumentTyping, NEW w \in Workers, NEW j \in DOMAIN extDownloads,
           NEW status \in Ext!DownloadStatus, NEW old, DOMAIN old = DocumentFields,
           extDownloads' = [extDownloads EXCEPT ![j].status = status],
           extDocuments' = [extDocuments EXCEPT ![extDownloads[j].document] = [old EXCEPT !.download = status]],
           NEW r, r.op # "persist", extWorker' = [extWorker EXCEPT ![w] = r], extFiles' \subseteq extFiles
    PROVE  DocumentTyping'
  <1>1. PICK d \in Ext!Docs : d = extDownloads[j].document
    BY DEF ExtInv, ExtRows
  <1>2. PICK document : document = [old EXCEPT !.download = status]
    OBVIOUS
  <1>3. document.download = status
    BY <1>2 DEF DocumentFields
  <1>4. extDocuments' = [extDocuments EXCEPT ![d] = document]
    BY <1>1, <1>2
  <1>5. /\ \A e \in Ext!Docs : extDocuments'[e] = extDocuments[e] \/ StatusOK(extDocuments'[e])
        /\ StatusOK(extDocuments'[d])
    BY <1>3, <1>4 DEF ExtInv, ExtRows, StatusOK
  <1>6. PICK was, job : was = extDownloads[j] /\ DOMAIN was = DownloadFields /\ job = [was EXCEPT !.status = status]
    BY DEF ExtInv, ExtRows
  <1>7. job.status = status /\ job.document = was.document
    BY <1>6 DEF DownloadFields
  <1>8. extDownloads' = [extDownloads EXCEPT ![j] = job]
    BY <1>6
  <1>9. DOMAIN extDownloads' = DOMAIN extDownloads /\ extDownloads'[j] = job
        /\ \A i \in DOMAIN extDownloads \ {j} : extDownloads'[i] = extDownloads[i]
    BY <1>8, Replaced DEF ExtInv, ExtRows
  <1>10. \A i \in DOMAIN extDownloads' :
              /\ extDownloads'[i].status \in Ext!DownloadStatus
              /\ \/ StatusOK(extDocuments'[extDownloads'[i].document])
                 \/ i \in DOMAIN extDownloads /\ extDownloads'[i].document = extDownloads[i].document
    BY <1>6, <1>7, <1>9 DEF DocumentTyping
  <1>11. StatusesStay
    BY <1>5 DEF StatusesStay
  <1>12. \A v \in Workers : extWorker'[v] = IF v = w THEN r ELSE extWorker[v]
    BY DEF ExtInv, ExtRows
  <1>13. \A v \in Workers : extWorker'[v] = extWorker[v] \/ LoadedOK(extWorker[v])'
    BY <1>12 DEF LoadedOK
  <1>14. extFiles' \subseteq DOMAIN extDownloads'
    BY <1>9 DEF DocumentTyping
  <1>15. QED
    BY <1>5, <1>10, <1>11, <1>13, <1>14, DocumentsKeepTyping

LEMMA ClaimKeepsDocumentTyping ==
    ASSUME ExtInv, DocumentTyping, NEW w \in Workers, Ext!ClaimDownload(w)
    PROVE  DocumentTyping'
  <1>1. PICK j \in DOMAIN extDownloads :
          /\ extDownloads' = [extDownloads EXCEPT ![j].status = "DOWNLOADING"]
          /\ extDocuments' = [extDocuments EXCEPT ![extDownloads[j].document].download = "DOWNLOADING"]
          /\ extWorker' = [extWorker EXCEPT ![w] = [op |-> "download", job |-> j]]
          /\ UNCHANGED extFiles
    BY DEF Ext!ClaimDownload
  <1>2. PICK old, r : /\ old = extDocuments[extDownloads[j].document] /\ DOMAIN old = DocumentFields
                      /\ r = [op |-> "download", job |-> j]
    BY DEF ExtInv, DocumentsOK, DocumentOK
  <1>3. /\ extDocuments' = [extDocuments EXCEPT ![extDownloads[j].document] = [old EXCEPT !.download = "DOWNLOADING"]]
        /\ extWorker' = [extWorker EXCEPT ![w] = r]
    BY <1>1, <1>2
  <1>4. r.op # "persist" /\ "DOWNLOADING" \in Ext!DownloadStatus
    BY <1>2 DEF Ext!DownloadStatus
  <1>5. QED
    BY <1>1, <1>2, <1>3, <1>4, SettledKeepsDocumentTyping

\* The end of a download.
LEMMA SettleKeepsDocumentTyping ==
    ASSUME ExtInv, DocumentTyping, NEW w \in Workers, extWorker[w].op \in {"download", "store"},
           NEW status \in Ext!DownloadStatus, NEW document, DOMAIN document = DocumentFields,
           Ext!Settle(w, status, extDownloads[extWorker[w].job].document, document),
           extFiles' \subseteq extFiles
    PROVE  DocumentTyping'
  <1>0. Ext!Idle.op # "persist"
    BY DEF Ext!Idle
  <1>1. PICK r : r = Ext!Idle /\ r.op # "persist"
    BY <1>0
  <1>2. PICK j \in DOMAIN extDownloads : j = extWorker[w].job
    BY HeldAlone
  <1>3. /\ extDownloads' = [extDownloads EXCEPT ![j].status = status]
        /\ extDocuments' = [extDocuments EXCEPT ![extDownloads[j].document] = [document EXCEPT !.download = status]]
        /\ extWorker' = [extWorker EXCEPT ![w] = r]
    BY <1>1, <1>2 DEF Ext!Settle
  <1>4. QED
    BY <1>1, <1>3, SettledKeepsDocumentTyping

LEMMA DownloadsKeepDocumentTyping ==
    ASSUME ExtInv, DocumentTyping, NEW w \in Workers,
           Ext!Download(w) \/ Ext!StoreVersion(w) \/ Ext!StoreFails(w) \/ Ext!DownloadFails(w)
    PROVE  DocumentTyping'
  <1>1. PICK j, d : j = extWorker[w].job /\ d = extDownloads[j].document
    OBVIOUS
  <1>2. extWorker[w].op \in {"download", "store"}
    BY DEF Ext!Download, Ext!StoreVersion, Ext!StoreFails, Ext!DownloadFails
  <1>3. PICK old : old = extDocuments[d] /\ DOMAIN old = DocumentFields /\ j \in DOMAIN extDownloads
    BY <1>1, <1>2, HeldAlone DEF DocumentOK
  <1>4. {"UNCHANGED", "DOWNLOADED", "UPDATED", "FAILED", "REJECTED"} \subseteq Ext!DownloadStatus
    BY DEF Ext!DownloadStatus
  <1>5. CASE Ext!Download(w)
    <2>1. CASE Ext!Settle(w, "UNCHANGED", d, extDocuments[d]) /\ UNCHANGED extFiles
      BY <1>1, <1>2, <1>3, <1>4, <2>1, SettleKeepsDocumentTyping
    <2>2. CASE \E r : /\ extWorker' = [extWorker EXCEPT ![w] = r] /\ r.op = "store"
                      /\ extFiles' \subseteq extFiles \cup {j}
                      /\ UNCHANGED <<extDownloads, extDocuments>>
      <3>1. PICK r : extWorker' = [extWorker EXCEPT ![w] = r] /\ r.op = "store"
        BY <2>2
      <3>2. \A v \in Workers : extWorker'[v] = IF v = w THEN r ELSE extWorker[v]
        BY <3>1 DEF ExtInv, ExtRows
      <3>3. extFiles' \subseteq DOMAIN extDownloads
        BY <1>3, <2>2 DEF DocumentTyping
      <3>4. QED
        BY <2>2, <3>1, <3>2, <3>3, SameRowsKeepTyping
    <2>3. \A k, shared : [op |-> "store", job |-> j, content |-> k, shared |-> shared].op = "store"
      OBVIOUS
    <2>4. \/ Ext!Settle(w, "UNCHANGED", d, extDocuments[d]) /\ UNCHANGED extFiles
          \/ \E k, shared :
                /\ extWorker' = [extWorker EXCEPT ![w] = [op |-> "store", job |-> j, content |-> k, shared |-> shared]]
                /\ extFiles' \in {extFiles \cup {j}, extFiles}
                /\ UNCHANGED <<extDownloads, extDocuments>>
      BY <1>1, <1>5 DEF Ext!Download
    <2>5. (\E k, shared :
                /\ extWorker' = [extWorker EXCEPT ![w] = [op |-> "store", job |-> j, content |-> k, shared |-> shared]]
                /\ extFiles' \in {extFiles \cup {j}, extFiles}
                /\ UNCHANGED <<extDownloads, extDocuments>>)
          => (\E r : /\ extWorker' = [extWorker EXCEPT ![w] = r] /\ r.op = "store"
                      /\ extFiles' \in {extFiles \cup {j}, extFiles}
                      /\ UNCHANGED <<extDownloads, extDocuments>>)
      BY <2>3, Zenon
    <2>6. QED
      BY <2>1, <2>2, <2>4, <2>5
  <1>6. CASE Ext!StoreVersion(w)
    <2>1. PICK status, document, version :
             /\ status \in {"DOWNLOADED", "UPDATED"} /\ Ext!Settle(w, status, d, document)
             /\ document = [old EXCEPT !.versions = Append(@, version)] /\ UNCHANGED extFiles
      BY <1>1, <1>3, <1>6 DEF Ext!StoreVersion
    <2>2. DOMAIN document = DocumentFields
      BY <1>3, <2>1 DEF DocumentFields
    <2>3. QED
      BY <1>1, <1>2, <1>4, <2>1, <2>2, SettleKeepsDocumentTyping
  <1>7. CASE Ext!StoreFails(w)
    <2>1. Ext!Settle(w, "FAILED", d, old) /\ extFiles' \subseteq extFiles
      BY <1>1, <1>3, <1>7 DEF Ext!StoreFails
    <2>2. QED
      BY <1>1, <1>2, <1>3, <1>4, <2>1, SettleKeepsDocumentTyping
  <1>8. CASE Ext!DownloadFails(w)
    <2>1. PICK status \in {"REJECTED", "FAILED"} : Ext!Settle(w, status, d, old) /\ UNCHANGED extFiles
      BY <1>1, <1>3, <1>8 DEF Ext!DownloadFails
    <2>2. QED
      BY <1>1, <1>2, <1>3, <1>4, <2>1, SettleKeepsDocumentTyping
  <1>9. QED
    BY <1>5, <1>6, <1>7, <1>8

LEMMA NextDocumentTyping == ExtInv /\ DocumentTyping /\ [Ext!Next]_(Ext!vars) => DocumentTyping'
  <1> SUFFICES ASSUME ExtInv, DocumentTyping, [Ext!Next]_(Ext!vars) PROVE DocumentTyping'
    OBVIOUS
  <1>1. CASE UNCHANGED Ext!vars \/ Ext!SourceChanges \/ \E discover \in BOOLEAN : Ext!EnqueueSync(discover)
    <2>1. UNCHANGED <<extDocuments, extDownloads, extFiles, extWorker>>
      BY <1>1 DEF Ext!vars, Ext!SourceChanges, Ext!EnqueueSync
    <2>2. QED
      BY <2>1, SameRowsKeepTyping DEF DocumentTyping
  <1>2. CASE \E d \in Ext!Docs : Ext!EnqueueDownload(d)
    BY <1>2, EnqueueKeepsDocumentTyping
  <1>3. ASSUME NEW w \in Workers, Ext!WorkerStep(w) \/ Ext!Crash(w) PROVE DocumentTyping'
    BY <1>3, SyncsKeepDocumentTyping, PersistKeepsDocumentTyping, ClaimKeepsDocumentTyping,
       DownloadsKeepDocumentTyping DEF Ext!WorkerStep
  <1>4. QED
    BY <1>1, <1>2, <1>3 DEF Ext!Next

LEMMA DocumentRows == Ext!Spec => [](ExtInv /\ SyncTyping /\ DocumentTyping)
  <1>1. Ext!Init => SyncTyping /\ DocumentTyping
    <2> SUFFICES ASSUME Ext!Init PROVE SyncTyping /\ DocumentTyping
      OBVIOUS
    <2>1. IsSequence(<<>>)
      BY DEF IsSequence
    <2>2. PICK date, content :
             /\ date \in MaybeDates
             /\ extSource = [closing |-> date, listed |-> Ext!Docs, supported |-> Ext!Docs, content |-> content]
      BY DEF Ext!Init, MaybeDates
    <2>3. extSource.closing \in MaybeDates
      BY <2>2
    <2>4. DOMAIN extProcess = {"closing"} /\ extProcess.closing \in MaybeDates
      BY <2>3 DEF Ext!Init
    <2>5. \A w \in Workers : AnswerOK(extWorker[w]) /\ LoadedOK(extWorker[w])
      BY DEF Ext!Init, AnswerOK, LoadedOK, Ext!Idle
    <2>6. extSyncs = <<>> /\ DOMAIN extSyncs = {}
      BY DEF Ext!Init
    <2>7. SyncTyping
      BY <2>1, <2>3, <2>4, <2>5, <2>6 DEF SyncTyping, Ext!KnownClosingStays
    <2>8. extDownloads = <<>> /\ DOMAIN extDownloads = {} /\ extFiles = {}
      BY DEF Ext!Init
    <2>9. \A d \in Ext!Docs : extDocuments[d] = Null
      BY DEF Ext!Init
    <2>10. DocumentTyping
      BY <2>5, <2>8, <2>9 DEF DocumentTyping
    <2>11. QED
      BY <2>7, <2>10
  <1>2. QED
    BY <1>1, ExtInvariant, NextSyncTyping, NextDocumentTyping, PTL DEF Ext!Spec

\* What the rows of public documents hold: every status is one that the code has, every download
\* is of a document of the process, and every file is the file of a download.
THEOREM DocumentsTyping == Ext!Spec => []Ext!TypeOK
  <1>1. ExtInv /\ SyncTyping /\ DocumentTyping => Ext!TypeOK
    BY DEF ExtInv, ExtRows, SyncTyping, SyncOK, DocumentTyping, StatusOK, MaybeDates, Ext!TypeOK
  <1>2. QED
    BY <1>1, DocumentRows, PTL

\* docs/secop-incremental-updates.md: a closing date that a synchronisation has told stays
\* known to the process, whatever later ones leave out and however many of them fail.
THEOREM KnownClosingIsKept == Ext!Spec => []KnownClosingStays
  <1>1. SyncTyping => KnownClosingStays
    BY DEF SyncTyping, KnownClosingStays
  <1>2. QED
    BY <1>1, DocumentRows, PTL

-----------------------------------------------------------------------------
(* OpportunityDiscovery.  Of a result that is never edited, an assessment  *)
(* tells what its digest decides.                                          *)

\* Two sequences, one after the other.
LEMMA Joined ==
    ASSUME NEW s, IsSequence(s), NEW r, IsSequence(r)
    PROVE  /\ IsSequence(s \o r)
           /\ Len(s) \in Nat /\ Len(r) \in Nat
           /\ DOMAIN s = 1 .. Len(s) /\ DOMAIN r = 1 .. Len(r)
           /\ DOMAIN (s \o r) = 1 .. (Len(s) + Len(r))
           /\ \A n \in DOMAIN s : (s \o r)[n] = s[n]
           /\ \A n \in DOMAIN (s \o r) \ DOMAIN s : \E m \in DOMAIN r : (s \o r)[n] = r[m]
  <1>1. PICK S : s \in Seq(S)
    BY DEF IsSequence
  <1>2. PICK R : r \in Seq(R)
    BY DEF IsSequence
  <1>3. s \in Seq(S \cup R) /\ r \in Seq(S \cup R)
    BY <1>1, <1>2
  <1>4. /\ s \o r \in Seq(S \cup R)
        /\ Len(s \o r) = Len(s) + Len(r)
        /\ \A n \in 1 .. Len(s) + Len(r) : (s \o r)[n] = IF n <= Len(s) THEN s[n] ELSE r[n - Len(s)]
    BY <1>3, ConcatProperties
  <1>5. Len(s) \in Nat /\ Len(r) \in Nat /\ DOMAIN s = 1 .. Len(s) /\ DOMAIN r = 1 .. Len(r)
    BY <1>3
  <1>6. DOMAIN (s \o r) = 1 .. (Len(s) + Len(r))
    BY <1>4
  <1>7. ASSUME NEW n \in DOMAIN (s \o r) \ DOMAIN s PROVE \E m \in DOMAIN r : (s \o r)[n] = r[m]
    <2>1. n \in 1 .. (Len(s) + Len(r)) /\ ~(n <= Len(s))
      BY <1>5, <1>6, <1>7
    <2>2. n - Len(s) \in 1 .. Len(r) /\ (s \o r)[n] = r[n - Len(s)]
      BY <1>4, <1>5, <2>1
    <2>3. QED
      BY <1>5, <2>2
  <1>8. QED
    BY <1>4, <1>5, <1>6, <1>7 DEF IsSequence

\* The elements of a finite set, in some order.
LEMMA OppCardinality == ASSUME NEW S PROVE Opp!Cardinality(S) = Cardinality(S)
  BY DEF Opp!Cardinality, Cardinality

LEMMA Listed ==
    ASSUME NEW S, IsFiniteSet(S)
    PROVE  /\ IsSequence(Opp!SetToSeq(S))
           /\ \A n \in DOMAIN Opp!SetToSeq(S) : Opp!SetToSeq(S)[n] \in S
  <1>1. Cardinality(S) \in Nat /\ ExistsBijection(1 .. Cardinality(S), S)
    BY FS_CardinalityType
  <1>2. PICK f : f \in [1 .. Cardinality(S) -> S] /\ Opp!IsInjective(f)
    BY <1>1 DEF ExistsBijection, Bijection, Injection, IsInjective, Opp!IsInjective
  <1>3. PICK listed : listed = Opp!SetToSeq(S)
    OBVIOUS
  <1>4. listed \in [1 .. Cardinality(S) -> S]
    BY <1>2, <1>3, OppCardinality DEF Opp!SetToSeq
  <1>5. listed \in Seq(S)
    BY <1>1, <1>4, SeqDef
  <1>6. QED
    BY <1>3, <1>4, <1>5 DEF IsSequence

OppRunFields == {"status", "digest", "found"}
AssessmentFields == {"run", "result", "imported", "snapshot", "effective", "digest", "reviews", "told"}

OppRows ==
    /\ IsSequence(oppResults) /\ IsSequence(oppRuns) /\ IsSequence(oppAssessments)
    /\ \A x \in DOMAIN oppRuns :
          /\ DOMAIN oppRuns[x] = OppRunFields
          /\ oppRuns[x].digest.queries \in Queries
          /\ oppRuns[x].digest.candidates \subseteq DOMAIN oppResults
          /\ oppRuns[x].found \subseteq DOMAIN oppResults
    /\ \A a \in DOMAIN oppAssessments : DOMAIN oppAssessments[a] = AssessmentFields

\* Where the searches of a worker stand.
SearchingOK(r) ==
    r # Opp!Free => /\ DOMAIN r = {"run", "searched", "policy"}
                    /\ r.run \in DOMAIN oppRuns /\ r.searched \in Nat
Searching == DOMAIN oppWorker = Workers /\ \A w \in Workers : SearchingOK(oppWorker[w])

\* What an assessment tells is what its digest decides.
Told(b) ==
    b.told = Opp!Tell(b.digest.components, b.digest.completeness, b.digest.payload, b.digest.policy,
                      b.digest.effective)

OppInv == OppRows /\ Searching /\ \A a \in DOMAIN oppAssessments : Told(oppAssessments[a])

\* What an assessment says of itself: what it is of, and what its digest is made of.
LEMMA FreshAssessment ==
    ASSUME NEW b, NEW candidate, NEW snapshot, NEW release, NEW at,
           b = Opp!NewAssessment(candidate, snapshot, release, at)
    PROVE  /\ DOMAIN b = AssessmentFields /\ Told(b)
           /\ b.run = candidate.run /\ b.result = candidate.result
           /\ b.snapshot = snapshot /\ b.effective = at
           /\ b.digest.snapshot = snapshot /\ b.digest.effective = at
           /\ b.digest.policy = Policies[release].raw
           /\ b.digest.payload = oppResults[candidate.result].facts
           /\ b.digest.completeness =
                 Opp!Completeness(Company[snapshot], oppResults[candidate.result].facts)
           /\ b.digest.components =
                 Opp!Components(Company[snapshot], oppResults[candidate.result].facts,
                                Policies[release].terms)
  <1>1. PICK result, facts, raw, status, completeness, told :
           /\ result = oppResults[candidate.result] /\ facts = result.facts
           /\ raw = Policies[release].raw
           /\ status = Opp!Components(Company[snapshot], facts, Policies[release].terms)
           /\ completeness = Opp!Completeness(Company[snapshot], facts)
           /\ told = Opp!Tell(status, completeness, facts, raw, at)
    OBVIOUS
  <1>2. told.components = status /\ told.completeness = completeness
    <2>1. PICK outcome, score, urgency :
             told = [outcome |-> outcome, score |-> score, urgency |-> urgency, components |-> status,
                     completeness |-> completeness]
      BY <1>1 DEF Opp!Tell
    <2>2. QED
      BY ONLY <2>1
  <1>3. told = Opp!Assess(Company[snapshot], facts, Policies[release], at)
    BY <1>1 DEF Opp!Assess
  <1>4. PICK digest : digest = Opp!AssessmentDigest(snapshot, result, raw, at, told)
    OBVIOUS
  <1>5. digest = [snapshot |-> snapshot, policy |-> raw, process |-> result.process, payload |-> facts,
                  effective |-> at, components |-> status, completeness |-> completeness]
    BY <1>1, <1>2, <1>4 DEF Opp!AssessmentDigest
  <1>6. /\ digest.snapshot = snapshot /\ digest.policy = raw /\ digest.payload = facts
        /\ digest.effective = at /\ digest.components = status /\ digest.completeness = completeness
    BY ONLY <1>5
  <1>7. b = [run |-> candidate.run, result |-> candidate.result, imported |-> candidate.imported,
             snapshot |-> snapshot, effective |-> at, digest |-> digest, reviews |-> <<>>, told |-> told]
    BY <1>1, <1>3, <1>4 DEF Opp!NewAssessment
  <1>8. /\ DOMAIN b = AssessmentFields /\ b.digest = digest /\ b.told = told
        /\ b.run = candidate.run /\ b.result = candidate.result
        /\ b.snapshot = snapshot /\ b.effective = at
    BY ONLY <1>7 DEF AssessmentFields
  <1>9. Told(b)
    BY <1>1, <1>6, <1>8 DEF Told
  <1>10. QED
    BY <1>1, <1>6, <1>8, <1>9

\* What may be asked for.
LEMMA RequestTyped ==
    ASSUME NEW asked \in Opp!Requests
    PROVE  /\ asked.snapshot \in DOMAIN Company /\ asked.queries \in Queries
           /\ asked.candidates \subseteq DOMAIN oppResults /\ asked.effective \in Int
  <1>1. /\ asked.snapshot \in DOMAIN Company /\ asked.queries \in Queries
        /\ asked.candidates \subseteq DOMAIN oppResults
        /\ asked.effective \in {Opp!Minute(at) : at \in Times}
    BY DEF Opp!Requests
  <1>2. ASSUME NEW at \in Times PROVE Opp!Minute(at) \in Int
    BY ScreeningAssumption DEF Opp!Minute
  <1>3. QED
    BY <1>1, <1>2

\* What a run asks for.
LEMMA DigestSays ==
    ASSUME NEW asked, NEW digest, digest = Opp!Digest(asked)
    PROVE  /\ digest.snapshot = asked.snapshot /\ digest.queries = asked.queries
           /\ digest.candidates = asked.candidates /\ digest.effective = asked.effective
  BY DEF Opp!Digest

LEMMA OppInitInv == Opp!Init => OppInv
  <1> SUFFICES ASSUME Opp!Init PROVE OppInv
    OBVIOUS
  <1>1. IsSequence(<<>>)
    BY DEF IsSequence
  <1>2. OppRows
    BY <1>1 DEF Opp!Init, OppRows
  <1>3. Searching
    BY DEF Opp!Init, Searching, SearchingOK
  <1>4. QED
    BY <1>2, <1>3 DEF Opp!Init, OppInv

\* A run that is added, or that goes on, under a worker that does.
LEMMA EnqueueKeepsOppInv ==
    ASSUME OppInv, NEW asked \in Opp!Requests, NEW force, Opp!Enqueue(asked, force)
    PROVE  OppInv'
  <1>1. PICK digest : digest = Opp!Digest(asked)
    OBVIOUS
  <1>2. digest.queries \in Queries /\ digest.candidates \subseteq DOMAIN oppResults
    BY <1>1, DigestSays, RequestTyped
  <1>3. PICK run : run = [status |-> "PENDING", digest |-> digest, found |-> {}]
    OBVIOUS
  <1>4. DOMAIN run = OppRunFields /\ run.digest = digest /\ run.found = {}
    BY <1>3 DEF OppRunFields
  <1>5. /\ oppRuns' = Append(oppRuns, run)
        /\ UNCHANGED <<oppResults, oppAssessments, oppWorker>>
    BY <1>1, <1>3 DEF Opp!Enqueue, Opp!NewRun
  <1>6. IsSequence(oppRuns)
    BY DEF OppInv, OppRows
  <1>7. /\ IsSequence(oppRuns') /\ Len(oppRuns) \in Nat
        /\ DOMAIN oppRuns = 1 .. Len(oppRuns) /\ DOMAIN oppRuns' = 1 .. (Len(oppRuns) + 1)
        /\ oppRuns'[Len(oppRuns) + 1] = run
        /\ \A x \in 1 .. Len(oppRuns) : oppRuns'[x] = oppRuns[x]
    BY <1>5, <1>6, Appended
  <1>8. DOMAIN oppRuns \subseteq DOMAIN oppRuns' /\ DOMAIN oppRuns' = DOMAIN oppRuns \cup {Len(oppRuns) + 1}
    BY <1>7
  <1>9. OppRows'
    BY <1>2, <1>4, <1>5, <1>7, <1>8 DEF OppInv, OppRows
  <1>10. Searching'
    BY <1>5, <1>8 DEF OppInv, Searching, SearchingOK
  <1>11. QED
    BY <1>5, <1>9, <1>10 DEF OppInv, Told

\* Whatever becomes of the status of a run, and of the worker that had it.
LEMMA RunMovesKeepsRuns ==
    ASSUME OppInv, NEW w \in Workers, NEW x \in DOMAIN oppRuns, NEW status, NEW held,
           oppRuns' = [oppRuns EXCEPT ![x].status = status],
           oppWorker' = [oppWorker EXCEPT ![w] = held], SearchingOK(held),
           UNCHANGED oppResults
    PROVE  /\ IsSequence(oppRuns')
           /\ \A y \in DOMAIN oppRuns' :
                 /\ DOMAIN oppRuns'[y] = OppRunFields
                 /\ oppRuns'[y].digest.queries \in Queries
                 /\ oppRuns'[y].digest.candidates \subseteq DOMAIN oppResults'
                 /\ oppRuns'[y].found \subseteq DOMAIN oppResults'
           /\ Searching'
  <1>1. PICK run : run = [oppRuns[x] EXCEPT !.status = status]
    OBVIOUS
  <1>2. DOMAIN oppRuns[x] = OppRunFields
    BY DEF OppInv, OppRows
  <1>3. DOMAIN run = OppRunFields /\ run.digest = oppRuns[x].digest /\ run.found = oppRuns[x].found
    BY <1>1, <1>2 DEF OppRunFields
  <1>4. oppRuns' = [oppRuns EXCEPT ![x] = run]
    BY <1>1
  <1>5. /\ IsSequence(oppRuns') /\ DOMAIN oppRuns' = DOMAIN oppRuns
        /\ oppRuns'[x] = run /\ \A y \in DOMAIN oppRuns \ {x} : oppRuns'[y] = oppRuns[y]
    <2>1. IsSequence(oppRuns)
      BY DEF OppInv, OppRows
    <2>2. PICK replaced : replaced = [oppRuns EXCEPT ![x] = run]
      OBVIOUS
    <2>3. /\ IsSequence(replaced) /\ DOMAIN replaced = DOMAIN oppRuns
          /\ replaced[x] = run /\ \A y \in DOMAIN oppRuns \ {x} : replaced[y] = oppRuns[y]
      BY <2>1, <2>2, Replaced
    <2>4. QED
      BY <1>4, <2>2, <2>3
  <1>6. ASSUME NEW y \in DOMAIN oppRuns'
        PROVE  /\ DOMAIN oppRuns'[y] = OppRunFields
               /\ oppRuns'[y].digest.queries \in Queries
               /\ oppRuns'[y].digest.candidates \subseteq DOMAIN oppResults'
               /\ oppRuns'[y].found \subseteq DOMAIN oppResults'
    BY <1>3, <1>5 DEF OppInv, OppRows
  <1>7. Searching'
    BY <1>5 DEF OppInv, Searching, SearchingOK
  <1>8. QED
    BY <1>5, <1>6, <1>7

LEMMA SearchingIsOK ==
    /\ SearchingOK(Opp!Free)
    /\ \A x \in DOMAIN oppRuns : 
          SearchingOK([run |-> x, searched |-> 0, policy |-> oppPolicy])
  BY DEF SearchingOK

\* A claim, a failure and the end of a worker leave what was assessed as it is.
LEMMA WorkersKeepOppInv ==
    ASSUME OppInv, NEW w \in Workers, Opp!Claim(w) \/ Opp!Fail(w) \/ Opp!Crash(w)
    PROVE  OppInv'
  <1>1. CASE Opp!Claim(w)
    <2>1. PICK x \in DOMAIN oppRuns :
             /\ oppRuns' = [oppRuns EXCEPT ![x].status = "PROCESSING"]
             /\ oppWorker' = [oppWorker EXCEPT ![w] =
                                [run |-> x, searched |-> 0, policy |-> oppPolicy]]
             /\ UNCHANGED <<oppResults, oppAssessments>>
      BY <1>1 DEF Opp!Claim
    <2>2. QED
      BY <2>1, RunMovesKeepsRuns, SearchingIsOK DEF OppInv, OppRows, Told
  <1>2. CASE Opp!Fail(w)
    <2>1. PICK x : x = oppWorker[w].run
      OBVIOUS
    <2>2. x \in DOMAIN oppRuns
      BY <1>2, <2>1 DEF Opp!Fail, OppInv, Searching, SearchingOK
    <2>3. /\ oppRuns' = [oppRuns EXCEPT ![x].status = "FAILED"]
          /\ oppWorker' = [oppWorker EXCEPT ![w] = Opp!Free]
          /\ UNCHANGED <<oppResults, oppAssessments>>
      BY <1>2, <2>1 DEF Opp!Fail
    <2>4. QED
      BY <2>2, <2>3, RunMovesKeepsRuns, SearchingIsOK DEF OppInv, OppRows, Told
  <1>3. CASE Opp!Crash(w)
    <2>1. /\ oppWorker' = [oppWorker EXCEPT ![w] = Opp!Free]
          /\ UNCHANGED <<oppResults, oppAssessments, oppRuns>>
      BY <1>3 DEF Opp!Crash
    <2>2. QED
      BY <2>1, SearchingIsOK DEF OppInv, OppRows, Searching, SearchingOK, Told
  <1>4. QED
    BY <1>1, <1>2, <1>3

LEMMA SearchKeepsOppInv ==
    ASSUME OppInv, NEW w \in Workers, Opp!Search(w)
    PROVE  OppInv'
  <1>1. PICK x, searched, queries : /\ x = oppWorker[w].run /\ searched = oppWorker[w].searched
                                    /\ queries = oppRuns[x].digest.queries
    OBVIOUS
  <1>2. /\ oppWorker[w] # Opp!Free /\ searched < Len(queries)
    BY <1>1 DEF Opp!Search, Opp!RunOf
  <1>3. /\ DOMAIN oppWorker[w] = {"run", "searched", "policy"} /\ x \in DOMAIN oppRuns /\ searched \in Nat
        /\ queries \in Queries
    BY <1>1, <1>2 DEF OppInv, OppRows, Searching, SearchingOK
  <1>4. queries \in Seq(Range(queries)) /\ \A n \in DOMAIN queries : IsFiniteSet(queries[n])
    BY <1>3, ServicesAssumption
  <1>5. DOMAIN queries = 1 .. Len(queries) /\ Len(queries) \in Nat
    BY <1>4
  <1>6. searched + 1 \in DOMAIN queries
    BY <1>2, <1>3, <1>5
  <1>7. IsFiniteSet(queries[searched + 1])
    BY <1>4, <1>6
  <1>8. PICK listed : listed = Opp!SetToSeq(queries[searched + 1])
    OBVIOUS
  <1>9. IsSequence(listed)
    BY <1>7, <1>8, Listed
  <1>10. PICK new : new = [n \in DOMAIN listed |-> Opp!NewResult(listed[n])]
    OBVIOUS
  <1>11. IsSequence(new) /\ Len(new) = Len(listed) /\ Len(listed) \in Nat
    <2>1. PICK S : listed \in Seq(S)
      BY <1>9 DEF IsSequence
    <2>2. DOMAIN listed = 1 .. Len(listed) /\ Len(listed) \in Nat
      BY <2>1
    <2>3. PICK T : T = {Opp!NewResult(listed[n]) : n \in DOMAIN listed}
      OBVIOUS
    <2>4. new \in [1 .. Len(listed) -> T]
      BY <1>10, <2>2, <2>3
    <2>5. new \in Seq(T)
      BY <2>2, <2>4, SeqDef
    <2>6. Len(new) = Len(listed)
      BY <2>2, <2>4, <2>5
    <2>7. QED
      BY <2>2, <2>5, <2>6 DEF IsSequence
  <1>12. PICK more : more = (Len(oppResults) + 1) .. (Len(oppResults) + Len(listed))
    OBVIOUS
  <1>13. /\ oppResults' = oppResults \o new
         /\ oppRuns' = [oppRuns EXCEPT ![x].found = @ \cup more]
         /\ oppWorker' = [oppWorker EXCEPT ![w].searched = @ + 1]
         /\ UNCHANGED oppAssessments
    BY <1>1, <1>8, <1>10, <1>12 DEF Opp!Search, Opp!RunOf
  <1>14. /\ IsSequence(oppResults') /\ Len(oppResults) \in Nat
         /\ DOMAIN oppResults = 1 .. Len(oppResults)
         /\ DOMAIN oppResults' = 1 .. (Len(oppResults) + Len(listed))
    <2>1. IsSequence(oppResults)
      BY DEF OppInv, OppRows
    <2>2. PICK joined : joined = oppResults \o new
      OBVIOUS
    <2>3. /\ IsSequence(joined) /\ Len(oppResults) \in Nat
          /\ DOMAIN oppResults = 1 .. Len(oppResults)
          /\ DOMAIN joined = 1 .. (Len(oppResults) + Len(listed))
      <3>1. IsSequence(new)
        BY <1>11
      <3>2. /\ IsSequence(joined) /\ Len(oppResults) \in Nat
            /\ DOMAIN oppResults = 1 .. Len(oppResults)
        BY ONLY <2>1, <2>2, <3>1, Joined
      <3>3. DOMAIN joined = 1 .. (Len(oppResults) + Len(new))
        BY ONLY <2>1, <2>2, <3>1, Joined
      <3>4. QED
        BY <1>11, <3>2, <3>3
    <2>4. QED
      BY <1>13, <2>2, <2>3
  <1>15. DOMAIN oppResults \subseteq DOMAIN oppResults' /\ more \subseteq DOMAIN oppResults'
    BY <1>11, <1>12, <1>14
  <1>16. PICK run : run = [oppRuns[x] EXCEPT !.found = @ \cup more]
    OBVIOUS
  <1>17. DOMAIN oppRuns[x] = OppRunFields
    BY <1>3 DEF OppInv, OppRows
  <1>18. DOMAIN run = OppRunFields /\ run.digest = oppRuns[x].digest /\ run.found = oppRuns[x].found \cup more
    BY <1>16, <1>17 DEF OppRunFields
  <1>19. oppRuns' = [oppRuns EXCEPT ![x] = run]
    BY <1>13, <1>16
  <1>20. /\ IsSequence(oppRuns') /\ DOMAIN oppRuns' = DOMAIN oppRuns
         /\ oppRuns'[x] = run /\ \A y \in DOMAIN oppRuns \ {x} : oppRuns'[y] = oppRuns[y]
    BY <1>3, <1>19, Replaced DEF OppInv, OppRows
  <1>21. ASSUME NEW y \in DOMAIN oppRuns'
         PROVE  /\ DOMAIN oppRuns'[y] = OppRunFields
                /\ oppRuns'[y].digest.queries \in Queries
                /\ oppRuns'[y].digest.candidates \subseteq DOMAIN oppResults'
                /\ oppRuns'[y].found \subseteq DOMAIN oppResults'
    BY <1>3, <1>15, <1>18, <1>20 DEF OppInv, OppRows
  <1>22. OppRows'
    BY <1>13, <1>14, <1>20, <1>21 DEF OppInv, OppRows
  <1>23. PICK held : held = [oppWorker[w] EXCEPT !.searched = @ + 1]
    OBVIOUS
  <1>24. DOMAIN held = {"run", "searched", "policy"} /\ held.run = x /\ held.searched = searched + 1
    BY <1>1, <1>3, <1>23
  <1>25. SearchingOK(held)
    BY <1>3, <1>24 DEF SearchingOK
  <1>26. oppWorker' = [oppWorker EXCEPT ![w] = held]
    BY <1>13, <1>23
  <1>27. Searching'
    BY <1>20, <1>25, <1>26 DEF OppInv, Searching, SearchingOK
  <1>28. QED
    BY <1>13, <1>22, <1>27 DEF OppInv, Told

\* The end of a run: what was asked for or found is assessed anew, beside what was, under the
\* policy that the worker has loaded, which is the one of the run.
LEMMA CompleteAssesses ==
    ASSUME OppInv, NEW w \in Workers, Opp!Complete(w)
    PROVE  \E x \in DOMAIN oppRuns :
              /\ oppRuns' = [oppRuns EXCEPT ![x].status = "COMPLETED"]
              /\ oppWorker' = [oppWorker EXCEPT ![w] = Opp!Free] /\ oppWorker[w] # Opp!Free
              /\ UNCHANGED <<oppNow, oppSource, oppPolicy, oppResults>>
              /\ Policies[oppWorker[w].policy].raw = oppRuns[x].digest.policy
              /\ IsSequence(oppAssessments')
              /\ DOMAIN oppAssessments \subseteq DOMAIN oppAssessments'
              /\ \A a \in DOMAIN oppAssessments : oppAssessments'[a] = oppAssessments[a]
              /\ \A a \in DOMAIN oppAssessments' \ DOMAIN oppAssessments :
                    \E n \in DOMAIN oppResults :
                       oppAssessments'[a] =
                          Opp!NewAssessment(Opp!NewCandidate(x, n), oppRuns[x].digest.snapshot,
                                            oppWorker[w].policy, oppRuns[x].digest.effective)
  <1>1. PICK x, S, found, release :
           /\ x = oppWorker[w].run /\ S = oppRuns[x].digest.candidates \cup oppRuns[x].found
           /\ found = Opp!SetToSeq(S) /\ release = oppWorker[w].policy
    OBVIOUS
  <1>2. x \in DOMAIN oppRuns /\ oppWorker[w] # Opp!Free
    BY <1>1 DEF Opp!Complete, OppInv, Searching, SearchingOK
  <1>3. IsFiniteSet(S) /\ S \subseteq DOMAIN oppResults
    <2>1. PICK T : oppResults \in Seq(T)
      BY DEF OppInv, OppRows, IsSequence
    <2>2. DOMAIN oppResults = 1 .. Len(oppResults) /\ Len(oppResults) \in Nat
      BY <2>1
    <2>3. S \subseteq DOMAIN oppResults
      BY <1>1, <1>2 DEF OppInv, OppRows
    <2>4. IsFiniteSet(DOMAIN oppResults)
      BY <2>2, FS_Interval
    <2>5. QED
      BY <2>3, <2>4, FS_Subset
  <1>4. IsSequence(found) /\ \A n \in DOMAIN found : found[n] \in DOMAIN oppResults
    <2>1. IsSequence(Opp!SetToSeq(S))
      BY <1>3, Listed
    <2>2. \A n \in DOMAIN Opp!SetToSeq(S) : Opp!SetToSeq(S)[n] \in S
      BY <1>3, Listed
    <2>3. QED
      BY <1>1, <1>3, <2>1, <2>2
  <1>5. PICK new :
           new = [n \in DOMAIN found |-> Opp!NewAssessment(Opp!NewCandidate(x, found[n]),
                     oppRuns[x].digest.snapshot, release, oppRuns[x].digest.effective)]
    OBVIOUS
  <1>6. IsSequence(new)
    <2>1. PICK T : found \in Seq(T)
      BY <1>4 DEF IsSequence
    <2>2. DOMAIN found = 1 .. Len(found) /\ Len(found) \in Nat
      BY <2>1
    <2>3. PICK U : U = {new[n] : n \in DOMAIN found}
      OBVIOUS
    <2>4. new \in [1 .. Len(found) -> U]
      BY <1>5, <2>2, <2>3
    <2>5. new \in Seq(U)
      BY <2>2, <2>4, SeqDef
    <2>6. QED
      BY <2>5 DEF IsSequence
  <1>7. /\ oppAssessments' = oppAssessments \o new
        /\ oppRuns' = [oppRuns EXCEPT ![x].status = "COMPLETED"]
        /\ oppWorker' = [oppWorker EXCEPT ![w] = Opp!Free]
        /\ UNCHANGED <<oppNow, oppSource, oppPolicy, oppResults>>
        /\ Policies[release].raw = oppRuns[x].digest.policy
    BY <1>1, <1>5 DEF Opp!Complete, Opp!Screened, Opp!RunOf, Opp!SamePolicy
  <1>8. IsSequence(oppAssessments)
    BY DEF OppInv, OppRows
  <1>9. PICK joined : joined = oppAssessments \o new
    OBVIOUS
  <1>10. /\ IsSequence(joined) /\ \A n \in DOMAIN oppAssessments : joined[n] = oppAssessments[n]
         /\ DOMAIN oppAssessments \subseteq DOMAIN joined
    <2>1. /\ IsSequence(joined) /\ \A n \in DOMAIN oppAssessments : joined[n] = oppAssessments[n]
          /\ Len(oppAssessments) \in Nat /\ Len(new) \in Nat
          /\ DOMAIN oppAssessments = 1 .. Len(oppAssessments)
          /\ DOMAIN joined = 1 .. (Len(oppAssessments) + Len(new))
      BY ONLY <1>6, <1>8, <1>9, Joined
    <2>2. QED
      BY <2>1
  <1>11. \A n \in DOMAIN joined \ DOMAIN oppAssessments : \E m \in DOMAIN new : joined[n] = new[m]
    <2>1. \A n \in DOMAIN (oppAssessments \o new) \ DOMAIN oppAssessments :
             \E m \in DOMAIN new : (oppAssessments \o new)[n] = new[m]
      BY ONLY <1>6, <1>8, Joined, Zenon
    <2>2. QED
      BY <1>9, <2>1
  <1>12. ASSUME NEW a \in DOMAIN joined \ DOMAIN oppAssessments
         PROVE  \E n \in DOMAIN oppResults :
                   joined[a] = Opp!NewAssessment(Opp!NewCandidate(x, n), oppRuns[x].digest.snapshot,
                                  release, oppRuns[x].digest.effective)
    BY <1>4, <1>5, <1>11
  <1>13. QED
    BY <1>1, <1>2, <1>7, <1>9, <1>10, <1>12

LEMMA CompleteKeepsOppInv ==
    ASSUME OppInv, NEW w \in Workers, Opp!Complete(w)
    PROVE  OppInv'
  <1>1. PICK x \in DOMAIN oppRuns :
           /\ oppRuns' = [oppRuns EXCEPT ![x].status = "COMPLETED"]
           /\ oppWorker' = [oppWorker EXCEPT ![w] = Opp!Free] /\ UNCHANGED oppResults
           /\ IsSequence(oppAssessments')
           /\ \A a \in DOMAIN oppAssessments : oppAssessments'[a] = oppAssessments[a]
           /\ \A a \in DOMAIN oppAssessments' \ DOMAIN oppAssessments :
                 \E n \in DOMAIN oppResults :
                    oppAssessments'[a] =
                       Opp!NewAssessment(Opp!NewCandidate(x, n), oppRuns[x].digest.snapshot,
                                         oppWorker[w].policy, oppRuns[x].digest.effective)
    BY CompleteAssesses
  <1>2. ASSUME NEW a \in DOMAIN oppAssessments'
        PROVE  DOMAIN oppAssessments'[a] = AssessmentFields /\ Told(oppAssessments'[a])
    <2>1. CASE a \in DOMAIN oppAssessments
      BY <1>1, <2>1 DEF OppInv, OppRows
    <2>2. CASE a \notin DOMAIN oppAssessments
      <3>1. PICK b, n : /\ b = oppAssessments'[a]
                        /\ b = Opp!NewAssessment(Opp!NewCandidate(x, n), oppRuns[x].digest.snapshot,
                                                 oppWorker[w].policy, oppRuns[x].digest.effective)
        BY <1>1, <2>2
      <3>2. DOMAIN b = AssessmentFields /\ Told(b)
        BY <3>1, FreshAssessment
      <3>3. QED
        BY <3>1, <3>2
    <2>3. QED
      BY <2>1, <2>2
  <1>3. QED
    BY <1>1, <1>2, RunMovesKeepsRuns, SearchingIsOK DEF OppInv, OppRows, Told

LEMMA ReassessKeepsOppInv ==
    ASSUME OppInv, NEW a \in DOMAIN oppAssessments, Opp!Reassess(a)
    PROVE  OppInv'
  <1>1. PICK b : b = Opp!NewAssessment(Opp!CandidateOf(a), oppAssessments[a].snapshot, oppPolicy, oppNow)
    OBVIOUS
  <1>2. DOMAIN b = AssessmentFields /\ Told(b)
    BY <1>1, FreshAssessment
  <1>3. oppAssessments' = Append(oppAssessments, b) /\ UNCHANGED <<oppResults, oppRuns, oppWorker>>
    BY <1>1 DEF Opp!Reassess
  <1>4. /\ IsSequence(oppAssessments') /\ Len(oppAssessments) \in Nat
        /\ DOMAIN oppAssessments = 1 .. Len(oppAssessments)
        /\ DOMAIN oppAssessments' = 1 .. (Len(oppAssessments) + 1)
        /\ oppAssessments'[Len(oppAssessments) + 1] = b
        /\ \A n \in 1 .. Len(oppAssessments) : oppAssessments'[n] = oppAssessments[n]
    BY <1>3, Appended DEF OppInv, OppRows
  <1>5. ASSUME NEW n \in DOMAIN oppAssessments'
        PROVE  DOMAIN oppAssessments'[n] = AssessmentFields /\ Told(oppAssessments'[n])
    BY <1>2, <1>4 DEF OppInv, OppRows
  <1>6. QED
    BY <1>3, <1>4, <1>5 DEF OppInv, OppRows, Searching, SearchingOK, Told

\* A review and an import are told beside what was assessed.
LEMMA NotesKeepOppInv ==
    ASSUME OppInv, UNCHANGED <<oppResults, oppRuns, oppWorker>>,
           IsSequence(oppAssessments'), DOMAIN oppAssessments' = DOMAIN oppAssessments,
           \A a \in DOMAIN oppAssessments :
              /\ DOMAIN oppAssessments'[a] = DOMAIN oppAssessments[a]
              /\ oppAssessments'[a].digest = oppAssessments[a].digest
              /\ oppAssessments'[a].told = oppAssessments[a].told
    PROVE  OppInv'
  <1>1. OppRows'
    BY DEF OppInv, OppRows
  <1>2. Searching'
    BY DEF OppInv, Searching, SearchingOK
  <1>3. QED
    BY <1>1, <1>2 DEF OppInv, Told

LEMMA ReviewKeepsOppInv ==
    ASSUME OppInv, NEW a \in DOMAIN oppAssessments, NEW action, Opp!Review(a, action)
    PROVE  OppInv'
  <1>1. PICK reviews : reviews = Append(oppAssessments[a].reviews, Opp!NewReview(action, oppAssessments[a].reviews))
    OBVIOUS
  <1>2. PICK b : b = [oppAssessments[a] EXCEPT !.reviews = reviews]
    OBVIOUS
  <1>3. oppAssessments' = [oppAssessments EXCEPT ![a] = b] /\ UNCHANGED <<oppResults, oppRuns, oppWorker>>
    BY <1>1, <1>2 DEF Opp!Review
  <1>4. DOMAIN oppAssessments[a] = AssessmentFields
    BY DEF OppInv, OppRows
  <1>5. /\ DOMAIN b = DOMAIN oppAssessments[a]
        /\ b.digest = oppAssessments[a].digest /\ b.told = oppAssessments[a].told
    BY <1>2, <1>4 DEF AssessmentFields
  <1>6. /\ IsSequence(oppAssessments') /\ DOMAIN oppAssessments' = DOMAIN oppAssessments
        /\ oppAssessments'[a] = b
        /\ \A n \in DOMAIN oppAssessments \ {a} : oppAssessments'[n] = oppAssessments[n]
    BY <1>3, Replaced DEF OppInv, OppRows
  <1>7. QED
    BY <1>3, <1>5, <1>6, NotesKeepOppInv

LEMMA AssignKeepsOppInv ==
    ASSUME OppInv, NEW c, Opp!Assign(c)
    PROVE  OppInv'
  <1>1. PICK chosen : chosen = oppRequest[c].assessment
    OBVIOUS
  <1>2. /\ oppAssessments' =
              [a \in DOMAIN oppAssessments |->
                 IF /\ oppAssessments[a].run = oppAssessments[chosen].run
                    /\ oppAssessments[a].result = oppAssessments[chosen].result
                 THEN [oppAssessments[a] EXCEPT !.imported = TRUE] ELSE oppAssessments[a]]
        /\ UNCHANGED <<oppResults, oppRuns, oppWorker>>
    BY <1>1 DEF Opp!Assign
  <1>3. DOMAIN oppAssessments' = DOMAIN oppAssessments
    BY <1>2
  <1>4. ASSUME NEW a \in DOMAIN oppAssessments
        PROVE  /\ DOMAIN oppAssessments'[a] = DOMAIN oppAssessments[a]
               /\ oppAssessments'[a].digest = oppAssessments[a].digest
               /\ oppAssessments'[a].told = oppAssessments[a].told
    <2>1. PICK b : b = [oppAssessments[a] EXCEPT !.imported = TRUE]
      OBVIOUS
    <2>2. DOMAIN oppAssessments[a] = AssessmentFields
      BY DEF OppInv, OppRows
    <2>3. /\ DOMAIN b = DOMAIN oppAssessments[a]
          /\ b.digest = oppAssessments[a].digest /\ b.told = oppAssessments[a].told
      BY <2>1, <2>2 DEF AssessmentFields
    <2>4. oppAssessments'[a] = b \/ oppAssessments'[a] = oppAssessments[a]
      BY <1>2, <2>1
    <2>5. QED
      BY <2>3, <2>4
  <1>5. IsSequence(oppAssessments')
    <2>1. PICK S : oppAssessments \in Seq(S)
      BY DEF OppInv, OppRows, IsSequence
    <2>2. DOMAIN oppAssessments = 1 .. Len(oppAssessments) /\ Len(oppAssessments) \in Nat
      BY <2>1
    <2>3. PICK new, T : new = oppAssessments' /\ T = {new[n] : n \in DOMAIN oppAssessments}
      OBVIOUS
    <2>4. new \in [1 .. Len(oppAssessments) -> T]
      BY <1>2, <2>2, <2>3
    <2>5. new \in Seq(T)
      BY <2>2, <2>4, SeqDef
    <2>6. QED
      BY <2>3, <2>5 DEF IsSequence
  <1>6. QED
    BY <1>2, <1>3, <1>4, <1>5, NotesKeepOppInv

LEMMA OthersKeepOppInv ==
    ASSUME OppInv, UNCHANGED <<oppResults, oppRuns, oppAssessments, oppWorker>>
    PROVE  OppInv'
  BY NotesKeepOppInv DEF OppInv, OppRows

LEMMA OppNextInv == OppInv /\ [Opp!Next]_(Opp!vars) => OppInv'
  <1> SUFFICES ASSUME OppInv, [Opp!Next]_(Opp!vars) PROVE OppInv'
    OBVIOUS
  <1>1. CASE UNCHANGED <<oppResults, oppRuns, oppAssessments, oppWorker>>
    BY <1>1, OthersKeepOppInv
  <1>2. CASE \E asked \in Opp!Requests, force \in BOOLEAN : Opp!Enqueue(asked, force)
    BY <1>2, EnqueueKeepsOppInv
  <1>3. CASE \E w \in Workers : Opp!Claim(w) \/ Opp!Fail(w) \/ Opp!Crash(w)
    BY <1>3, WorkersKeepOppInv
  <1>4. CASE \E w \in Workers : Opp!Search(w) \/ Opp!Complete(w)
    BY <1>4, SearchKeepsOppInv, CompleteKeepsOppInv
  <1>5. CASE \E a \in DOMAIN oppAssessments : Opp!Reassess(a) \/ \E action \in Actions : Opp!Review(a, action)
    BY <1>5, ReassessKeepsOppInv, ReviewKeepsOppInv
  <1>6. CASE \E c \in Clients : Opp!Assign(c)
    BY <1>6, AssignKeepsOppInv
  <1>7. ASSUME Opp!SourceChanges \/ Opp!Deploy \/ Opp!Tick \/ UNCHANGED Opp!vars
        PROVE  UNCHANGED <<oppResults, oppRuns, oppAssessments, oppWorker>>
    BY <1>7 DEF Opp!SourceChanges, Opp!Deploy, Opp!Tick, Opp!vars
  <1>8. ASSUME NEW c \in Clients,
               \/ \E a \in DOMAIN oppAssessments : Opp!BeginImport(c, a)
               \/ Opp!CommitImport(c) \/ Opp!ImportRefused(c)
        PROVE  UNCHANGED <<oppResults, oppRuns, oppAssessments, oppWorker>>
    BY <1>8 DEF Opp!BeginImport, Opp!CommitImport, Opp!ImportRefused
  <1>9. QED
    BY <1>1, <1>2, <1>3, <1>4, <1>5, <1>6, <1>7, <1>8 DEF Opp!Next, Opp!WorkerStep

LEMMA OppInvariant == Opp!Spec => []OppInv
  BY OppInitInv, OppNextInv, PTL DEF Opp!Spec

\* Assessments with one digest tell the same, whenever they were made: by a run or anew, of one
\* result or of two, under whatever releases and dates, and whatever the source has published
\* since.
THEOREM AssessmentDigestDecides == Opp!Spec => []Opp!SameDigestSameOutcome
  <1>1. OppInv => Opp!SameDigestSameOutcome
    BY DEF OppInv, Told, Opp!SameDigestSameOutcome
  <1>2. QED
    BY <1>1, OppInvariant, PTL

-----------------------------------------------------------------------------
(* The rows of OpportunityDiscovery stay well formed.                      *)

\* An assessment is one of the outcomes, of a result and a run that are there.
AssessmentTyped(b) ==
    b.told.outcome \in Opp!Outcome /\ b.result \in DOMAIN oppResults /\ b.run \in DOMAIN oppRuns

OppTyping ==
    /\ \A x \in DOMAIN oppRuns : oppRuns[x].status \in Opp!RunStatus
    /\ \A a \in DOMAIN oppAssessments : AssessmentTyped(oppAssessments[a])

\* Every screening ends in an outcome of the policy.
LEMMA AssessedOutcome ==
    ASSUME NEW status, NEW completeness, NEW process, NEW raw, NEW at
    PROVE  Opp!Tell(status, completeness, process, raw, at).outcome \in Opp!Outcome
  <1>1. PICK urgency : urgency = Opp!Urgency(process, raw, at)
    OBVIOUS
  <1>2. Opp!OutcomeOf(status, completeness, urgency, raw) \in Opp!Outcome
    BY DEF Opp!OutcomeOf, Opp!Outcome
  <1>3. QED
    BY <1>1, <1>2 DEF Opp!Tell

\* A step that adds runs or results, moves runs, and assesses what is there.
LEMMA MovesKeepOppTyping ==
    ASSUME OppInv, OppTyping, OppInv',
           DOMAIN oppResults \subseteq DOMAIN oppResults', DOMAIN oppRuns \subseteq DOMAIN oppRuns',
           \A x \in DOMAIN oppRuns' :
              \/ oppRuns'[x].status \in Opp!RunStatus
              \/ x \in DOMAIN oppRuns /\ oppRuns'[x].status = oppRuns[x].status,
           \A a \in DOMAIN oppAssessments' :
              \/ \E b \in DOMAIN oppAssessments :
                    /\ oppAssessments'[a].told = oppAssessments[b].told
                    /\ oppAssessments'[a].result = oppAssessments[b].result
                    /\ oppAssessments'[a].run = oppAssessments[b].run
              \/ /\ oppAssessments'[a].result \in DOMAIN oppResults
                 /\ oppAssessments'[a].run \in DOMAIN oppRuns
    PROVE  OppTyping'
  <1>1. \A x \in DOMAIN oppRuns' : oppRuns'[x].status \in Opp!RunStatus
    BY DEF OppTyping
  <1>2. ASSUME NEW a \in DOMAIN oppAssessments' PROVE AssessmentTyped(oppAssessments[a])'
    <2>1. oppAssessments'[a].result \in DOMAIN oppResults' /\ oppAssessments'[a].run \in DOMAIN oppRuns'
      BY DEF OppTyping, AssessmentTyped
    <2>2. PICK b : b = oppAssessments'[a] /\ Told(b)
      BY DEF OppInv, Told
    <2>3. b.told.outcome \in Opp!Outcome
      BY <2>2, AssessedOutcome DEF Told
    <2>4. QED
      BY <2>1, <2>2, <2>3 DEF AssessmentTyped
  <1>3. QED
    BY <1>1, <1>2 DEF OppTyping

\* A worker that moves its run.
LEMMA RunMovesKeepTyping ==
    ASSUME OppInv, OppTyping, OppInv', NEW x \in DOMAIN oppRuns, NEW run, DOMAIN oppResults \subseteq DOMAIN oppResults',
           oppRuns' = [oppRuns EXCEPT ![x] = run],
           run.status \in Opp!RunStatus \/ run.status = oppRuns[x].status,
           \A a \in DOMAIN oppAssessments' :
              \/ a \in DOMAIN oppAssessments /\ oppAssessments'[a] = oppAssessments[a]
              \/ /\ oppAssessments'[a].result \in DOMAIN oppResults
                 /\ oppAssessments'[a].run \in DOMAIN oppRuns
    PROVE  OppTyping'
  <1>1. /\ DOMAIN oppRuns' = DOMAIN oppRuns /\ oppRuns'[x] = run
        /\ \A y \in DOMAIN oppRuns \ {x} : oppRuns'[y] = oppRuns[y]
    <2>1. IsSequence(oppRuns)
      BY DEF OppInv, OppRows
    <2>2. QED
      BY ONLY <2>1, Replaced, x \in DOMAIN oppRuns, oppRuns' = [oppRuns EXCEPT ![x] = run]
  <1>2. \A y \in DOMAIN oppRuns' : \/ oppRuns'[y].status \in Opp!RunStatus
                                   \/ y \in DOMAIN oppRuns /\ oppRuns'[y].status = oppRuns[y].status
    BY <1>1
  <1>3. QED
    BY <1>1, <1>2, MovesKeepOppTyping

LEMMA EnqueueKeepsOppTyping ==
    ASSUME OppInv, OppTyping, OppInv', NEW asked, NEW force, Opp!Enqueue(asked, force)
    PROVE  OppTyping'
  <1>1. PICK digest, run : /\ run = [status |-> "PENDING", digest |-> digest, found |-> {}]
                           /\ oppRuns' = Append(oppRuns, run)
    BY DEF Opp!Enqueue, Opp!NewRun
  <1>2. run.status \in Opp!RunStatus
    BY <1>1 DEF Opp!RunStatus
  <1>3. /\ Len(oppRuns) \in Nat
        /\ DOMAIN oppRuns = 1 .. Len(oppRuns) /\ DOMAIN oppRuns' = 1 .. (Len(oppRuns) + 1)
        /\ oppRuns'[Len(oppRuns) + 1] = run
        /\ \A x \in 1 .. Len(oppRuns) : oppRuns'[x] = oppRuns[x]
    BY <1>1, Appended DEF OppInv, OppRows
  <1>4. /\ DOMAIN oppRuns \subseteq DOMAIN oppRuns'
        /\ \A x \in DOMAIN oppRuns' : \/ oppRuns'[x].status \in Opp!RunStatus
                                      \/ x \in DOMAIN oppRuns /\ oppRuns'[x].status = oppRuns[x].status
    BY <1>2, <1>3
  <1>5. UNCHANGED <<oppResults, oppAssessments>>
    BY DEF Opp!Enqueue
  <1>6. QED
    BY <1>4, <1>5, MovesKeepOppTyping

LEMMA WorkersKeepOppTyping ==
    ASSUME OppInv, OppTyping, OppInv', NEW w \in Workers,
           Opp!Claim(w) \/ Opp!Search(w) \/ Opp!Fail(w) \/ Opp!Crash(w)
    PROVE  OppTyping'
  <1>1. {"PROCESSING", "FAILED"} \subseteq Opp!RunStatus
    BY DEF Opp!RunStatus
  <1>2. UNCHANGED oppAssessments
    BY DEF Opp!Claim, Opp!Search, Opp!Fail, Opp!Crash
  <1>3. DOMAIN oppResults \subseteq DOMAIN oppResults'
    <2>1. CASE Opp!Search(w)
      <3>1. PICK x, searched, queries : /\ x = oppWorker[w].run /\ searched = oppWorker[w].searched
                                        /\ queries = oppRuns[x].digest.queries
        OBVIOUS
      <3>2. PICK new, listed : /\ listed = Opp!SetToSeq(queries[searched + 1])
                               /\ new = [n \in DOMAIN listed |-> Opp!NewResult(listed[n])]
                               /\ oppResults' = oppResults \o new
        BY <2>1, <3>1 DEF Opp!Search, Opp!RunOf
      <3>3. PICK S : oppResults \in Seq(S)
        BY DEF OppInv, OppRows, IsSequence
      <3>4. IsSequence(listed)
        <4>1. /\ oppWorker[w] # Opp!Free /\ searched < Len(queries)
          BY <2>1, <3>1 DEF Opp!Search, Opp!RunOf
        <4>2. x \in DOMAIN oppRuns /\ searched \in Nat /\ queries \in Queries
          BY <3>1, <4>1 DEF OppInv, OppRows, Searching, SearchingOK
        <4>3. queries \in Seq(Range(queries)) /\ \A n \in DOMAIN queries : IsFiniteSet(queries[n])
          BY <4>2, ServicesAssumption
        <4>4. DOMAIN queries = 1 .. Len(queries) /\ Len(queries) \in Nat
          BY <4>3
        <4>5. searched + 1 \in DOMAIN queries
          BY <4>1, <4>2, <4>4
        <4>6. IsFiniteSet(queries[searched + 1])
          BY <4>3, <4>5
        <4>7. QED
          BY <3>2, <4>6, Listed
      <3>5. IsSequence(new)
        <4>1. PICK R : listed \in Seq(R)
          BY <3>4 DEF IsSequence
        <4>2. DOMAIN listed = 1 .. Len(listed) /\ Len(listed) \in Nat
          BY <4>1
        <4>3. PICK T : T = {new[n] : n \in DOMAIN listed}
          OBVIOUS
        <4>4. new \in [1 .. Len(listed) -> T]
          BY <3>2, <4>2, <4>3
        <4>5. new \in Seq(T)
          BY <4>2, <4>4, SeqDef
        <4>6. QED
          BY <4>5 DEF IsSequence
      <3>6. IsSequence(oppResults)
        BY DEF OppInv, OppRows
      <3>7. PICK joined : joined = oppResults \o new
        OBVIOUS
      <3>8. /\ Len(oppResults) \in Nat /\ Len(new) \in Nat /\ DOMAIN oppResults = 1 .. Len(oppResults)
            /\ DOMAIN joined = 1 .. (Len(oppResults) + Len(new))
        BY ONLY <3>5, <3>6, <3>7, Joined
      <3>9. DOMAIN oppResults \subseteq DOMAIN joined
        BY <3>8
      <3>10. QED
        BY <3>2, <3>7, <3>9
    <2>2. CASE UNCHANGED oppResults
      BY <2>2
    <2>3. QED
      BY <2>1, <2>2 DEF Opp!Claim, Opp!Fail, Opp!Crash
  <1>4. CASE UNCHANGED oppRuns
    BY <1>2, <1>3, <1>4, MovesKeepOppTyping
  <1>5. ASSUME NEW x \in DOMAIN oppRuns, NEW run, oppRuns' = [oppRuns EXCEPT ![x] = run],
               run.status \in Opp!RunStatus \/ run.status = oppRuns[x].status
        PROVE  OppTyping'
    BY <1>2, <1>3, <1>5, RunMovesKeepTyping
  <1>6. ASSUME Opp!Claim(w) \/ Opp!Fail(w)
        PROVE  \E x \in DOMAIN oppRuns, status \in Opp!RunStatus : oppRuns' = [oppRuns EXCEPT ![x].status = status]
    <2>1. CASE Opp!Claim(w)
      BY <1>1, <2>1 DEF Opp!Claim
    <2>2. CASE Opp!Fail(w)
      <3>1. oppWorker[w].run \in DOMAIN oppRuns
        BY <2>2 DEF Opp!Fail, OppInv, Searching, SearchingOK
      <3>2. QED
        BY <1>1, <2>2, <3>1 DEF Opp!Fail
    <2>3. QED
      BY <1>6, <2>1, <2>2
  <1>7. CASE Opp!Claim(w) \/ Opp!Fail(w)
    <2>1. PICK x \in DOMAIN oppRuns, status \in Opp!RunStatus : oppRuns' = [oppRuns EXCEPT ![x].status = status]
      BY <1>6, <1>7
    <2>2. PICK run : run = [oppRuns[x] EXCEPT !.status = status]
      OBVIOUS
    <2>3. DOMAIN oppRuns[x] = OppRunFields
      BY DEF OppInv, OppRows
    <2>4. run.status = status
      BY <2>2, <2>3 DEF OppRunFields
    <2>5. oppRuns' = [oppRuns EXCEPT ![x] = run]
      BY <2>1, <2>2
    <2>6. QED
      BY <1>5, <2>4, <2>5
  <1>8. CASE Opp!Search(w)
    <2>1. PICK x, found : /\ x = oppWorker[w].run
                          /\ oppRuns' = [oppRuns EXCEPT ![x].found = found]
      BY <1>8 DEF Opp!Search
    <2>2. x \in DOMAIN oppRuns
      BY <1>8, <2>1 DEF Opp!Search, OppInv, Searching, SearchingOK
    <2>3. PICK run : run = [oppRuns[x] EXCEPT !.found = found]
      OBVIOUS
    <2>4. DOMAIN oppRuns[x] = OppRunFields
      BY <2>2 DEF OppInv, OppRows
    <2>5. run.status = oppRuns[x].status
      BY <2>3, <2>4 DEF OppRunFields
    <2>6. oppRuns' = [oppRuns EXCEPT ![x] = run]
      BY <2>1, <2>3
    <2>7. QED
      BY <1>5, <2>2, <2>5, <2>6
  <1>9. CASE Opp!Crash(w)
    BY <1>4, <1>9 DEF Opp!Crash
  <1>10. QED
    BY <1>7, <1>8, <1>9

LEMMA CompleteKeepsOppTyping ==
    ASSUME OppInv, OppTyping, OppInv', NEW w \in Workers, Opp!Complete(w)
    PROVE  OppTyping'
  <1>1. PICK x \in DOMAIN oppRuns :
           /\ oppRuns' = [oppRuns EXCEPT ![x].status = "COMPLETED"] /\ UNCHANGED oppResults
           /\ \A a \in DOMAIN oppAssessments : oppAssessments'[a] = oppAssessments[a]
           /\ \A a \in DOMAIN oppAssessments' \ DOMAIN oppAssessments :
                 \E n \in DOMAIN oppResults :
                    oppAssessments'[a] =
                       Opp!NewAssessment(Opp!NewCandidate(x, n), oppRuns[x].digest.snapshot,
                                         oppWorker[w].policy, oppRuns[x].digest.effective)
    BY CompleteAssesses
  <1>2. ASSUME NEW a \in DOMAIN oppAssessments', a \notin DOMAIN oppAssessments
        PROVE  oppAssessments'[a].result \in DOMAIN oppResults /\ oppAssessments'[a].run \in DOMAIN oppRuns
    <2>1. PICK n \in DOMAIN oppResults :
             oppAssessments'[a] =
                Opp!NewAssessment(Opp!NewCandidate(x, n), oppRuns[x].digest.snapshot,
                                  oppWorker[w].policy, oppRuns[x].digest.effective)
      BY <1>1, <1>2
    <2>2. PICK b, candidate :
             /\ b = oppAssessments'[a] /\ candidate = Opp!NewCandidate(x, n)
             /\ b = Opp!NewAssessment(candidate, oppRuns[x].digest.snapshot, oppWorker[w].policy,
                                      oppRuns[x].digest.effective)
      BY <2>1
    <2>3. candidate.run = x /\ candidate.result = n
      BY <2>2 DEF Opp!NewCandidate
    <2>4. b.run = candidate.run /\ b.result = candidate.result
      BY <2>2, FreshAssessment
    <2>5. QED
      BY <2>2, <2>3, <2>4
  <1>3. \A a \in DOMAIN oppAssessments' :
            \/ a \in DOMAIN oppAssessments /\ oppAssessments'[a] = oppAssessments[a]
            \/ /\ oppAssessments'[a].result \in DOMAIN oppResults
               /\ oppAssessments'[a].run \in DOMAIN oppRuns
    BY <1>1, <1>2
  <1>4. PICK run : run = [oppRuns[x] EXCEPT !.status = "COMPLETED"]
    OBVIOUS
  <1>5. DOMAIN oppRuns[x] = OppRunFields
    BY DEF OppInv, OppRows
  <1>6. run.status \in Opp!RunStatus
    BY <1>4, <1>5 DEF OppRunFields, Opp!RunStatus
  <1>7. oppRuns' = [oppRuns EXCEPT ![x] = run]
    BY <1>1, <1>4
  <1>8. QED
    BY <1>1, <1>3, <1>6, <1>7, RunMovesKeepTyping

LEMMA AssessmentsKeepOppTyping ==
    ASSUME OppInv, OppTyping, OppInv', NEW a \in DOMAIN oppAssessments,
           Opp!Reassess(a) \/ \E action : Opp!Review(a, action)
    PROVE  OppTyping'
  <1>1. UNCHANGED <<oppResults, oppRuns>>
    BY DEF Opp!Reassess, Opp!Review
  <1>2. IsSequence(oppAssessments) /\ DOMAIN oppAssessments[a] = AssessmentFields
    BY DEF OppInv, OppRows
  <1>3. CASE Opp!Reassess(a)
    <2>1. PICK candidate, b : /\ candidate = Opp!CandidateOf(a)
                              /\ b = Opp!NewAssessment(candidate, oppAssessments[a].snapshot, oppPolicy, oppNow)
      OBVIOUS
    <2>2. candidate.run = oppAssessments[a].run /\ candidate.result = oppAssessments[a].result
      BY <2>1 DEF Opp!CandidateOf
    <2>3. b.run = candidate.run /\ b.result = candidate.result
      BY <2>1, FreshAssessment
    <2>4. b.run \in DOMAIN oppRuns /\ b.result \in DOMAIN oppResults
      BY <2>2, <2>3 DEF OppTyping, AssessmentTyped
    <2>5. oppAssessments' = Append(oppAssessments, b)
      BY <1>3, <2>1 DEF Opp!Reassess
    <2>6. /\ Len(oppAssessments) \in Nat /\ DOMAIN oppAssessments = 1 .. Len(oppAssessments)
          /\ DOMAIN oppAssessments' = 1 .. (Len(oppAssessments) + 1)
          /\ oppAssessments'[Len(oppAssessments) + 1] = b
          /\ \A n \in 1 .. Len(oppAssessments) : oppAssessments'[n] = oppAssessments[n]
      BY <1>2, <2>5, Appended
    <2>7. \A n \in DOMAIN oppAssessments' :
             (n \in DOMAIN oppAssessments /\ oppAssessments'[n] = oppAssessments[n]) \/ oppAssessments'[n] = b
      BY <2>6
    <2>8. QED
      BY <1>1, <2>4, <2>7, MovesKeepOppTyping
  <1>4. CASE \E action : Opp!Review(a, action)
    <2>1. PICK reviews : oppAssessments' = [oppAssessments EXCEPT ![a].reviews = reviews]
      BY <1>4 DEF Opp!Review
    <2>2. PICK b : b = [oppAssessments[a] EXCEPT !.reviews = reviews]
      OBVIOUS
    <2>3. b.told = oppAssessments[a].told /\ b.run = oppAssessments[a].run /\ b.result = oppAssessments[a].result
      BY <1>2, <2>2 DEF AssessmentFields
    <2>4. oppAssessments' = [oppAssessments EXCEPT ![a] = b]
      BY <2>1, <2>2
    <2>5. DOMAIN oppAssessments' = DOMAIN oppAssessments /\ oppAssessments'[a] = b
          /\ \A n \in DOMAIN oppAssessments \ {a} : oppAssessments'[n] = oppAssessments[n]
      BY <1>2, <2>4, Replaced
    <2>6. QED
      BY <1>1, <2>3, <2>5, MovesKeepOppTyping
  <1>5. QED
    BY <1>3, <1>4

LEMMA AssignKeepsOppTyping ==
    ASSUME OppInv, OppTyping, OppInv', NEW c, Opp!Assign(c)
    PROVE  OppTyping'
  <1>1. PICK chosen : chosen = oppRequest[c].assessment
    OBVIOUS
  <1>2. /\ oppAssessments' =
              [a \in DOMAIN oppAssessments |->
                 IF /\ oppAssessments[a].run = oppAssessments[chosen].run
                    /\ oppAssessments[a].result = oppAssessments[chosen].result
                 THEN [oppAssessments[a] EXCEPT !.imported = TRUE] ELSE oppAssessments[a]]
        /\ UNCHANGED <<oppResults, oppRuns>>
    BY <1>1 DEF Opp!Assign
  <1>3. ASSUME NEW a \in DOMAIN oppAssessments
        PROVE  /\ oppAssessments'[a].told = oppAssessments[a].told
               /\ oppAssessments'[a].result = oppAssessments[a].result
               /\ oppAssessments'[a].run = oppAssessments[a].run
    <2>1. PICK b : b = [oppAssessments[a] EXCEPT !.imported = TRUE]
      OBVIOUS
    <2>2. DOMAIN oppAssessments[a] = AssessmentFields
      BY DEF OppInv, OppRows
    <2>3. b.told = oppAssessments[a].told /\ b.result = oppAssessments[a].result /\ b.run = oppAssessments[a].run
      BY <2>1, <2>2 DEF AssessmentFields
    <2>4. oppAssessments'[a] = b \/ oppAssessments'[a] = oppAssessments[a]
      BY <1>2, <2>1
    <2>5. QED
      BY <2>3, <2>4
  <1>4. DOMAIN oppAssessments' = DOMAIN oppAssessments
    BY <1>2
  <1>5. QED
    BY <1>2, <1>3, <1>4, MovesKeepOppTyping

LEMMA NextOppTyping == OppInv /\ OppTyping /\ [Opp!Next]_(Opp!vars) => OppTyping'
  <1> SUFFICES ASSUME OppInv, OppTyping, [Opp!Next]_(Opp!vars) PROVE OppTyping'
    OBVIOUS
  <1>1. OppInv'
    BY OppNextInv
  <1>2. CASE UNCHANGED <<oppResults, oppRuns, oppAssessments>>
    BY <1>1, <1>2, MovesKeepOppTyping
  <1>3. CASE \E asked \in Opp!Requests, force \in BOOLEAN : Opp!Enqueue(asked, force)
    BY <1>1, <1>3, EnqueueKeepsOppTyping
  <1>4. ASSUME NEW w \in Workers, Opp!WorkerStep(w) \/ Opp!Crash(w) PROVE OppTyping'
    BY <1>1, <1>4, WorkersKeepOppTyping, CompleteKeepsOppTyping DEF Opp!WorkerStep
  <1>5. CASE \E a \in DOMAIN oppAssessments : Opp!Reassess(a) \/ \E action \in Actions : Opp!Review(a, action)
    BY <1>1, <1>5, AssessmentsKeepOppTyping
  <1>6. CASE \E c \in Clients : Opp!Assign(c)
    BY <1>1, <1>6, AssignKeepsOppTyping
  <1>7. ASSUME Opp!SourceChanges \/ Opp!Deploy \/ Opp!Tick \/ UNCHANGED Opp!vars
        PROVE  UNCHANGED <<oppResults, oppRuns, oppAssessments>>
    BY <1>7 DEF Opp!SourceChanges, Opp!Deploy, Opp!Tick, Opp!vars
  <1>8. ASSUME NEW c \in Clients,
               \/ \E a \in DOMAIN oppAssessments : Opp!BeginImport(c, a)
               \/ Opp!CommitImport(c) \/ Opp!ImportRefused(c)
        PROVE  UNCHANGED <<oppResults, oppRuns, oppAssessments>>
    BY <1>8 DEF Opp!BeginImport, Opp!CommitImport, Opp!ImportRefused
  <1>9. QED
    BY <1>2, <1>3, <1>4, <1>5, <1>6, <1>7, <1>8 DEF Opp!Next

\* The release that is deployed and those whose policies the workers have loaded.
Released ==
    /\ oppPolicy \in DOMAIN Policies
    /\ \A w \in Workers : oppWorker[w] # Opp!Free => oppWorker[w].policy \in DOMAIN Policies

LEMMA NextReleased == OppInv /\ Released /\ [Opp!Next]_(Opp!vars) => Released'
  <1> SUFFICES ASSUME OppInv, Released, [Opp!Next]_(Opp!vars) PROVE Released'
    OBVIOUS
  <1>1. DOMAIN oppWorker = Workers
    BY DEF OppInv, Searching
  <1>2. CASE UNCHANGED <<oppPolicy, oppWorker>>
    BY <1>2 DEF Released
  <1>3. CASE Opp!Deploy
    BY <1>3 DEF Opp!Deploy, Released
  <1>4. ASSUME NEW w \in Workers, NEW held, oppWorker' = [oppWorker EXCEPT ![w] = held], UNCHANGED oppPolicy,
               held = Opp!Free \/ held.policy \in DOMAIN Policies
        PROVE  Released'
    BY <1>1, <1>4 DEF Released
  <1>5. ASSUME NEW w \in Workers, Opp!Claim(w) PROVE Released'
    <2>1. PICK x : oppWorker' = [oppWorker EXCEPT ![w] = [run |-> x, searched |-> 0, policy |-> oppPolicy]]
      BY <1>5 DEF Opp!Claim
    <2>2. PICK held : held = [run |-> x, searched |-> 0, policy |-> oppPolicy]
      OBVIOUS
    <2>3. held.policy \in DOMAIN Policies
      BY <2>2 DEF Released
    <2>4. QED
      BY <1>4, <1>5, <2>1, <2>2, <2>3 DEF Opp!Claim
  <1>6. ASSUME NEW w \in Workers, Opp!Search(w) PROVE Released'
    <2>1. oppWorker' = [oppWorker EXCEPT ![w].searched = @ + 1] /\ oppWorker[w] # Opp!Free /\ UNCHANGED oppPolicy
      BY <1>6 DEF Opp!Search
    <2>2. PICK held : held = [oppWorker[w] EXCEPT !.searched = @ + 1]
      OBVIOUS
    <2>3. DOMAIN oppWorker[w] = {"run", "searched", "policy"}
      BY <2>1 DEF OppInv, Searching, SearchingOK
    <2>4. held.policy = oppWorker[w].policy
      BY <2>2, <2>3
    <2>5. held.policy \in DOMAIN Policies
      BY <2>1, <2>4 DEF Released
    <2>6. QED
      BY <1>4, <2>1, <2>2, <2>5
  <1>7. ASSUME NEW w \in Workers, Opp!Complete(w) \/ Opp!Fail(w) \/ Opp!Crash(w) PROVE Released'
    <2>1. oppWorker' = [oppWorker EXCEPT ![w] = Opp!Free] /\ UNCHANGED oppPolicy
      BY <1>7 DEF Opp!Complete, Opp!Fail, Opp!Crash
    <2>2. QED
      BY <1>4, <2>1
  <1>8. ASSUME \/ Opp!SourceChanges \/ Opp!Tick \/ UNCHANGED Opp!vars
               \/ \E asked \in Opp!Requests, force \in BOOLEAN : Opp!Enqueue(asked, force)
               \/ \E a \in DOMAIN oppAssessments : Opp!Reassess(a) \/ \E action \in Actions : Opp!Review(a, action)
               \/ \E c \in Clients : \/ \E a \in DOMAIN oppAssessments : Opp!BeginImport(c, a)
                                     \/ Opp!CommitImport(c) \/ Opp!Assign(c) \/ Opp!ImportRefused(c)
        PROVE  UNCHANGED <<oppPolicy, oppWorker>>
    BY <1>8 DEF Opp!SourceChanges, Opp!Tick, Opp!vars, Opp!Enqueue, Opp!Reassess, Opp!Review, Opp!BeginImport,
                Opp!CommitImport, Opp!Assign, Opp!ImportRefused
  <1>9. QED
    BY <1>2, <1>3, <1>5, <1>6, <1>7, <1>8 DEF Opp!Next, Opp!WorkerStep

LEMMA ReleasesKnown == Opp!Spec => []Released
  <1>1. Opp!Init => Released
    BY ScreeningAssumption DEF Opp!Init, Released
  <1>2. QED
    BY <1>1, OppInvariant, NextReleased, PTL DEF Opp!Spec

LEMMA OppTypingHolds == Opp!Spec => []OppTyping
  <1>1. Opp!Init => OppTyping
    BY DEF Opp!Init, OppTyping
  <1>2. QED
    BY <1>1, OppInvariant, NextOppTyping, PTL DEF Opp!Spec

\* What the rows of the discovery hold: every status and outcome is one that the code has, and
\* a run, an assessment and a worker refer to results, runs and policies that are there.
THEOREM OpportunitiesTyping == Opp!Spec => []Opp!TypeOK
  <1>1. OppInv /\ OppTyping /\ Released => Opp!TypeOK
    <2> SUFFICES ASSUME OppInv, OppTyping, Released PROVE Opp!TypeOK
      OBVIOUS
    <2>1. \A x \in DOMAIN oppRuns : /\ oppRuns[x].status \in Opp!RunStatus
                                   /\ oppRuns[x].found \cup oppRuns[x].digest.candidates \subseteq DOMAIN oppResults
      BY DEF OppInv, OppRows, OppTyping
    <2>2. \A w \in Workers : oppWorker[w] # Opp!Free => oppWorker[w].run \in DOMAIN oppRuns
      BY DEF OppInv, Searching, SearchingOK
    <2>3. QED
      BY <2>1, <2>2 DEF OppTyping, AssessmentTyped, Released, Opp!TypeOK
  <1>2. QED
    BY <1>1, OppInvariant, OppTypingHolds, ReleasesKnown, PTL

-----------------------------------------------------------------------------
(* What a run assesses is what was asked for.                              *)

AsAsked(b) ==
    /\ b.digest.snapshot = oppRuns[b.run].digest.snapshot
    /\ b.digest.policy = oppRuns[b.run].digest.policy
    /\ b.digest.effective = oppRuns[b.run].digest.effective

\* A run keeps the digest that it was queued with.
LEMMA MovedRunKeepsDigest ==
    ASSUME OppInv, NEW x \in DOMAIN oppRuns, NEW run, run.digest = oppRuns[x].digest,
           oppRuns' = [oppRuns EXCEPT ![x] = run]
    PROVE  \A y \in DOMAIN oppRuns : y \in DOMAIN oppRuns' /\ oppRuns'[y].digest = oppRuns[y].digest
  <1>1. IsSequence(oppRuns)
    BY DEF OppInv, OppRows
  <1>2. DOMAIN oppRuns' = DOMAIN oppRuns /\ oppRuns'[x] = run
        /\ \A y \in DOMAIN oppRuns \ {x} : oppRuns'[y] = oppRuns[y]
    BY ONLY <1>1, Replaced, x \in DOMAIN oppRuns, oppRuns' = [oppRuns EXCEPT ![x] = run]
  <1>3. QED
    BY <1>2

LEMMA DigestsStay ==
    ASSUME OppInv,
           \/ UNCHANGED oppRuns
           \/ \E asked \in Opp!Requests, force \in BOOLEAN : Opp!Enqueue(asked, force)
           \/ \E w \in Workers : Opp!WorkerStep(w)
    PROVE  \A x \in DOMAIN oppRuns : x \in DOMAIN oppRuns' /\ oppRuns'[x].digest = oppRuns[x].digest
  <1>1. CASE UNCHANGED oppRuns
    BY <1>1
  <1>2. CASE \E asked \in Opp!Requests, force \in BOOLEAN : Opp!Enqueue(asked, force)
    <2>1. PICK run : oppRuns' = Append(oppRuns, run)
      BY <1>2 DEF Opp!Enqueue
    <2>2. /\ Len(oppRuns) \in Nat
          /\ DOMAIN oppRuns = 1 .. Len(oppRuns) /\ DOMAIN oppRuns' = 1 .. (Len(oppRuns) + 1)
          /\ \A x \in 1 .. Len(oppRuns) : oppRuns'[x] = oppRuns[x]
      BY <2>1, Appended DEF OppInv, OppRows
    <2>3. QED
      BY <2>2
  <1>3. ASSUME NEW x \in DOMAIN oppRuns, NEW status, oppRuns' = [oppRuns EXCEPT ![x].status = status]
        PROVE  \A y \in DOMAIN oppRuns : y \in DOMAIN oppRuns' /\ oppRuns'[y].digest = oppRuns[y].digest
    <2>1. PICK run : run = [oppRuns[x] EXCEPT !.status = status]
      OBVIOUS
    <2>2. DOMAIN oppRuns[x] = OppRunFields
      BY DEF OppInv, OppRows
    <2>3. run.digest = oppRuns[x].digest
      BY <2>1, <2>2 DEF OppRunFields
    <2>4. oppRuns' = [oppRuns EXCEPT ![x] = run]
      BY <1>3, <2>1
    <2>5. QED
      BY <2>3, <2>4, MovedRunKeepsDigest
  <1>4. ASSUME NEW w \in Workers, Opp!Claim(w) \/ Opp!Fail(w) \/ Opp!Complete(w)
        PROVE  \E x \in DOMAIN oppRuns : \E status : oppRuns' = [oppRuns EXCEPT ![x].status = status]
    <2>1. CASE Opp!Claim(w)
      BY <2>1 DEF Opp!Claim
    <2>2. CASE Opp!Fail(w) \/ Opp!Complete(w)
      <3>1. oppWorker[w].run \in DOMAIN oppRuns
        BY <2>2 DEF Opp!Fail, Opp!Complete, OppInv, Searching, SearchingOK
      <3>2. QED
        BY <2>2, <3>1 DEF Opp!Fail, Opp!Complete
    <2>3. QED
      BY <1>4, <2>1, <2>2
  <1>5. ASSUME NEW w \in Workers, Opp!Search(w)
        PROVE  \A y \in DOMAIN oppRuns : y \in DOMAIN oppRuns' /\ oppRuns'[y].digest = oppRuns[y].digest
    <2>1. PICK x, found : /\ x = oppWorker[w].run
                          /\ oppRuns' = [oppRuns EXCEPT ![x].found = found]
      BY <1>5 DEF Opp!Search
    <2>2. x \in DOMAIN oppRuns
      BY <1>5, <2>1 DEF Opp!Search, OppInv, Searching, SearchingOK
    <2>3. PICK run : run = [oppRuns[x] EXCEPT !.found = found]
      OBVIOUS
    <2>4. DOMAIN oppRuns[x] = OppRunFields
      BY <2>2 DEF OppInv, OppRows
    <2>5. run.digest = oppRuns[x].digest
      BY <2>3, <2>4 DEF OppRunFields
    <2>6. oppRuns' = [oppRuns EXCEPT ![x] = run]
      BY <2>1, <2>3
    <2>7. QED
      BY <2>2, <2>5, <2>6, MovedRunKeepsDigest
  <1>6. QED
    BY <1>1, <1>2, <1>3, <1>4, <1>5 DEF Opp!WorkerStep

\* A step that leaves what was assessed and assesses what was asked for, or a candidate that has
\* an assessment.
LEMMA MovesKeepRequested ==
    ASSUME OppTyping, Opp!AssessedAsRequested,
           \A x \in DOMAIN oppRuns : x \in DOMAIN oppRuns' /\ oppRuns'[x].digest = oppRuns[x].digest,
           \A a \in DOMAIN oppAssessments :
              /\ a \in DOMAIN oppAssessments'
              /\ oppAssessments'[a].run = oppAssessments[a].run
              /\ oppAssessments'[a].result = oppAssessments[a].result
              /\ oppAssessments'[a].digest = oppAssessments[a].digest,
           \A a \in DOMAIN oppAssessments' \ DOMAIN oppAssessments :
              \/ oppAssessments'[a].run \in DOMAIN oppRuns /\ AsAsked(oppAssessments'[a])
              \/ \E b \in DOMAIN oppAssessments :
                    /\ b < a
                    /\ oppAssessments[b].run = oppAssessments'[a].run
                    /\ oppAssessments[b].result = oppAssessments'[a].result
    PROVE  Opp!AssessedAsRequested'
  <1> SUFFICES ASSUME NEW a \in DOMAIN oppAssessments', Opp!IsFirst(a)'
               PROVE  AsAsked(oppAssessments[a])'
    BY DEF AsAsked, Opp!AssessedAsRequested
  <1>1. ~\E b \in DOMAIN oppAssessments : /\ b < a
                                          /\ oppAssessments[b].run = oppAssessments'[a].run
                                          /\ oppAssessments[b].result = oppAssessments'[a].result
    BY DEF Opp!IsFirst
  <1>2. CASE a \in DOMAIN oppAssessments
    <2>1. Opp!IsFirst(a)
      BY <1>1, <1>2 DEF Opp!IsFirst
    <2>2. AsAsked(oppAssessments[a])
      BY <1>2, <2>1 DEF AsAsked, Opp!AssessedAsRequested
    <2>3. oppAssessments[a].run \in DOMAIN oppRuns
      BY <1>2 DEF OppTyping, AssessmentTyped
    <2>4. QED
      BY <1>2, <2>2, <2>3 DEF AsAsked
  <1>3. CASE a \notin DOMAIN oppAssessments
    <2>1. oppAssessments'[a].run \in DOMAIN oppRuns /\ AsAsked(oppAssessments'[a])
      BY <1>1, <1>3
    <2>2. QED
      BY <2>1 DEF AsAsked
  <1>4. QED
    BY <1>2, <1>3

LEMMA CompleteKeepsRequested ==
    ASSUME OppInv, OppTyping, Opp!AssessedAsRequested, NEW w \in Workers, Opp!Complete(w)
    PROVE  Opp!AssessedAsRequested'
  <1>1. PICK x \in DOMAIN oppRuns :
           /\ Policies[oppWorker[w].policy].raw = oppRuns[x].digest.policy
           /\ DOMAIN oppAssessments \subseteq DOMAIN oppAssessments'
           /\ \A a \in DOMAIN oppAssessments : oppAssessments'[a] = oppAssessments[a]
           /\ \A a \in DOMAIN oppAssessments' \ DOMAIN oppAssessments :
                 \E n \in DOMAIN oppResults :
                    oppAssessments'[a] =
                       Opp!NewAssessment(Opp!NewCandidate(x, n), oppRuns[x].digest.snapshot,
                                         oppWorker[w].policy, oppRuns[x].digest.effective)
    BY CompleteAssesses
  <1>2. ASSUME NEW a \in DOMAIN oppAssessments', a \notin DOMAIN oppAssessments
        PROVE  oppAssessments'[a].run \in DOMAIN oppRuns /\ AsAsked(oppAssessments'[a])
    <2>1. PICK n, candidate, b : /\ b = oppAssessments'[a] /\ candidate = Opp!NewCandidate(x, n)
                                 /\ b = Opp!NewAssessment(candidate, oppRuns[x].digest.snapshot,
                                                          oppWorker[w].policy, oppRuns[x].digest.effective)
      BY <1>1, <1>2
    <2>2. candidate.run = x
      BY <2>1 DEF Opp!NewCandidate
    <2>3. /\ b.run = candidate.run /\ b.digest.snapshot = oppRuns[x].digest.snapshot
          /\ b.digest.effective = oppRuns[x].digest.effective
          /\ b.digest.policy = Policies[oppWorker[w].policy].raw
      BY <2>1, FreshAssessment
    <2>4. QED
      BY <1>1, <2>1, <2>2, <2>3 DEF AsAsked
  <1>3. \A y \in DOMAIN oppRuns : y \in DOMAIN oppRuns' /\ oppRuns'[y].digest = oppRuns[y].digest
    BY DigestsStay DEF Opp!WorkerStep
  <1>4. QED
    BY <1>1, <1>2, <1>3, MovesKeepRequested

LEMMA ReassessKeepsRequested ==
    ASSUME OppInv, OppTyping, Opp!AssessedAsRequested, NEW a \in DOMAIN oppAssessments, Opp!Reassess(a)
    PROVE  Opp!AssessedAsRequested'
  <1>1. PICK candidate, b : /\ candidate = Opp!CandidateOf(a)
                            /\ b = Opp!NewAssessment(candidate, oppAssessments[a].snapshot, oppPolicy, oppNow)
    OBVIOUS
  <1>2. candidate.run = oppAssessments[a].run /\ candidate.result = oppAssessments[a].result
    BY <1>1 DEF Opp!CandidateOf
  <1>3. b.run = candidate.run /\ b.result = candidate.result
    BY <1>1, FreshAssessment
  <1>4. oppAssessments' = Append(oppAssessments, b) /\ UNCHANGED oppRuns
    BY <1>1 DEF Opp!Reassess
  <1>5. /\ Len(oppAssessments) \in Nat
        /\ DOMAIN oppAssessments = 1 .. Len(oppAssessments)
        /\ DOMAIN oppAssessments' = 1 .. (Len(oppAssessments) + 1)
        /\ oppAssessments'[Len(oppAssessments) + 1] = b
        /\ \A n \in 1 .. Len(oppAssessments) : oppAssessments'[n] = oppAssessments[n]
    BY <1>4, Appended DEF OppInv, OppRows
  <1>6. \A n \in DOMAIN oppAssessments' \ DOMAIN oppAssessments :
           /\ a < n
           /\ oppAssessments[a].run = oppAssessments'[n].run
           /\ oppAssessments[a].result = oppAssessments'[n].result
    BY <1>2, <1>3, <1>5
  <1>7. \A n \in DOMAIN oppAssessments : n \in DOMAIN oppAssessments' /\ oppAssessments'[n] = oppAssessments[n]
    BY <1>5
  <1>8. QED
    BY <1>4, <1>6, <1>7, MovesKeepRequested

\* Reviews and imports leave what an assessment is of.
LEMMA NotesKeepRequested ==
    ASSUME OppInv, OppTyping, Opp!AssessedAsRequested,
           \/ \E a \in DOMAIN oppAssessments, action \in Actions : Opp!Review(a, action)
           \/ \E c \in Clients : Opp!Assign(c)
    PROVE  Opp!AssessedAsRequested'
  <1>1. UNCHANGED oppRuns
    BY DEF Opp!Review, Opp!Assign
  <1>2. /\ IsSequence(oppAssessments)
        /\ \A n \in DOMAIN oppAssessments : DOMAIN oppAssessments[n] = AssessmentFields
    BY DEF OppInv, OppRows
  <1>3. CASE \E a \in DOMAIN oppAssessments, action \in Actions : Opp!Review(a, action)
    <2>1. PICK a, reviews : /\ a \in DOMAIN oppAssessments
                            /\ oppAssessments' = [oppAssessments EXCEPT ![a].reviews = reviews]
      BY <1>3 DEF Opp!Review
    <2>2. PICK b : b = [oppAssessments[a] EXCEPT !.reviews = reviews]
      OBVIOUS
    <2>3. /\ b.digest = oppAssessments[a].digest /\ b.run = oppAssessments[a].run
          /\ b.result = oppAssessments[a].result
      BY <1>2, <2>2 DEF AssessmentFields
    <2>4. oppAssessments' = [oppAssessments EXCEPT ![a] = b]
      BY <2>1, <2>2
    <2>5. DOMAIN oppAssessments' = DOMAIN oppAssessments /\ oppAssessments'[a] = b
          /\ \A n \in DOMAIN oppAssessments \ {a} : oppAssessments'[n] = oppAssessments[n]
      <3>1. a \in DOMAIN oppAssessments
        BY <2>1
      <3>2. QED
        BY ONLY <1>2, <2>4, <3>1, Replaced
    <2>6. QED
      BY <1>1, <2>3, <2>5, MovesKeepRequested
  <1>4. CASE \E c \in Clients : Opp!Assign(c)
    <2>1. PICK c, chosen :
             /\ chosen = oppRequest[c].assessment
             /\ oppAssessments' =
                   [a \in DOMAIN oppAssessments |->
                      IF /\ oppAssessments[a].run = oppAssessments[chosen].run
                         /\ oppAssessments[a].result = oppAssessments[chosen].result
                      THEN [oppAssessments[a] EXCEPT !.imported = TRUE] ELSE oppAssessments[a]]
      <3>1. PICK c \in Clients : Opp!Assign(c)
        BY <1>4
      <3>2. PICK chosen : chosen = oppRequest[c].assessment
        OBVIOUS
      <3>3. QED
        BY <3>1, <3>2 DEF Opp!Assign
    <2>2. ASSUME NEW a \in DOMAIN oppAssessments
          PROVE  /\ oppAssessments'[a].digest = oppAssessments[a].digest
                 /\ oppAssessments'[a].result = oppAssessments[a].result
                 /\ oppAssessments'[a].run = oppAssessments[a].run
      <3>1. PICK b : b = [oppAssessments[a] EXCEPT !.imported = TRUE]
        OBVIOUS
      <3>2. b.digest = oppAssessments[a].digest /\ b.result = oppAssessments[a].result /\ b.run = oppAssessments[a].run
        BY <1>2, <3>1 DEF AssessmentFields
      <3>3. oppAssessments'[a] = b \/ oppAssessments'[a] = oppAssessments[a]
        BY <2>1, <3>1
      <3>4. QED
        BY <3>2, <3>3
    <2>3. DOMAIN oppAssessments' = DOMAIN oppAssessments
      BY <2>1
    <2>4. QED
      BY <1>1, <2>2, <2>3, MovesKeepRequested
  <1>5. QED
    BY <1>3, <1>4

LEMMA NextRequested ==
    OppInv /\ OppTyping /\ Opp!AssessedAsRequested /\ [Opp!Next]_(Opp!vars) => Opp!AssessedAsRequested'
  <1> SUFFICES ASSUME OppInv, OppTyping, Opp!AssessedAsRequested, [Opp!Next]_(Opp!vars)
               PROVE  Opp!AssessedAsRequested'
    OBVIOUS
  <1>1. ASSUME UNCHANGED oppAssessments,
               \A x \in DOMAIN oppRuns : x \in DOMAIN oppRuns' /\ oppRuns'[x].digest = oppRuns[x].digest
        PROVE  Opp!AssessedAsRequested'
    BY <1>1, MovesKeepRequested
  <1>2. CASE \E asked \in Opp!Requests, force \in BOOLEAN : Opp!Enqueue(asked, force)
    <2>1. UNCHANGED oppAssessments
      BY <1>2 DEF Opp!Enqueue
    <2>2. QED
      BY <1>1, <1>2, <2>1, DigestsStay
  <1>3. ASSUME NEW w \in Workers, Opp!WorkerStep(w) PROVE Opp!AssessedAsRequested'
    <2>1. \A x \in DOMAIN oppRuns : x \in DOMAIN oppRuns' /\ oppRuns'[x].digest = oppRuns[x].digest
      BY <1>3, DigestsStay
    <2>2. CASE Opp!Complete(w)
      BY <2>2, CompleteKeepsRequested
    <2>3. CASE Opp!Claim(w) \/ Opp!Search(w) \/ Opp!Fail(w)
      <3>1. UNCHANGED oppAssessments
        BY <2>3 DEF Opp!Claim, Opp!Search, Opp!Fail
      <3>2. QED
        BY <1>1, <2>1, <3>1
    <2>4. QED
      BY <1>3, <2>2, <2>3 DEF Opp!WorkerStep
  <1>4. CASE \E a \in DOMAIN oppAssessments : Opp!Reassess(a) \/ \E action \in Actions : Opp!Review(a, action)
    BY <1>4, ReassessKeepsRequested, NotesKeepRequested
  <1>5. CASE \E c \in Clients : Opp!Assign(c)
    BY <1>5, NotesKeepRequested
  <1>6. ASSUME \/ Opp!SourceChanges \/ Opp!Deploy \/ Opp!Tick \/ UNCHANGED Opp!vars
               \/ \E w \in Workers : Opp!Crash(w)
               \/ \E c \in Clients : \/ \E a \in DOMAIN oppAssessments : Opp!BeginImport(c, a)
                                     \/ Opp!CommitImport(c) \/ Opp!ImportRefused(c)
        PROVE  UNCHANGED <<oppRuns, oppAssessments>>
    BY <1>6 DEF Opp!SourceChanges, Opp!Deploy, Opp!Tick, Opp!vars, Opp!Crash, Opp!BeginImport,
                Opp!CommitImport, Opp!ImportRefused
  <1>7. UNCHANGED <<oppRuns, oppAssessments>> => Opp!AssessedAsRequested'
    BY <1>1
  <1>8. QED
    BY <1>2, <1>3, <1>4, <1>5, <1>6, <1>7 DEF Opp!Next

\* What a run assesses is of the snapshot, under the policy and as of the minute that were asked
\* for: a worker that loaded another policy than the request's fails the run.
LEMMA RunsAssessAsRequested == Opp!Spec => []Opp!AssessedAsRequested
  <1>1. Opp!Init => Opp!AssessedAsRequested
    BY DEF Opp!Init, Opp!AssessedAsRequested
  <1>2. QED
    BY <1>1, OppInvariant, OppTypingHolds, NextRequested, PTL DEF Opp!Spec

\* Both together: an assessment's digest says under which policy, as of when and of what it was
\* made, those of a run are the run's own, and what has one digest tells one thing.
THEOREM AssessmentsKeepToDigests == Opp!Spec => []AssessmentsFollowDigests
  <1>1. Opp!SameDigestSameOutcome /\ Opp!AssessedAsRequested => AssessmentsFollowDigests
    BY DEF AssessmentsFollowDigests, Opp!AssessmentsFollowDigests
  <1>2. QED
    BY <1>1, AssessmentDigestDecides, RunsAssessAsRequested, PTL

-----------------------------------------------------------------------------
(* A process of the source is imported once.                               *)

\* The imports of a process, and the rows that they leave.
ImportsOf(p) == {n \in DOMAIN oppImports : oppImports[n] = Opp!NewImport(p, "IMPORTED")}

ImportsInv ==
    /\ IsSequence(oppImports)
    /\ \A p \in Opp!Processes : /\ IsFiniteSet(ImportsOf(p)) /\ oppLinks[p] \in {0, 1}
                                /\ Cardinality(ImportsOf(p)) = oppLinks[p]
    /\ DOMAIN oppLinks = Opp!Processes

\* A row that tells no import of p leaves the imports of p, one that tells it is another.
LEMMA ImportsAfter ==
    ASSUME ImportsInv, NEW p, NEW row, oppImports' = Append(oppImports, row)
    PROVE  /\ IsSequence(oppImports')
           /\ Len(oppImports) + 1 \notin ImportsOf(p)
           /\ ImportsOf(p)' = IF row = Opp!NewImport(p, "IMPORTED")
                              THEN ImportsOf(p) \cup {Len(oppImports) + 1} ELSE ImportsOf(p)
  <1>1. /\ IsSequence(oppImports') /\ Len(oppImports) \in Nat
        /\ DOMAIN oppImports = 1 .. Len(oppImports)
        /\ DOMAIN oppImports' = 1 .. (Len(oppImports) + 1)
        /\ oppImports'[Len(oppImports) + 1] = row
        /\ \A n \in 1 .. Len(oppImports) : oppImports'[n] = oppImports[n]
    BY Appended DEF ImportsInv
  <1>2. DOMAIN oppImports' = DOMAIN oppImports \cup {Len(oppImports) + 1} /\ Len(oppImports) + 1 \notin DOMAIN oppImports
    BY <1>1
  <1>3. PICK told : told = Opp!NewImport(p, "IMPORTED")
    OBVIOUS
  <1>4. ImportsOf(p)' = {n \in DOMAIN oppImports' : oppImports'[n] = told}
    BY <1>3 DEF ImportsOf, Opp!NewImport
  <1>5. ImportsOf(p) = {n \in DOMAIN oppImports : oppImports[n] = told}
    BY <1>3 DEF ImportsOf
  <1>6. QED
    BY <1>1, <1>2, <1>3, <1>4, <1>5

LEMMA ImportTells ==
    /\ \A p, q : Opp!NewImport(p, "IMPORTED") = Opp!NewImport(q, "IMPORTED") => p = q
    /\ \A p, q : Opp!NewImport(p, "SKIPPED_DUPLICATE") # Opp!NewImport(q, "IMPORTED")
  BY DEF Opp!NewImport

LEMMA SkippedKeepsImportsInv ==
    ASSUME ImportsInv, NEW p, oppImports' = Append(oppImports, Opp!NewImport(p, "SKIPPED_DUPLICATE")),
           UNCHANGED oppLinks
    PROVE  ImportsInv'
  <1>1. IsSequence(oppImports') /\ \A q \in Opp!Processes : ImportsOf(q)' = ImportsOf(q)
    BY ImportsAfter, ImportTells
  <1>2. QED
    BY <1>1 DEF ImportsInv

LEMMA CommitKeepsImportsInv ==
    ASSUME ImportsInv, NEW c, Opp!CommitImport(c)
    PROVE  ImportsInv'
  <1>1. PICK p : /\ oppLinks[p] = 0 /\ oppLinks' = [oppLinks EXCEPT ![p] = @ + 1]
                 /\ oppImports' = Append(oppImports, Opp!NewImport(p, "IMPORTED"))
    BY DEF Opp!CommitImport, Opp!NotLinked
  <1>2. IsSequence(oppImports') /\ DOMAIN oppLinks' = Opp!Processes
    BY <1>1, ImportsAfter DEF ImportsInv
  <1>3. ASSUME NEW q \in Opp!Processes
        PROVE  /\ IsFiniteSet(ImportsOf(q))' /\ oppLinks'[q] \in {0, 1}
               /\ Cardinality(ImportsOf(q))' = oppLinks'[q]
    <2>1. CASE q = p
      <3>1. oppLinks[q] = 0 /\ oppLinks'[q] = 1
        BY <1>1, <2>1 DEF ImportsInv
      <3>2. ImportsOf(q)' = ImportsOf(q) \cup {Len(oppImports) + 1} /\ Len(oppImports) + 1 \notin ImportsOf(q)
        BY <1>1, <2>1, ImportsAfter
      <3>3. PICK before : before = ImportsOf(q) /\ IsFiniteSet(before) /\ Cardinality(before) = 0
        BY <3>1 DEF ImportsInv
      <3>4. PICK n : n = Len(oppImports) + 1
        OBVIOUS
      <3>5. IsFiniteSet(before \cup {n}) /\ Cardinality(before \cup {n}) = 1
        BY <3>2, <3>3, <3>4, FS_AddElement
      <3>6. QED
        BY <3>1, <3>2, <3>3, <3>4, <3>5
    <2>2. CASE q # p
      <3>1. oppLinks'[q] = oppLinks[q]
        BY <1>1, <2>2 DEF ImportsInv
      <3>2. ImportsOf(q)' = ImportsOf(q)
        BY <1>1, <2>2, ImportsAfter, ImportTells
      <3>3. QED
        BY <3>1, <3>2 DEF ImportsInv
    <2>3. QED
      BY <2>1, <2>2
  <1>4. QED
    BY <1>2, <1>3 DEF ImportsInv

LEMMA NextImportsInv == ImportsInv /\ [Opp!Next]_(Opp!vars) => ImportsInv'
  <1> SUFFICES ASSUME ImportsInv, [Opp!Next]_(Opp!vars) PROVE ImportsInv'
    OBVIOUS
  <1>1. CASE UNCHANGED <<oppImports, oppLinks>>
    BY <1>1 DEF ImportsInv, ImportsOf
  <1>2. ASSUME NEW c \in Clients, NEW a \in DOMAIN oppAssessments, Opp!BeginImport(c, a) PROVE ImportsInv'
    <2>1. UNCHANGED oppLinks
      BY <1>2 DEF Opp!BeginImport
    <2>2. \/ UNCHANGED oppImports
          \/ \E p : oppImports' = Append(oppImports, Opp!NewImport(p, "SKIPPED_DUPLICATE"))
      BY <1>2 DEF Opp!BeginImport
    <2>3. QED
      BY <1>1, <2>1, <2>2, SkippedKeepsImportsInv
  <1>3. CASE \E c \in Clients : Opp!CommitImport(c)
    BY <1>3, CommitKeepsImportsInv
  <1>4. CASE \/ Opp!SourceChanges \/ Opp!Deploy \/ Opp!Tick \/ UNCHANGED Opp!vars
             \/ \E w \in Workers : Opp!Claim(w) \/ Opp!Search(w) \/ Opp!Complete(w) \/ Opp!Fail(w) \/ Opp!Crash(w)
    BY <1>1, <1>4 DEF Opp!SourceChanges, Opp!Deploy, Opp!Tick, Opp!vars, Opp!Claim, Opp!Search,
       Opp!Complete, Opp!Fail, Opp!Crash
  <1>5. CASE \/ \E asked \in Opp!Requests, force \in BOOLEAN : Opp!Enqueue(asked, force)
             \/ \E a \in DOMAIN oppAssessments : Opp!Reassess(a) \/ \E action \in Actions : Opp!Review(a, action)
             \/ \E c \in Clients : Opp!Assign(c) \/ Opp!ImportRefused(c)
    BY <1>1, <1>5 DEF Opp!Enqueue, Opp!Reassess, Opp!Review, Opp!Assign, Opp!ImportRefused
  <1>6. QED
    BY <1>2, <1>3, <1>4, <1>5 DEF Opp!Next, Opp!WorkerStep

\* A process of the source is imported once, however many requests find it free at the same
\* time: the unique key of the links refuses the second, and one attempt tells the import.
THEOREM ProcessesImportedOnce == Opp!Spec => []ImportedOnce
  <1>1. Opp!Init => ImportsInv
    <2> SUFFICES ASSUME Opp!Init PROVE ImportsInv
      OBVIOUS
    <2>1. IsSequence(<<>>)
      BY DEF IsSequence
    <2>2. oppImports = <<>> /\ oppLinks = [p \in Opp!Processes |-> 0]
      BY DEF Opp!Init
    <2>3. \A p \in Opp!Processes : ImportsOf(p) = {}
      BY <2>2 DEF ImportsOf
    <2>4. IsFiniteSet({}) /\ Cardinality({}) = 0
      BY FS_EmptySet
    <2>5. QED
      BY <2>1, <2>2, <2>3, <2>4 DEF ImportsInv
  <1>2. ImportsInv => ImportedOnce
    <2> SUFFICES ASSUME ImportsInv, NEW p \in Opp!Processes
                 PROVE  /\ Opp!Cardinality({n \in DOMAIN oppImports : oppImports[n] = Opp!NewImport(p, "IMPORTED")})
                              = oppLinks[p]
                        /\ oppLinks[p] <= 1
      BY DEF ImportedOnce, Opp!ImportedOnce
    <2>1. Cardinality(ImportsOf(p)) = oppLinks[p] /\ oppLinks[p] \in {0, 1}
      BY DEF ImportsInv
    <2>2. Opp!Cardinality(ImportsOf(p)) = oppLinks[p]
      BY <2>1, OppCardinality
    <2>3. QED
      BY <2>1, <2>2 DEF ImportsOf
  <1>3. QED
    BY <1>1, <1>2, NextImportsInv, PTL DEF Opp!Spec

-----------------------------------------------------------------------------
(* What is to be reviewed first.  A score is a fold over a set, which the  *)
(* provers take no induction over: that it is a sum in whatever order goes *)
(* by a least set for which it would not be (AddedUp).                     *)

\* The components that score, whatever the order in which they are added up.
Rated == {"RELEVANCE", "UNSPSC_MATCH", "EXPERIENCE_MATCH", "FINANCIAL_FIT", "TECHNICAL_FIT",
          "LEGAL_READINESS", "GEOGRAPHIC_FIT", "VALUE_FIT", "DOCUMENT_READINESS"}

Part(points, s, c) == IF c \in s THEN points[c] ELSE 0
Share(points, s) ==
    Part(points, s, "RELEVANCE") + Part(points, s, "UNSPSC_MATCH") + Part(points, s, "EXPERIENCE_MATCH")
        + Part(points, s, "FINANCIAL_FIT") + Part(points, s, "TECHNICAL_FIT")
        + Part(points, s, "LEGAL_READINESS") + Part(points, s, "GEOGRAPHIC_FIT")
        + Part(points, s, "VALUE_FIT") + Part(points, s, "DOCUMENT_READINESS")

\* g adds up points from base, one component of a set after the other.
AddsUp(points, base, g) ==
    g = [s \in SUBSET Rated |->
           IF s = {} THEN base ELSE g[s \ {CHOOSE x \in s : TRUE}] + points[CHOOSE x \in s : TRUE]]

LEMMA PartOfShare ==
    ASSUME NEW points, \A c \in Rated : points[c] \in Int, NEW s \in SUBSET Rated, NEW x \in s
    PROVE  Share(points, s) = Share(points, s \ {x}) + points[x]
  <1>1. \A c \in Rated : Part(points, s, c) \in Int /\ Part(points, s \ {x}, c) \in Int
    BY DEF Part
  <1>2. \A c \in Rated : c # x => Part(points, s, c) = Part(points, s \ {x}, c)
    BY DEF Part
  <1>3. Part(points, s, x) = Part(points, s \ {x}, x) + points[x]
    BY DEF Part
  <1>4. x \in Rated
    OBVIOUS
  <1> HIDE DEF Part
  <1>5. QED
    BY <1>1, <1>2, <1>3, <1>4 DEF Share, Rated

\* What is added up is the share of the set, in whatever order it is taken.
LEMMA AddedUp ==
    ASSUME NEW points, \A c \in Rated : points[c] \in Int, NEW base \in Int, NEW g,
           AddsUp(points, base, g)
    PROVE  \A s \in SUBSET Rated : g[s] = base + Share(points, s)
  <1> DEFINE Wrong == {s \in SUBSET Rated : g[s] # base + Share(points, s)}
  <1>1. SUFFICES ASSUME Wrong # {} PROVE FALSE
    OBVIOUS
  <1>2. IsWellFoundedOn(StrictSubsetOrdering(Rated), SUBSET Rated)
    <2>1. IsFiniteSet(Rated)
      <3>1. ASSUME NEW a, NEW b, NEW c PROVE IsFiniteSet({a, b, c})
        <4>1. IsFiniteSet({a}) /\ IsFiniteSet({a} \cup {b}) /\ IsFiniteSet(({a} \cup {b}) \cup {c})
          BY FS_Singleton, FS_Union
        <4>2. {a, b, c} = ({a} \cup {b}) \cup {c}
          OBVIOUS
        <4>3. QED
          BY <4>1, <4>2
      <3>2. PICK R, S, T : /\ R = {"RELEVANCE", "UNSPSC_MATCH", "EXPERIENCE_MATCH"}
                           /\ S = {"FINANCIAL_FIT", "TECHNICAL_FIT", "LEGAL_READINESS"}
                           /\ T = {"GEOGRAPHIC_FIT", "VALUE_FIT", "DOCUMENT_READINESS"}
        OBVIOUS
      <3>3. Rated = (R \cup S) \cup T
        BY <3>2 DEF Rated
      <3>4. IsFiniteSet(R) /\ IsFiniteSet(S) /\ IsFiniteSet(T)
        BY <3>1, <3>2
      <3>5. QED
        BY <3>3, <3>4, FS_Union
    <2>2. QED
      BY <2>1, FS_FiniteSubsetsOfFinite, FS_StrictSubsetOrderingWellFounded
  <1>3. PICK s \in Wrong : \A t \in Wrong : ~(<<t, s>> \in StrictSubsetOrdering(Rated))
    <2>1. Wrong \subseteq SUBSET Rated
      OBVIOUS
    <2> HIDE DEF Wrong
    <2>2. QED
      BY <1>1, <1>2, <2>1, WFMin
  <1>4. CASE s = {}
    <2>1. g[s] = base
      BY <1>4 DEF AddsUp
    <2>2. Share(points, s) = 0
      BY <1>4 DEF Share, Part
    <2>3. QED
      BY <1>3, <2>1, <2>2
  <1>5. CASE s # {}
    <2>1. PICK x \in s : x = CHOOSE y \in s : TRUE
      BY <1>5
    <2>2. PICK t : t = s \ {x}
      OBVIOUS
    <2>3. g[s] = g[t] + points[x]
      <3>1. s \in SUBSET Rated
        BY <1>3
      <3>2. g[s] = g[s \ {CHOOSE y \in s : TRUE}] + points[CHOOSE y \in s : TRUE]
        BY <1>5, <3>1 DEF AddsUp
      <3>3. QED
        BY <2>1, <2>2, <3>2
    <2>4. <<t, s>> \in StrictSubsetOrdering(Rated) /\ t \in SUBSET Rated
      BY <1>3, <2>2 DEF StrictSubsetOrdering
    <2>5. g[t] = base + Share(points, t)
      BY <1>3, <2>4
    <2>6. Share(points, s) = Share(points, t) + points[x]
      BY <1>3, <2>2, PartOfShare
    <2>7. Share(points, t) \in Int /\ points[x] \in Int
      <3>1. \A c \in Rated : Part(points, t, c) \in Int
        BY DEF Part
      <3>2. Share(points, t) \in Int
        BY <3>1 DEF Share, Rated
      <3>3. QED
        BY <1>3, <3>2
    <2>8. g[s] = base + Share(points, s)
      BY <2>3, <2>5, <2>6, <2>7
    <2>9. QED
      BY <1>3, <2>8
  <1>6. QED
    BY <1>4, <1>5

LEMMA AddingUpEnds ==
    ASSUME NEW points, \A c \in Rated : points[c] \in Int, NEW base \in Int
    PROVE  \E g : AddsUp(points, base, g)
  <1> DEFINE g == [s \in SUBSET Rated |-> base + Share(points, s)]
  <1>1. ASSUME NEW s \in SUBSET Rated
        PROVE  g[s] = IF s = {} THEN base
                      ELSE g[s \ {CHOOSE x \in s : TRUE}] + points[CHOOSE x \in s : TRUE]
    <2>1. CASE s = {}
      <3>1. Share(points, s) = 0
        BY <2>1 DEF Share, Part
      <3>2. QED
        BY <2>1, <3>1
    <2>2. CASE s # {}
      <3>1. PICK x \in s : x = CHOOSE y \in s : TRUE
        BY <2>2
      <3>2. Share(points, s) = Share(points, s \ {x}) + points[x]
        BY PartOfShare
      <3>3. Share(points, s \ {x}) \in Int /\ points[x] \in Int
        <4>1. \A c \in Rated : Part(points, s \ {x}, c) \in Int
          BY DEF Part
        <4>2. QED
          BY <4>1 DEF Share, Rated
      <3>4. base + Share(points, s) = (base + Share(points, s \ {x})) + points[x]
        BY <3>2, <3>3
      <3>5. g[s] = base + Share(points, s) /\ g[s \ {x}] = base + Share(points, s \ {x})
        OBVIOUS
      <3>6. g[s] = g[s \ {x}] + points[x]
        BY ONLY <3>4, <3>5
      <3>7. QED
        BY <2>2, <3>1, <3>6
    <2>3. QED
      BY <2>1, <2>2
  <1>2. g = [s \in SUBSET Rated |-> g[s]]
    OBVIOUS
  <1> HIDE DEF g
  <1>3. AddsUp(points, base, g)
    BY <1>1, <1>2 DEF AddsUp
  <1>4. QED
    BY <1>3

\* compatibility_score is the sum of what its components give.
LEMMA ScoreIsSum ==
    ASSUME NEW status, DOMAIN status = Rated, NEW completeness \in Int,
           NEW points, \A c \in Rated : points[c] \in Int,
           \A c \in Rated : points[c] = Opp!V1.weights[c] * Opp!Positive(status[c])
    PROVE  Opp!Score(status, completeness, Opp!V1) = 10 * completeness + Share(points, Rated)
  <1>1. PICK weights : weights = Opp!V1.weights
    OBVIOUS
  <1>2. PICK base : base = 10 * completeness
    OBVIOUS
  <1>3. base \in Int
    BY <1>2
  <1>4. weights.INFORMATION_COMPLETENESS * completeness
           + weights.PARTNER_NEED * (IF Opp!NeedsPartner(status, Opp!V1) THEN 50 ELSE 0) = base
    <2>1. weights.INFORMATION_COMPLETENESS = 10 /\ weights.PARTNER_NEED = 0
      BY <1>1 DEF Opp!V1
    <2>2. PICK half \in Int : half = IF Opp!NeedsPartner(status, Opp!V1) THEN 50 ELSE 0
      OBVIOUS
    <2>3. weights.PARTNER_NEED * half = 0
      BY ONLY <2>1, <2>2
    <2>4. QED
      BY <1>2, <2>1, <2>2, <2>3
  <1> DEFINE G(given, start) == CHOOSE h : h = [s \in SUBSET DOMAIN status |->
                     IF s = {} THEN start
                     ELSE h[s \ {CHOOSE x \in s : TRUE}]
                            + given[CHOOSE x \in s : TRUE] * Opp!Positive(status[CHOOSE x \in s : TRUE])]
             g == G(weights, base)
  <1>5. Opp!Score(status, completeness, Opp!V1) = g[DOMAIN status]
    <2>1. Opp!Score(status, completeness, Opp!V1)
             = G(Opp!V1.weights,
                 Opp!V1.weights.INFORMATION_COMPLETENESS * completeness
                    + Opp!V1.weights.PARTNER_NEED * (IF Opp!NeedsPartner(status, Opp!V1) THEN 50 ELSE 0)
                )[DOMAIN status]
      BY DEF Opp!Score, Opp!FoldSet, Opp!MapThenFoldSet
    <2> HIDE DEF G
    <2>2. QED
      BY <1>1, <1>4, <2>1
  <1>6. AddsUp(points, base, g)
    <2>1. PICK h : AddsUp(points, base, h)
      BY <1>3, AddingUpEnds
    <2>2. \A f, s : s \in SUBSET Rated =>
             (IF s = {} THEN base ELSE f[s \ {CHOOSE x \in s : TRUE}] + points[CHOOSE x \in s : TRUE])
             = (IF s = {} THEN base
                ELSE f[s \ {CHOOSE x \in s : TRUE}]
                       + weights[CHOOSE x \in s : TRUE] * Opp!Positive(status[CHOOSE x \in s : TRUE]))
      <3> SUFFICES ASSUME NEW s \in SUBSET Rated, s # {}
                   PROVE  points[CHOOSE x \in s : TRUE] =
                             weights[CHOOSE x \in s : TRUE] * Opp!Positive(status[CHOOSE x \in s : TRUE])
        OBVIOUS
      <3>1. PICK x \in s : x = CHOOSE y \in s : TRUE
        OBVIOUS
      <3>2. points[x] = weights[x] * Opp!Positive(status[x])
        BY <1>1
      <3>3. QED
        BY <3>1, <3>2
    <2>3. h = [s \in SUBSET DOMAIN status |->
                     IF s = {} THEN base
                     ELSE h[s \ {CHOOSE x \in s : TRUE}]
                            + weights[CHOOSE x \in s : TRUE] * Opp!Positive(status[CHOOSE x \in s : TRUE])]
      <3>1. h = [s \in SUBSET Rated |->
                     IF s = {} THEN base ELSE h[s \ {CHOOSE x \in s : TRUE}] + points[CHOOSE x \in s : TRUE]]
        BY <2>1 DEF AddsUp
      <3>2. [s \in SUBSET Rated |->
               IF s = {} THEN base ELSE h[s \ {CHOOSE x \in s : TRUE}] + points[CHOOSE x \in s : TRUE]]
            = [s \in SUBSET DOMAIN status |->
                 IF s = {} THEN base
                 ELSE h[s \ {CHOOSE x \in s : TRUE}]
                        + weights[CHOOSE x \in s : TRUE] * Opp!Positive(status[CHOOSE x \in s : TRUE])]
        BY ONLY DOMAIN status = Rated, <2>2, Zenon
      <3>3. QED
        BY ONLY <3>1, <3>2
    <2>4. g = [s \in SUBSET DOMAIN status |->
                     IF s = {} THEN base
                     ELSE g[s \ {CHOOSE x \in s : TRUE}]
                            + weights[CHOOSE x \in s : TRUE] * Opp!Positive(status[CHOOSE x \in s : TRUE])]
      BY <2>3, Zenon
    <2> HIDE DEF g
    <2>5. QED
      BY <2>2, <2>4 DEF AddsUp
  <1> HIDE DEF g
  <1>7. g[Rated] = base + Share(points, Rated)
    BY <1>3, <1>6, AddedUp
  <1>8. QED
    BY <1>2, <1>5, <1>7

\* What the screening is given of a company and of a process: codes are sequences, of a company
\* not empty ones (_codes leaves out what has not two digits), and dates are numbers.
CompanyFits(company) == \A code \in company.codes : IsSequence(code) /\ code # <<>>
ProcessFits(process) ==
    /\ process.closing \in Int \cup {Null} /\ process.missing \in Nat
    /\ \A code \in process.codes : IsSequence(code)

LEMMA CompletenessBounded ==
    ASSUME NEW company, NEW process, ProcessFits(process)
    PROVE  Opp!Completeness(company, process) \in Int /\ Opp!Completeness(company, process) <= 100
  <1>1. ASSUME NEW S, IsFiniteSet(S) PROVE Opp!Cardinality(S) \in Nat
    BY <1>1, OppCardinality, FS_CardinalityType
  <1>2. ASSUME NEW S, S \subseteq {1} PROVE Opp!Cardinality(S) \in Nat
    BY <1>1, <1>2, FS_Singleton, FS_Subset
  <1>3. Opp!Cardinality({"financial", "legal", "technical"} \ company.has) \in Nat
    <2>1. IsFiniteSet({"financial"}) /\ IsFiniteSet({"financial"} \cup {"legal"})
          /\ IsFiniteSet(({"financial"} \cup {"legal"}) \cup {"technical"})
      BY FS_Singleton, FS_Union
    <2>2. {"financial", "legal", "technical"} \ company.has
             \subseteq ({"financial"} \cup {"legal"}) \cup {"technical"}
      OBVIOUS
    <2>3. QED
      BY <1>1, <2>1, <2>2, FS_Subset
  <1>4. PICK a, b, c, d, e :
           /\ a = Opp!Cardinality({n \in {1} : process.closing = Null})
           /\ b = Opp!Cardinality({n \in {1} : process.value \in {Null, 0}})
           /\ c = Opp!Cardinality({n \in {1} : process.codes = {}})
           /\ d = Opp!Cardinality({n \in {1} : company.experience = {}})
           /\ e = Opp!Cardinality({n \in {1} : ~process.documents})
    OBVIOUS
  <1>5. a \in Nat /\ b \in Nat /\ c \in Nat /\ d \in Nat /\ e \in Nat
    <2>1. /\ {n \in {1} : process.closing = Null} \subseteq {1}
          /\ {n \in {1} : process.value \in {Null, 0}} \subseteq {1}
          /\ {n \in {1} : process.codes = {}} \subseteq {1}
          /\ {n \in {1} : company.experience = {}} \subseteq {1}
          /\ {n \in {1} : ~process.documents} \subseteq {1}
      OBVIOUS
    <2>2. QED
      BY <1>2, <1>4, <2>1
  <1>6. PICK h : h = Opp!Cardinality({"financial", "legal", "technical"} \ company.has)
    OBVIOUS
  <1>7. Opp!Completeness(company, process) = 100 - 10 * (process.missing + a + b + c + d + h + e)
    BY <1>4, <1>6 DEF Opp!Completeness
  <1>8. process.missing \in Nat /\ h \in Nat
    BY <1>3, <1>6 DEF ProcessFits
  <1>9. QED
    BY ONLY <1>5, <1>7, <1>8

\* What a component can give at most, by its status.
LEMMA PositiveBounds ==
    ASSUME NEW status
    PROVE  /\ Opp!Positive(status) \in 0 .. 100
           /\ status # "STRONG_MATCH" => Opp!Positive(status) <= 80
           /\ status \in {"PARTIAL_MATCH", "UNKNOWN", "MISMATCH"} => Opp!Positive(status) <= 50
           /\ status \in {"UNKNOWN", "MISMATCH"} => Opp!Positive(status) = 0
  BY DEF Opp!Positive

\* Without codes or contracts that fit there are not points enough to be reviewed first.
LEMMA PointsNeedFits ==
    ASSUME NEW company, NEW process, NEW terms, ProcessFits(process),
           Opp!Score(Opp!Components(company, process, terms), Opp!Completeness(company, process), Opp!V1) >= 7500
    PROVE  /\ Opp!Unspsc(company, process) \notin {"UNKNOWN", "MISMATCH"}
           /\ Opp!Experience(company, process, terms) \notin {"UNKNOWN", "MISMATCH"}
  <1>1. PICK status : status = Opp!Components(company, process, terms)
    OBVIOUS
  <1>2. /\ status["RELEVANCE"] = Opp!Relevance(company, process, terms)
        /\ status["UNSPSC_MATCH"] = Opp!Unspsc(company, process)
        /\ status["EXPERIENCE_MATCH"] = Opp!Experience(company, process, terms)
        /\ status["FINANCIAL_FIT"] = Opp!Presence("financial" \in company.has)
        /\ status["TECHNICAL_FIT"] = Opp!Presence("technical" \in company.has)
        /\ status["LEGAL_READINESS"] = Opp!Presence("legal" \in company.has)
        /\ status["GEOGRAPHIC_FIT"] = Opp!Geography(company, process)
        /\ status["VALUE_FIT"] = Opp!ValueFit(company, process)
        /\ status["DOCUMENT_READINESS"] = IF process.documents THEN "MATCH" ELSE "UNKNOWN"
    BY <1>1 DEF Opp!Components
  <1>3. /\ status["EXPERIENCE_MATCH"] # "STRONG_MATCH"
        /\ status["GEOGRAPHIC_FIT"] # "STRONG_MATCH" /\ status["VALUE_FIT"] # "STRONG_MATCH"
        /\ status["DOCUMENT_READINESS"] # "STRONG_MATCH"
    BY <1>2 DEF Opp!Experience, Opp!Geography, Opp!ValueFit
  <1>4. {status["FINANCIAL_FIT"], status["TECHNICAL_FIT"], status["LEGAL_READINESS"]}
           \subseteq {"PARTIAL_MATCH", "UNKNOWN"}
    BY <1>2 DEF Opp!Presence
  <1> DEFINE points == [c \in Rated |-> Opp!V1.weights[c] * Opp!Positive(status[c])]
             p(c) == Opp!Positive(status[c])
  <1>5. /\ points["RELEVANCE"] = 22 * p("RELEVANCE") /\ points["UNSPSC_MATCH"] = 14 * p("UNSPSC_MATCH")
        /\ points["EXPERIENCE_MATCH"] = 14 * p("EXPERIENCE_MATCH")
        /\ points["FINANCIAL_FIT"] = 8 * p("FINANCIAL_FIT") /\ points["TECHNICAL_FIT"] = 8 * p("TECHNICAL_FIT")
        /\ points["LEGAL_READINESS"] = 5 * p("LEGAL_READINESS")
        /\ points["GEOGRAPHIC_FIT"] = 6 * p("GEOGRAPHIC_FIT") /\ points["VALUE_FIT"] = 8 * p("VALUE_FIT")
        /\ points["DOCUMENT_READINESS"] = 5 * p("DOCUMENT_READINESS")
    BY DEF Opp!V1, Rated
  <1>6. /\ \A c \in Rated : p(c) \in 0 .. 100
        /\ p("EXPERIENCE_MATCH") <= 80 /\ p("GEOGRAPHIC_FIT") <= 80 /\ p("VALUE_FIT") <= 80
        /\ p("DOCUMENT_READINESS") <= 80
        /\ p("FINANCIAL_FIT") <= 50 /\ p("TECHNICAL_FIT") <= 50 /\ p("LEGAL_READINESS") <= 50
    BY <1>3, <1>4, PositiveBounds
  <1>7. \A c \in Rated : points[c] = Opp!V1.weights[c] * Opp!Positive(status[c])
    OBVIOUS
  <1>8. status["UNSPSC_MATCH"] \in {"UNKNOWN", "MISMATCH"} => p("UNSPSC_MATCH") = 0
    BY PositiveBounds
  <1>9. status["EXPERIENCE_MATCH"] \in {"UNKNOWN", "MISMATCH"} => p("EXPERIENCE_MATCH") = 0
    BY PositiveBounds
  <1> HIDE DEF points, p
  <1>10. \A c \in Rated : points[c] \in Int
    BY <1>5, <1>6 DEF Rated
  <1>11. Opp!Score(status, Opp!Completeness(company, process), Opp!V1) =
            10 * Opp!Completeness(company, process) + Share(points, Rated)
    <2>1. DOMAIN status = Rated
      BY <1>1 DEF Opp!Components, Rated
    <2>2. QED
      BY <1>7, <1>10, <2>1, CompletenessBounded, ScoreIsSum
  <1>12. Share(points, Rated) =
            points["RELEVANCE"] + points["UNSPSC_MATCH"] + points["EXPERIENCE_MATCH"] + points["FINANCIAL_FIT"]
            + points["TECHNICAL_FIT"] + points["LEGAL_READINESS"] + points["GEOGRAPHIC_FIT"]
            + points["VALUE_FIT"] + points["DOCUMENT_READINESS"]
    BY DEF Share, Part, Rated
  <1>13. PICK completeness \in Int : completeness = Opp!Completeness(company, process) /\ completeness <= 100
    BY CompletenessBounded
  <1>14. /\ p("RELEVANCE") \in 0 .. 100 /\ p("UNSPSC_MATCH") \in 0 .. 100 /\ p("EXPERIENCE_MATCH") \in 0 .. 80
         /\ p("FINANCIAL_FIT") \in 0 .. 50 /\ p("TECHNICAL_FIT") \in 0 .. 50 /\ p("LEGAL_READINESS") \in 0 .. 50
         /\ p("GEOGRAPHIC_FIT") \in 0 .. 80 /\ p("VALUE_FIT") \in 0 .. 80 /\ p("DOCUMENT_READINESS") \in 0 .. 80
    BY <1>6 DEF Rated
  <1>15. p("UNSPSC_MATCH") # 0 /\ p("EXPERIENCE_MATCH") # 0
    <2>1. PICK r, u, x, f, t, l, g, v, d :
             /\ r = p("RELEVANCE") /\ u = p("UNSPSC_MATCH") /\ x = p("EXPERIENCE_MATCH")
             /\ f = p("FINANCIAL_FIT") /\ t = p("TECHNICAL_FIT") /\ l = p("LEGAL_READINESS")
             /\ g = p("GEOGRAPHIC_FIT") /\ v = p("VALUE_FIT") /\ d = p("DOCUMENT_READINESS")
      OBVIOUS
    <2>2. 10 * completeness
             + (22 * r + 14 * u + 14 * x + 8 * f + 8 * t + 5 * l + 6 * g + 8 * v + 5 * d) >= 7500
      BY <1>1, <1>5, <1>11, <1>12, <1>13, <2>1
    <2>3. /\ r \in 0 .. 100 /\ u \in 0 .. 100 /\ x \in 0 .. 80 /\ f \in 0 .. 50 /\ t \in 0 .. 50
          /\ l \in 0 .. 50 /\ g \in 0 .. 80 /\ v \in 0 .. 80 /\ d \in 0 .. 80
      BY ONLY <1>14, <2>1
    <2>4. u # 0 /\ x # 0
      BY ONLY <1>13, <2>2, <2>3
    <2>5. QED
      BY ONLY <2>1, <2>4
  <1>16. QED
    BY <1>2, <1>8, <1>9, <1>15

\* Codes that are alike when they are cut to a level have a segment in common.
LEMMA AlikeShareSegment ==
    ASSUME NEW left, IsSequence(left), left # <<>>, NEW right, IsSequence(right), NEW level \in Nat \ {0},
           Opp!Cut(left, level) = Opp!Cut(right, level)
    PROVE  left[1] = right[1]
  <1>1. PICK S : left \in Seq(S)
    BY DEF IsSequence
  <1>2. PICK T : right \in Seq(T)
    BY DEF IsSequence
  <1>3. PICK m, n : /\ m = IF Len(left) < level THEN Len(left) ELSE level
                    /\ n = IF Len(right) < level THEN Len(right) ELSE level
    OBVIOUS
  <1>4. m \in 1 .. Len(left) /\ n \in 0 .. Len(right) /\ Len(left) \in Nat /\ Len(right) \in Nat
    <2>1. Len(left) \in Nat /\ Len(right) \in Nat /\ Len(left) # 0
      BY <1>1, <1>2, EmptySeq
    <2>2. QED
      BY <1>3, <2>1
  <1>5. SubSeq(left, 1, m) = SubSeq(right, 1, n)
    BY <1>3 DEF Opp!Cut
  <1>6. Len(SubSeq(left, 1, m)) = m /\ SubSeq(left, 1, m)[1] = left[1]
    BY <1>1, <1>4
  <1>7. Len(SubSeq(right, 1, n)) = n
    BY <1>2, <1>4
  <1>8. n = m
    BY ONLY <1>5, <1>6, <1>7
  <1>9. SubSeq(right, 1, n)[1] = right[1]
    BY <1>2, <1>4, <1>8
  <1>10. QED
    BY ONLY <1>5, <1>6, <1>9

LEMMA MatchSharesSegment ==
    ASSUME NEW company, NEW process, CompanyFits(company), ProcessFits(process),
           Opp!Unspsc(company, process) \notin {"UNKNOWN", "MISMATCH"}
    PROVE  \E left \in company.codes, right \in process.codes : left[1] = right[1]
  <1>1. PICK level \in {1, 3, 4} :
           \E left \in company.codes, right \in process.codes : Opp!Cut(left, level) = Opp!Cut(right, level)
    BY DEF Opp!Unspsc
  <1>2. PICK left \in company.codes : \E right \in process.codes : Opp!Cut(left, level) = Opp!Cut(right, level)
    BY <1>1
  <1>3. PICK right \in process.codes : Opp!Cut(left, level) = Opp!Cut(right, level)
    BY <1>2
  <1>4. IsSequence(left) /\ left # <<>> /\ IsSequence(right)
    BY DEF CompanyFits, ProcessFits
  <1>5. level \in Nat \ {0}
    BY <1>1
  <1>6. left[1] = right[1]
    BY <1>3, <1>4, <1>5, AlikeShareSegment
  <1>7. QED
    BY <1>6

\* What is not critical closes in 48 hours, or at most in the 18 seconds less that rounding adds.
LEMMA DaysAreLeft ==
    ASSUME NEW process, ProcessFits(process), NEW at \in Int,
           Opp!Urgency(process, Opp!V1, at) \notin {"CLOSED", "EXPIRED", "CRITICAL", "UNKNOWN"}
    PROVE  ~process.closed /\ process.closing # Null /\ process.closing - at >= Opp!V1.criticalHours * 3600 - 18
  <1>1. ~process.closed /\ process.closing # Null
    BY DEF Opp!Urgency
  <1>2. PICK seconds \in Int : seconds = process.closing - at
    BY <1>1 DEF ProcessFits
  <1>3. PICK hours : hours = Opp!HundredthHours(seconds)
    OBVIOUS
  <1>4. ~(hours < 4800)
    <2>1. Opp!V1.criticalHours * 100 = 4800
      BY DEF Opp!V1
    <2>2. QED
      BY <1>1, <1>2, <1>3, <2>1 DEF Opp!Urgency
  <1>5. seconds \div 36 \in Int /\ seconds % 36 \in 0 .. 35 /\ seconds = 36 * (seconds \div 36) + (seconds % 36)
    OBVIOUS
  <1>6. \/ hours = seconds \div 36
        \/ hours = seconds \div 36 + 1 /\ ~(seconds % 36 < 18)
    BY <1>3 DEF Opp!HundredthHours
  <1>7. PICK q, r : q = seconds \div 36 /\ r = seconds % 36
    OBVIOUS
  <1>8. q \in Int /\ r \in 0 .. 35 /\ seconds = 36 * q + r /\ (hours = q \/ (hours = q + 1 /\ ~(r < 18)))
    BY ONLY <1>5, <1>6, <1>7
  <1>9. seconds >= 172782
    BY ONLY <1>4, <1>8
  <1>10. QED
    BY <1>1, <1>2, <1>9 DEF Opp!V1

\* What the screening puts first is open, fits by its words and codes, and leaves time.
LEMMA FirstIsBacked ==
    ASSUME NEW company, NEW process, NEW terms, CompanyFits(company), ProcessFits(process), NEW at \in Int,
           Opp!Tell(Opp!Components(company, process, terms), Opp!Completeness(company, process), process,
                    Opp!V1, at).outcome = "REVISAR_PRIMERO"
    PROVE  /\ ~process.closed /\ process.closing # Null
           /\ process.closing - at >= Opp!V1.criticalHours * 3600 - 18
           /\ \E e \in company.experience :
                 Opp!Tokens(e.words, terms) \cap Opp!Tokens(process.words, terms) # {}
           /\ \E left \in company.codes, right \in process.codes : left[1] = right[1]
           /\ Opp!Completeness(company, process) >= Opp!V1.thresholds.information
  <1>1. PICK status, urgency, score, completeness :
           /\ status = Opp!Components(company, process, terms)
           /\ completeness = Opp!Completeness(company, process)
           /\ urgency = Opp!Urgency(process, Opp!V1, at)
           /\ score = Opp!Score(status, completeness, Opp!V1)
    OBVIOUS
  <1>2. Opp!OutcomeOf(status, completeness, urgency, Opp!V1) = "REVISAR_PRIMERO"
    BY <1>1 DEF Opp!Tell
  <1>3. /\ urgency \notin {"CLOSED", "EXPIRED"} /\ ~(completeness < Opp!V1.thresholds.information)
        /\ Opp!ReviewFirst(score, urgency, Opp!V1)
    BY <1>1, <1>2 DEF Opp!OutcomeOf
  <1>4. urgency \notin {"CRITICAL", "UNKNOWN"} /\ score >= 7500
    <2>1. Opp!V1.thresholds.reviewFirst * 100 = 7500
      BY DEF Opp!V1
    <2>2. QED
      BY <1>3, <2>1 DEF Opp!ReviewFirst
  <1>5. completeness >= Opp!V1.thresholds.information
    <2>1. Opp!V1.thresholds.information = 45
      BY DEF Opp!V1
    <2>2. completeness \in Int
      BY <1>1, CompletenessBounded
    <2>3. QED
      BY <1>3, <2>1, <2>2
  <1>6. Opp!Unspsc(company, process) \notin {"UNKNOWN", "MISMATCH"}
        /\ Opp!Experience(company, process, terms) \notin {"UNKNOWN", "MISMATCH"}
    BY <1>1, <1>4, PointsNeedFits
  <1>7. \E e \in company.experience : Opp!Tokens(e.words, terms) \cap Opp!Tokens(process.words, terms) # {}
    BY <1>6 DEF Opp!Experience
  <1>8. \E left \in company.codes, right \in process.codes : left[1] = right[1]
    BY <1>6, MatchSharesSegment
  <1>9. ~process.closed /\ process.closing # Null
           /\ process.closing - at >= Opp!V1.criticalHours * 3600 - 18
    BY <1>1, <1>3, <1>4, DaysAreLeft
  <1>10. QED
    BY <1>1, <1>5, <1>7, <1>8, <1>9

\* What an assessment says of itself is what its digest says, and its components are those of the
\* terms of a release with its policy.
Stands(b) ==
    /\ b.snapshot \in DOMAIN Company /\ b.effective \in Int
    /\ b.digest.effective = b.effective
    /\ b.digest.payload = oppResults[b.result].facts
    /\ b.digest.completeness = Opp!Completeness(Company[b.snapshot], b.digest.payload)
    /\ \E n \in DOMAIN Policies :
          /\ Policies[n].raw = b.digest.policy
          /\ b.digest.components =
                Opp!Components(Company[b.snapshot], b.digest.payload, Policies[n].terms)
DigestFits(digest) == digest.snapshot \in DOMAIN Company /\ digest.effective \in Int

ScreenInv ==
    /\ oppNow \in Int
    /\ DOMAIN oppSource = Opp!Processes /\ \A p \in Opp!Processes : ProcessFits(oppSource[p])
    /\ \A n \in DOMAIN oppResults : ProcessFits(oppResults[n].facts)
    /\ \A x \in DOMAIN oppRuns : DigestFits(oppRuns[x].digest)
    /\ \A a \in DOMAIN oppAssessments : Stands(oppAssessments[a])

LEMMA AnnouncedFits ==
    ASSUME NEW p \in Opp!Processes, NEW facts \in Announced[p]
    PROVE  ProcessFits(facts)
  <1>1. p \in DOMAIN Announced
    BY DEF Opp!Processes
  <1>2. facts.closing \in Int \cup {Null} /\ facts.missing \in Nat
    BY <1>1, ScreeningAssumption
  <1>3. \A code \in facts.codes : code \in Seq(Range(code))
    BY <1>1, ScreeningAssumption
  <1>4. QED
    BY <1>2, <1>3 DEF ProcessFits, IsSequence

LEMMA AssessmentStands ==
    ASSUME NEW b, NEW candidate, NEW snapshot \in DOMAIN Company, NEW release \in DOMAIN Policies, NEW at \in Int,
           b = Opp!NewAssessment(candidate, snapshot, release, at)
    PROVE  Stands(b)
  <1>1. PICK facts : facts = oppResults[candidate.result].facts
    OBVIOUS
  <1>2. /\ b.result = candidate.result /\ b.snapshot = snapshot /\ b.effective = at
        /\ b.digest.effective = at /\ b.digest.policy = Policies[release].raw /\ b.digest.payload = facts
        /\ b.digest.completeness = Opp!Completeness(Company[snapshot], facts)
        /\ b.digest.components = Opp!Components(Company[snapshot], facts, Policies[release].terms)
    BY <1>1, FreshAssessment
  <1>3. QED
    BY <1>1, <1>2 DEF Stands

\* A step that adds results or runs, and assesses what was there.
LEMMA MovesKeepScreenInv ==
    ASSUME OppTyping, ScreenInv, UNCHANGED <<oppNow, oppSource>>,
           \A n \in DOMAIN oppResults : n \in DOMAIN oppResults' /\ oppResults'[n] = oppResults[n],
           \A n \in DOMAIN oppResults' : n \in DOMAIN oppResults \/ ProcessFits(oppResults'[n].facts),
           \A x \in DOMAIN oppRuns' :
              \/ DigestFits(oppRuns'[x].digest)
              \/ x \in DOMAIN oppRuns /\ oppRuns'[x].digest = oppRuns[x].digest,
           \A a \in DOMAIN oppAssessments' :
              \/ \E b \in DOMAIN oppAssessments :
                    /\ oppAssessments'[a].snapshot = oppAssessments[b].snapshot
                    /\ oppAssessments'[a].effective = oppAssessments[b].effective
                    /\ oppAssessments'[a].digest = oppAssessments[b].digest
                    /\ oppAssessments'[a].result = oppAssessments[b].result
              \/ Stands(oppAssessments'[a]) /\ oppAssessments'[a].result \in DOMAIN oppResults
    PROVE  ScreenInv'
  <1>1. \A n \in DOMAIN oppResults' : ProcessFits(oppResults'[n].facts)
    BY DEF ScreenInv
  <1>2. \A x \in DOMAIN oppRuns' : DigestFits(oppRuns'[x].digest)
    BY DEF ScreenInv
  <1>3. ASSUME NEW a \in DOMAIN oppAssessments' PROVE Stands(oppAssessments[a])'
    <2>1. PICK c : c = oppAssessments'[a]
      OBVIOUS
    <2>2. Stands(c) /\ c.result \in DOMAIN oppResults
      BY <2>1 DEF ScreenInv, Stands, OppTyping, AssessmentTyped
    <2>3. oppResults'[c.result] = oppResults[c.result]
      BY <2>2
    <2>4. QED
      BY <2>1, <2>2, <2>3 DEF Stands
  <1>4. QED
    BY <1>1, <1>2, <1>3 DEF ScreenInv, ProcessFits, DigestFits

\* A worker that moves its run keeps its digest.
LEMMA RunKeepsDigest ==
    ASSUME OppInv, NEW x \in DOMAIN oppRuns, NEW run, run.digest = oppRuns[x].digest,
           oppRuns' = [oppRuns EXCEPT ![x] = run]
    PROVE  \A y \in DOMAIN oppRuns' : y \in DOMAIN oppRuns /\ oppRuns'[y].digest = oppRuns[y].digest
  <1>1. IsSequence(oppRuns)
    BY DEF OppInv, OppRows
  <1>2. DOMAIN oppRuns' = DOMAIN oppRuns /\ oppRuns'[x] = run
        /\ \A y \in DOMAIN oppRuns \ {x} : oppRuns'[y] = oppRuns[y]
    BY ONLY <1>1, Replaced, x \in DOMAIN oppRuns, oppRuns' = [oppRuns EXCEPT ![x] = run]
  <1>3. QED
    BY <1>2

LEMMA RequestsKeepScreenInv ==
    ASSUME OppInv, OppTyping, ScreenInv, NEW asked \in Opp!Requests, NEW force, Opp!Enqueue(asked, force)
    PROVE  ScreenInv'
  <1>1. PICK digest : digest = Opp!Digest(asked)
    OBVIOUS
  <1>2. DigestFits(digest)
    BY <1>1, DigestSays, RequestTyped DEF DigestFits
  <1>3. PICK run : run = [status |-> "PENDING", digest |-> digest, found |-> {}]
    OBVIOUS
  <1>4. run.digest = digest
    BY <1>3
  <1>5. /\ oppRuns' = Append(oppRuns, run)
        /\ UNCHANGED <<oppNow, oppSource, oppResults, oppAssessments>>
    BY <1>1, <1>3 DEF Opp!Enqueue, Opp!NewRun
  <1>6. IsSequence(oppRuns)
    BY DEF OppInv, OppRows
  <1>7. /\ Len(oppRuns) \in Nat
        /\ DOMAIN oppRuns = 1 .. Len(oppRuns) /\ DOMAIN oppRuns' = 1 .. (Len(oppRuns) + 1)
        /\ oppRuns'[Len(oppRuns) + 1] = run
        /\ \A x \in 1 .. Len(oppRuns) : oppRuns'[x] = oppRuns[x]
    BY <1>5, <1>6, Appended
  <1>8. \A x \in DOMAIN oppRuns' : \/ DigestFits(oppRuns'[x].digest)
                                   \/ x \in DOMAIN oppRuns /\ oppRuns'[x].digest = oppRuns[x].digest
    BY <1>2, <1>4, <1>7
  <1>9. QED
    BY <1>5, <1>8, MovesKeepScreenInv

LEMMA StatusKeepsScreenInv ==
    ASSUME OppInv, OppTyping, ScreenInv, NEW w \in Workers, Opp!Claim(w) \/ Opp!Fail(w) \/ Opp!Crash(w)
    PROVE  ScreenInv'
  <1>1. UNCHANGED <<oppNow, oppSource, oppResults, oppAssessments>>
    BY DEF Opp!Claim, Opp!Fail, Opp!Crash
  <1>2. CASE UNCHANGED oppRuns
    BY <1>1, <1>2, MovesKeepScreenInv
  <1>3. CASE Opp!Claim(w) \/ Opp!Fail(w)
    <2>1. PICK x, status : x \in DOMAIN oppRuns /\ oppRuns' = [oppRuns EXCEPT ![x].status = status]
      <3>1. CASE Opp!Claim(w)
        BY <3>1 DEF Opp!Claim
      <3>2. CASE Opp!Fail(w)
        BY <3>2 DEF Opp!Fail, OppInv, Searching, SearchingOK
      <3>3. QED
        BY <1>3, <3>1, <3>2
    <2>2. PICK run : run = [oppRuns[x] EXCEPT !.status = status]
      OBVIOUS
    <2>3. DOMAIN oppRuns[x] = OppRunFields
      BY <2>1 DEF OppInv, OppRows
    <2>4. run.digest = oppRuns[x].digest
      BY <2>2, <2>3 DEF OppRunFields
    <2>5. oppRuns' = [oppRuns EXCEPT ![x] = run]
      BY <2>1, <2>2
    <2>6. QED
      BY <1>1, <2>1, <2>4, <2>5, RunKeepsDigest, MovesKeepScreenInv
  <1>4. QED
    BY <1>2, <1>3 DEF Opp!Crash

LEMMA SearchKeepsScreenInv ==
    ASSUME OppInv, OppTyping, ScreenInv, NEW w \in Workers, Opp!Search(w)
    PROVE  ScreenInv'
  <1>1. PICK x, searched, queries : /\ x = oppWorker[w].run /\ searched = oppWorker[w].searched
                                    /\ queries = oppRuns[x].digest.queries
    OBVIOUS
  <1>2. /\ oppWorker[w] # Opp!Free /\ searched < Len(queries)
    BY <1>1 DEF Opp!Search, Opp!RunOf
  <1>3. x \in DOMAIN oppRuns /\ searched \in Nat /\ queries \in Queries
    BY <1>1, <1>2 DEF OppInv, OppRows, Searching, SearchingOK
  <1>4. queries \in Seq(Range(queries)) /\ \A n \in DOMAIN queries : IsFiniteSet(queries[n])
    BY <1>3, ServicesAssumption
  <1>5. DOMAIN queries = 1 .. Len(queries) /\ Len(queries) \in Nat
    BY <1>4
  <1>6. searched + 1 \in DOMAIN queries
    BY <1>2, <1>3, <1>5
  <1>7. PICK query : query = queries[searched + 1]
    OBVIOUS
  <1>8. IsFiniteSet(query) /\ query \subseteq Opp!Processes
    BY <1>3, <1>4, <1>6, <1>7, ScreeningAssumption DEF Opp!Processes
  <1>9. PICK listed : listed = Opp!SetToSeq(query)
    OBVIOUS
  <1>10. IsSequence(listed) /\ \A n \in DOMAIN listed : listed[n] \in Opp!Processes
    <2>1. IsSequence(Opp!SetToSeq(query))
      BY <1>8, Listed
    <2>2. \A n \in DOMAIN Opp!SetToSeq(query) : Opp!SetToSeq(query)[n] \in query
      BY <1>8, Listed
    <2>3. QED
      BY <1>8, <1>9, <2>1, <2>2
  <1>11. PICK new : new = [n \in DOMAIN listed |-> Opp!NewResult(listed[n])]
    OBVIOUS
  <1>12. IsSequence(new)
    <2>1. PICK S : listed \in Seq(S)
      BY <1>10 DEF IsSequence
    <2>2. DOMAIN listed = 1 .. Len(listed) /\ Len(listed) \in Nat
      BY <2>1
    <2>3. PICK T : T = {new[n] : n \in DOMAIN listed}
      OBVIOUS
    <2>4. new \in [1 .. Len(listed) -> T]
      BY <1>11, <2>2, <2>3
    <2>5. new \in Seq(T)
      BY <2>2, <2>4, SeqDef
    <2>6. QED
      BY <2>5 DEF IsSequence
  <1>13. ASSUME NEW n \in DOMAIN new PROVE ProcessFits(new[n].facts)
    <2>1. PICK process : process = listed[n] /\ process \in Opp!Processes
      BY <1>10, <1>11
    <2>2. new[n] = [process |-> process, facts |-> oppSource[process]]
      BY <1>11, <2>1 DEF Opp!NewResult
    <2>3. new[n].facts = oppSource[process]
      BY <2>2
    <2>4. ProcessFits(oppSource[process])
      BY <2>1 DEF ScreenInv
    <2>5. QED
      BY <2>3, <2>4
  <1>14. PICK found : oppRuns' = [oppRuns EXCEPT ![x].found = found]
    BY <1>1 DEF Opp!Search
  <1>15. oppResults' = oppResults \o new /\ UNCHANGED <<oppNow, oppSource, oppAssessments>>
    BY <1>1, <1>7, <1>9, <1>11 DEF Opp!Search, Opp!RunOf
  <1>16. /\ \A n \in DOMAIN oppResults : n \in DOMAIN oppResults' /\ oppResults'[n] = oppResults[n]
         /\ \A n \in DOMAIN oppResults' : n \in DOMAIN oppResults \/ ProcessFits(oppResults'[n].facts)
    <2>1. IsSequence(oppResults)
      BY DEF OppInv, OppRows
    <2>2. PICK joined : joined = oppResults \o new
      OBVIOUS
    <2>3. \A n \in DOMAIN oppResults : joined[n] = oppResults[n]
      BY ONLY <1>12, <2>1, <2>2, Joined
    <2>4. /\ Len(oppResults) \in Nat /\ Len(new) \in Nat /\ DOMAIN oppResults = 1 .. Len(oppResults)
          /\ DOMAIN joined = 1 .. (Len(oppResults) + Len(new))
      BY ONLY <1>12, <2>1, <2>2, Joined
    <2>5. DOMAIN oppResults \subseteq DOMAIN joined
      BY <2>4
    <2>6. \A n \in DOMAIN joined \ DOMAIN oppResults : \E m \in DOMAIN new : joined[n] = new[m]
      <3>1. \A n \in DOMAIN (oppResults \o new) \ DOMAIN oppResults :
               \E m \in DOMAIN new : (oppResults \o new)[n] = new[m]
        BY ONLY <1>12, <2>1, Joined, Zenon
      <3>2. QED
        BY <2>2, <3>1
    <2>7. QED
      BY <1>13, <1>15, <2>2, <2>3, <2>5, <2>6
  <1>17. PICK run : run = [oppRuns[x] EXCEPT !.found = found]
    OBVIOUS
  <1>18. DOMAIN oppRuns[x] = OppRunFields
    BY <1>3 DEF OppInv, OppRows
  <1>19. run.digest = oppRuns[x].digest
    BY <1>17, <1>18 DEF OppRunFields
  <1>20. oppRuns' = [oppRuns EXCEPT ![x] = run]
    BY <1>14, <1>17
  <1>21. \A y \in DOMAIN oppRuns' : y \in DOMAIN oppRuns /\ oppRuns'[y].digest = oppRuns[y].digest
    BY <1>3, <1>19, <1>20, RunKeepsDigest
  <1>22. QED
    BY <1>15, <1>16, <1>21, MovesKeepScreenInv

LEMMA CompleteKeepsScreenInv ==
    ASSUME OppInv, OppTyping, ScreenInv, Released, NEW w \in Workers, Opp!Complete(w)
    PROVE  ScreenInv'
  <1>1. PICK x \in DOMAIN oppRuns :
           /\ oppRuns' = [oppRuns EXCEPT ![x].status = "COMPLETED"] /\ oppWorker[w] # Opp!Free
           /\ UNCHANGED <<oppNow, oppSource, oppResults>>
           /\ \A a \in DOMAIN oppAssessments : oppAssessments'[a] = oppAssessments[a]
           /\ \A a \in DOMAIN oppAssessments' \ DOMAIN oppAssessments :
                 \E n \in DOMAIN oppResults :
                    oppAssessments'[a] =
                       Opp!NewAssessment(Opp!NewCandidate(x, n), oppRuns[x].digest.snapshot,
                                         oppWorker[w].policy, oppRuns[x].digest.effective)
    BY CompleteAssesses
  <1>2. PICK snapshot, release, at : /\ snapshot = oppRuns[x].digest.snapshot /\ release = oppWorker[w].policy
                                     /\ at = oppRuns[x].digest.effective
    OBVIOUS
  <1>3. snapshot \in DOMAIN Company /\ release \in DOMAIN Policies /\ at \in Int
    BY <1>1, <1>2 DEF ScreenInv, DigestFits, Released
  <1>4. ASSUME NEW a \in DOMAIN oppAssessments', a \notin DOMAIN oppAssessments
        PROVE  Stands(oppAssessments'[a]) /\ oppAssessments'[a].result \in DOMAIN oppResults
    <2>1. PICK n \in DOMAIN oppResults :
             oppAssessments'[a] = Opp!NewAssessment(Opp!NewCandidate(x, n), snapshot, release, at)
      BY <1>1, <1>2, <1>4
    <2>2. PICK b, candidate : /\ b = oppAssessments'[a] /\ candidate = Opp!NewCandidate(x, n)
                              /\ b = Opp!NewAssessment(candidate, snapshot, release, at)
      BY <2>1
    <2>3. candidate.result = n
      BY <2>2 DEF Opp!NewCandidate
    <2>4. b.result = candidate.result
      BY <2>2, FreshAssessment
    <2>5. Stands(b)
      BY <1>3, <2>2, AssessmentStands
    <2>6. QED
      BY <2>2, <2>3, <2>4, <2>5
  <1>5. \A a \in DOMAIN oppAssessments' :
            \/ a \in DOMAIN oppAssessments /\ oppAssessments'[a] = oppAssessments[a]
            \/ Stands(oppAssessments'[a]) /\ oppAssessments'[a].result \in DOMAIN oppResults
    BY <1>1, <1>4
  <1>6. PICK run : run = [oppRuns[x] EXCEPT !.status = "COMPLETED"]
    OBVIOUS
  <1>7. DOMAIN oppRuns[x] = OppRunFields
    BY DEF OppInv, OppRows
  <1>8. run.digest = oppRuns[x].digest
    BY <1>6, <1>7 DEF OppRunFields
  <1>9. oppRuns' = [oppRuns EXCEPT ![x] = run]
    BY <1>1, <1>6
  <1>10. \A y \in DOMAIN oppRuns' : y \in DOMAIN oppRuns /\ oppRuns'[y].digest = oppRuns[y].digest
    BY <1>8, <1>9, RunKeepsDigest
  <1>11. QED
    BY <1>1, <1>5, <1>10, MovesKeepScreenInv

LEMMA AssessmentsKeepScreenInv ==
    ASSUME OppInv, OppTyping, ScreenInv, Released, NEW a \in DOMAIN oppAssessments,
           Opp!Reassess(a) \/ \E action : Opp!Review(a, action)
    PROVE  ScreenInv'
  <1>1. UNCHANGED <<oppNow, oppSource, oppResults, oppRuns>>
    BY DEF Opp!Reassess, Opp!Review
  <1>2. IsSequence(oppAssessments) /\ DOMAIN oppAssessments[a] = AssessmentFields
    BY DEF OppInv, OppRows
  <1>3. CASE Opp!Reassess(a)
    <2>1. PICK candidate, b : /\ candidate = Opp!CandidateOf(a)
                              /\ b = Opp!NewAssessment(candidate, oppAssessments[a].snapshot, oppPolicy, oppNow)
      OBVIOUS
    <2>2. candidate.result = oppAssessments[a].result
      BY <2>1 DEF Opp!CandidateOf
    <2>3. b.result = candidate.result
      BY <2>1, FreshAssessment
    <2>4. b.result \in DOMAIN oppResults
      BY <2>2, <2>3 DEF OppTyping, AssessmentTyped
    <2>5. oppAssessments[a].snapshot \in DOMAIN Company /\ oppNow \in Int /\ oppPolicy \in DOMAIN Policies
      BY DEF ScreenInv, Stands, Released
    <2>6. Stands(b)
      BY <2>1, <2>5, AssessmentStands
    <2>7. oppAssessments' = Append(oppAssessments, b)
      BY <1>3, <2>1 DEF Opp!Reassess
    <2>8. /\ Len(oppAssessments) \in Nat /\ DOMAIN oppAssessments = 1 .. Len(oppAssessments)
          /\ DOMAIN oppAssessments' = 1 .. (Len(oppAssessments) + 1)
          /\ oppAssessments'[Len(oppAssessments) + 1] = b
          /\ \A n \in 1 .. Len(oppAssessments) : oppAssessments'[n] = oppAssessments[n]
      BY <1>2, <2>7, Appended
    <2>9. \A n \in DOMAIN oppAssessments' :
             (n \in DOMAIN oppAssessments /\ oppAssessments'[n] = oppAssessments[n]) \/ oppAssessments'[n] = b
      BY <2>8
    <2>10. QED
      BY <1>1, <2>4, <2>6, <2>9, MovesKeepScreenInv
  <1>4. CASE \E action : Opp!Review(a, action)
    <2>1. PICK reviews : oppAssessments' = [oppAssessments EXCEPT ![a].reviews = reviews]
      BY <1>4 DEF Opp!Review
    <2>2. PICK b : b = [oppAssessments[a] EXCEPT !.reviews = reviews]
      OBVIOUS
    <2>3. /\ b.snapshot = oppAssessments[a].snapshot /\ b.effective = oppAssessments[a].effective
          /\ b.digest = oppAssessments[a].digest /\ b.result = oppAssessments[a].result
      BY <1>2, <2>2 DEF AssessmentFields
    <2>4. oppAssessments' = [oppAssessments EXCEPT ![a] = b]
      BY <2>1, <2>2
    <2>5. DOMAIN oppAssessments' = DOMAIN oppAssessments /\ oppAssessments'[a] = b
          /\ \A n \in DOMAIN oppAssessments \ {a} : oppAssessments'[n] = oppAssessments[n]
      BY <1>2, <2>4, Replaced
    <2>6. QED
      BY <1>1, <2>3, <2>5, MovesKeepScreenInv
  <1>5. QED
    BY <1>3, <1>4

LEMMA AssignKeepsScreenInv ==
    ASSUME OppInv, OppTyping, ScreenInv, NEW c, Opp!Assign(c)
    PROVE  ScreenInv'
  <1>1. PICK chosen : chosen = oppRequest[c].assessment
    OBVIOUS
  <1>2. /\ oppAssessments' =
              [a \in DOMAIN oppAssessments |->
                 IF /\ oppAssessments[a].run = oppAssessments[chosen].run
                    /\ oppAssessments[a].result = oppAssessments[chosen].result
                 THEN [oppAssessments[a] EXCEPT !.imported = TRUE] ELSE oppAssessments[a]]
        /\ UNCHANGED <<oppNow, oppSource, oppResults, oppRuns>>
    BY <1>1 DEF Opp!Assign
  <1>3. ASSUME NEW a \in DOMAIN oppAssessments
        PROVE  /\ oppAssessments'[a].snapshot = oppAssessments[a].snapshot
               /\ oppAssessments'[a].effective = oppAssessments[a].effective
               /\ oppAssessments'[a].digest = oppAssessments[a].digest
               /\ oppAssessments'[a].result = oppAssessments[a].result
    <2>1. PICK b : b = [oppAssessments[a] EXCEPT !.imported = TRUE]
      OBVIOUS
    <2>2. DOMAIN oppAssessments[a] = AssessmentFields
      BY DEF OppInv, OppRows
    <2>3. /\ b.snapshot = oppAssessments[a].snapshot /\ b.effective = oppAssessments[a].effective
          /\ b.digest = oppAssessments[a].digest /\ b.result = oppAssessments[a].result
      BY <2>1, <2>2 DEF AssessmentFields
    <2>4. oppAssessments'[a] = b \/ oppAssessments'[a] = oppAssessments[a]
      BY <1>2, <2>1
    <2>5. QED
      BY <2>3, <2>4
  <1>4. DOMAIN oppAssessments' = DOMAIN oppAssessments
    BY <1>2
  <1>5. QED
    BY <1>2, <1>3, <1>4, MovesKeepScreenInv

\* The source, the policy and the clock move; what is announced always fits.
LEMMA WorldKeepsScreenInv ==
    ASSUME OppInv, OppTyping, ScreenInv, Opp!SourceChanges \/ Opp!Deploy \/ Opp!Tick
    PROVE  ScreenInv'
  <1>1. UNCHANGED <<oppResults, oppRuns, oppAssessments>>
    BY DEF Opp!SourceChanges, Opp!Deploy, Opp!Tick
  <1>2. oppNow' \in Int
    BY ScreeningAssumption DEF Opp!SourceChanges, Opp!Deploy, Opp!Tick, ScreenInv
  <1>3. DOMAIN oppSource' = Opp!Processes /\ \A p \in Opp!Processes : ProcessFits(oppSource'[p])
    <2>1. CASE Opp!SourceChanges
      <3>1. PICK p, facts : /\ p \in Opp!Processes /\ facts \in Announced[p]
                            /\ oppSource' = [oppSource EXCEPT ![p] = facts]
        BY <2>1 DEF Opp!SourceChanges
      <3>2. ProcessFits(facts)
        BY <3>1, AnnouncedFits
      <3>3. QED
        BY <3>1, <3>2 DEF ScreenInv
    <2>2. CASE UNCHANGED oppSource
      BY <2>2 DEF ScreenInv
    <2>3. QED
      BY <2>1, <2>2 DEF Opp!Deploy, Opp!Tick
  <1>4. QED
    BY <1>1, <1>2, <1>3 DEF ScreenInv, ProcessFits, DigestFits, Stands

LEMMA NextScreenInv == OppInv /\ OppTyping /\ Released /\ ScreenInv /\ [Opp!Next]_(Opp!vars) => ScreenInv'
  <1> SUFFICES ASSUME OppInv, OppTyping, Released, ScreenInv, [Opp!Next]_(Opp!vars) PROVE ScreenInv'
    OBVIOUS
  <1>1. CASE UNCHANGED <<oppNow, oppSource, oppResults, oppRuns, oppAssessments>>
    BY <1>1, MovesKeepScreenInv
  <1>2. CASE \E asked \in Opp!Requests, force \in BOOLEAN : Opp!Enqueue(asked, force)
    BY <1>2, RequestsKeepScreenInv
  <1>3. ASSUME NEW w \in Workers, Opp!WorkerStep(w) \/ Opp!Crash(w) PROVE ScreenInv'
    BY <1>3, StatusKeepsScreenInv, SearchKeepsScreenInv, CompleteKeepsScreenInv DEF Opp!WorkerStep
  <1>4. CASE \E a \in DOMAIN oppAssessments : Opp!Reassess(a) \/ \E action \in Actions : Opp!Review(a, action)
    BY <1>4, AssessmentsKeepScreenInv
  <1>5. CASE \E c \in Clients : Opp!Assign(c)
    BY <1>5, AssignKeepsScreenInv
  <1>6. CASE Opp!SourceChanges \/ Opp!Deploy \/ Opp!Tick
    BY <1>6, WorldKeepsScreenInv
  <1>7. ASSUME NEW c \in Clients,
               \/ \E a \in DOMAIN oppAssessments : Opp!BeginImport(c, a)
               \/ Opp!CommitImport(c) \/ Opp!ImportRefused(c)
        PROVE  UNCHANGED <<oppNow, oppSource, oppResults, oppRuns, oppAssessments>>
    BY <1>7 DEF Opp!BeginImport, Opp!CommitImport, Opp!ImportRefused
  <1>8. UNCHANGED Opp!vars => UNCHANGED <<oppNow, oppSource, oppResults, oppRuns, oppAssessments>>
    BY DEF Opp!vars
  <1>9. QED
    BY <1>1, <1>2, <1>3, <1>4, <1>5, <1>6, <1>7, <1>8 DEF Opp!Next

\* docs/opportunity-compatibility.md, docs/opportunity-outcomes.md: what is to be reviewed first
\* is open and fits by codes and contracts, and at least the critical hours are left, but for the
\* 18 seconds that rounding to hundredths of an hour may add: whatever the source publishes, the
\* company documents and the clock says, also for assessments made before they changed.
THEOREM FirstIsEarned == Opp!Spec => []ReviewFirstBacked
  <1>1. Opp!Init => ScreenInv
    <2> SUFFICES ASSUME Opp!Init PROVE ScreenInv
      OBVIOUS
    <2>1. oppNow \in Int
      BY ScreeningAssumption DEF Opp!Init
    <2>2. DOMAIN oppSource = Opp!Processes /\ \A p \in Opp!Processes : oppSource[p] \in Announced[p]
      BY DEF Opp!Init
    <2>3. \A p \in Opp!Processes : ProcessFits(oppSource[p])
      BY <2>2, AnnouncedFits
    <2>4. QED
      BY <2>1, <2>2, <2>3 DEF Opp!Init, ScreenInv
  <1>2. OppInv /\ OppTyping /\ ScreenInv => ReviewFirstBacked
    <2> SUFFICES ASSUME OppInv, OppTyping, ScreenInv, NEW a \in DOMAIN oppAssessments,
                        oppAssessments[a].told.outcome = "REVISAR_PRIMERO",
                        oppAssessments[a].digest.policy = Opp!V1
                 PROVE  LET told == oppAssessments[a].told
                            process == oppResults[oppAssessments[a].result].facts
                            company == Company[oppAssessments[a].snapshot] IN
                        /\ ~process.closed /\ process.closing # Null
                        /\ process.closing - oppAssessments[a].effective >= Opp!V1.criticalHours * 3600 - 18
                        /\ \E n \in DOMAIN Policies :
                              /\ Policies[n].raw = Opp!V1
                              /\ \E e \in company.experience :
                                    Opp!Tokens(e.words, Policies[n].terms)
                                       \cap Opp!Tokens(process.words, Policies[n].terms) # {}
                        /\ \E left \in company.codes, right \in process.codes : left[1] = right[1]
                        /\ told.completeness >= Opp!V1.thresholds.information
      BY DEF ReviewFirstBacked, Opp!ReviewFirstBacked
    <2>1. PICK told, process, company, at :
             /\ told = oppAssessments[a].told /\ process = oppResults[oppAssessments[a].result].facts
             /\ company = Company[oppAssessments[a].snapshot] /\ at = oppAssessments[a].effective
      OBVIOUS
    <2>2. Stands(oppAssessments[a]) /\ Told(oppAssessments[a]) /\ oppAssessments[a].result \in DOMAIN oppResults
      BY DEF OppInv, OppTyping, AssessmentTyped, ScreenInv
    <2>3. PICK n \in DOMAIN Policies :
             /\ Policies[n].raw = Opp!V1
             /\ oppAssessments[a].digest.components = Opp!Components(company, process, Policies[n].terms)
      BY <2>1, <2>2 DEF Stands
    <2>4. PICK terms, status, completeness :
             /\ terms = Policies[n].terms /\ status = Opp!Components(company, process, terms)
             /\ completeness = Opp!Completeness(company, process)
      OBVIOUS
    <2>5. told = Opp!Tell(status, completeness, process, Opp!V1, at) /\ at \in Int
      BY <2>1, <2>2, <2>3, <2>4 DEF Stands, Told
    <2>6. told.completeness = completeness
      <3>1. PICK outcome, score, urgency :
               told = [outcome |-> outcome, score |-> score, urgency |-> urgency, components |-> status,
                       completeness |-> completeness]
        BY <2>5 DEF Opp!Tell
      <3>2. QED
        BY ONLY <3>1
    <2>7. ProcessFits(process)
      BY <2>1, <2>2 DEF ScreenInv
    <2>8. CompanyFits(company)
      <3>1. \A code \in company.codes : code \in Seq(Range(code)) /\ code # <<>>
        BY <2>1, <2>2, ScreeningAssumption DEF Stands
      <3>2. QED
        BY <3>1 DEF CompanyFits, IsSequence
    <2>9. /\ ~process.closed /\ process.closing # Null
          /\ process.closing - at >= Opp!V1.criticalHours * 3600 - 18
          /\ \E e \in company.experience : Opp!Tokens(e.words, terms) \cap Opp!Tokens(process.words, terms) # {}
          /\ \E left \in company.codes, right \in process.codes : left[1] = right[1]
          /\ completeness >= Opp!V1.thresholds.information
      <3>1. Opp!Tell(Opp!Components(company, process, terms), Opp!Completeness(company, process), process,
                     Opp!V1, at).outcome = "REVISAR_PRIMERO"
        BY <2>1, <2>4, <2>5
      <3>2. QED
        BY <2>4, <2>5, <2>7, <2>8, <3>1, FirstIsBacked
    <2>10. QED
      BY <2>1, <2>3, <2>4, <2>6, <2>9
  <1>3. QED
    BY <1>1, <1>2, OppInvariant, ReleasesKnown, OppTypingHolds, NextScreenInv, PTL DEF Opp!Spec

-----------------------------------------------------------------------------
(* Together.  A step of one component leaves the others as they are.       *)

\* What is proved of a component alone holds of it among the others.
THEOREM PartsOfServices == AllSpec => Ext!Spec /\ Opp!Spec /\ Com!Spec /\ Aut!Spec /\ Spec
  <1>1. AllInit => Ext!Init /\ Opp!Init /\ Com!Init /\ Aut!Init /\ Init
    BY DEF AllInit
  <1>2. [AllNext]_allVars =>
           /\ [Ext!Next]_(Ext!vars) /\ [Opp!Next]_(Opp!vars) /\ [Com!Next]_(Com!vars)
           /\ [Aut!Next]_(Aut!vars) /\ [Next]_vars
    <2> SUFFICES ASSUME [AllNext]_allVars
                 PROVE  /\ [Ext!Next]_(Ext!vars) /\ [Opp!Next]_(Opp!vars) /\ [Com!Next]_(Com!vars)
                        /\ [Aut!Next]_(Aut!vars) /\ [Next]_vars
      OBVIOUS
    <2> USE DEF extVars, oppVars, comVars, autVars, Ext!vars, Opp!vars, Com!vars, Aut!vars
    <2>1. CASE DocumentsStep
      BY <2>1 DEF DocumentsStep
    <2>2. CASE OpportunitiesStep
      BY <2>2 DEF OpportunitiesStep
    <2>3. CASE CompanyStep
      BY <2>3 DEF CompanyStep
    <2>4. CASE AccountsStep
      BY <2>4 DEF AccountsStep
    <2>5. CASE DeploymentStep
      BY <2>5 DEF DeploymentStep
    <2>6. CASE UNCHANGED allVars
      BY <2>6 DEF allVars
    <2>7. QED
      BY <2>1, <2>2, <2>3, <2>4, <2>5, <2>6 DEF AllNext
  <1>3. QED
    BY <1>1, <1>2, PTL DEF AllSpec, Ext!Spec, Opp!Spec, Com!Spec, Aut!Spec, Spec

\* The services together keep what each promises: files of versions, closing dates once told,
\* assessments that follow their digests and what is put first, imports of which there is one,
\* evidence of records, a published company, accounts that only failures lock, backups with the
\* files of the rows that had one, and a schema that only a rollback leaves behind the code.
THEOREM ServicesKeepPromises ==
    AllSpec => /\ [](/\ VersionsHaveFiles /\ KnownClosingStays
                     /\ AssessmentsFollowDigests /\ ReviewFirstBacked /\ ImportedOnce
                     /\ SupportedHasLink /\ StaysPublished /\ LockedByFailures /\ BackupComplete)
               /\ AheadByRollback
  BY PartsOfServices, VersionsKeepTheirFiles, KnownClosingIsKept, AssessmentsKeepToDigests,
     FirstIsEarned, ProcessesImportedOnce, SupportedHasItsLink, PublishedStays,
     LockedOutByFailures, BackupsAreComplete, OnlyRollbackGetsAhead, PTL

\* The rows of the services stay well formed, whichever of them runs: what a column holds is one
\* of its values, and no row, worker or request refers to a row that is not there.
THEOREM ServicesTyping == AllSpec => []ServicesTypeOK
  <1>1. Ext!TypeOK /\ Opp!TypeOK /\ Com!TypeOK /\ Aut!TypeOK /\ TypeOK => ServicesTypeOK
    BY DEF ServicesTypeOK
  <1>2. QED
    BY <1>1, PartsOfServices, DocumentsTyping, OpportunitiesTyping, CompanyTyping, AccountsTyping,
       DeploymentTyping, PTL
=============================================================================
