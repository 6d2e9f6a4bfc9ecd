-------------------------------- MODULE Services --------------------------------
(***************************************************************************)
(* What surrounds the evaluations, together: public documents,             *)
(* opportunities, company profiles, accounts, and the host they run on.    *)
(* As in Evaluations, a behaviour exercises the one that part picks and    *)
(* leaves the others at rest.                                              *)
(***************************************************************************)
EXTENDS RestrictedDeployment, TLC

\* The constants of each component, where it does not share them with the others.
CONSTANTS
    Null, Clients, Workers,
    Listing, DatasetOf, Held, Dates, MaxDocuments, MaxSyncs, MaxDownloads, SourceBudget,
    Company, Announced, Queries, Policies, Times, Actions, MaxRuns, MaxResults, MaxAssessments, MaxImports,
    MaxReviews, ChangeBudget,
    Kinds, Present, Declared, Values, Contents, Citations, MaxRecords, MaxLinks, MaxSnapshots,
    MaxEdits, MaxReaders,
    Users, MaxFailed, Lockout, Ttl, MaxSessions, MaxAttempts, MaxTime, AdminBudget

\* What is missing is no number, the settings of the accounts are numbers, and a search
\* asks for finitely many of the processes that the source announces.
ASSUME ServicesAssumption ==
    /\ Null \notin Nat /\ MaxFailed \in Nat /\ Lockout \in Nat /\ Ttl \in Nat
    /\ \A queries \in Queries : queries \in Seq(Range(queries))
    /\ \A queries \in Queries : \A n \in DOMAIN queries : IsFiniteSet(queries[n])

VARIABLES
    part,
    extSource, extProcess, extSyncs, extDocuments, extDownloads, extStored, extFiles, extWorker,
    extSpent,
    oppSource, oppPolicy, oppNow, oppResults, oppRuns, oppAssessments, oppLinks, oppImports,
    oppRequest, oppWorker, oppSpent,
    comCompany, comRecords, comDocuments, comLinks, comSnapshots, comRequest, comEdits,
    autAccount, autSessions, autFailures, autRequest, autNow, autSpent

extVars == <<extSource, extProcess, extSyncs, extDocuments, extDownloads, extStored, extFiles,
             extWorker, extSpent>>
oppVars == <<oppSource, oppPolicy, oppNow, oppResults, oppRuns, oppAssessments, oppLinks,
             oppImports, oppRequest, oppWorker, oppSpent>>
comVars == <<comCompany, comRecords, comDocuments, comLinks, comSnapshots, comRequest, comEdits>>
autVars == <<autAccount, autSessions, autFailures, autRequest, autNow, autSpent>>
allVars == <<part, extVars, oppVars, comVars, autVars, vars>>

-----------------------------------------------------------------------------
Ext == INSTANCE ExternalDocuments WITH
    Contents <- Held,
    source <- extSource, process <- extProcess, syncs <- extSyncs, documents <- extDocuments,
    downloads <- extDownloads, stored <- extStored, files <- extFiles, worker <- extWorker,
    spent <- extSpent

Opp == INSTANCE OpportunityDiscovery WITH
    Published <- Announced,
    source <- oppSource, policy <- oppPolicy, now <- oppNow, results <- oppResults,
    runs <- oppRuns, assessments <- oppAssessments, links <- oppLinks, imports <- oppImports,
    request <- oppRequest, worker <- oppWorker, spent <- oppSpent

Com == INSTANCE CompanyProfiles WITH
    company <- comCompany, records <- comRecords, documents <- comDocuments, links <- comLinks,
    snapshots <- comSnapshots, request <- comRequest, edits <- comEdits

Aut == INSTANCE AuthSessions WITH
    account <- autAccount, sessions <- autSessions, failures <- autFailures,
    request <- autRequest, now <- autNow, spent <- autSpent

\* Users declare statuses that records have.
ASSUME DeclaredAssumption == Declared \subseteq Com!RecordStatus

\* What the source announces of a process: dates are numbers of seconds, codes sequences of
\* pairs of digits. Of the company's codes those without two digits are left out (_codes).
ASSUME ScreeningAssumption ==
    /\ Times \subseteq Int /\ 1 \in DOMAIN Policies
    /\ \A queries \in Queries : \A n \in DOMAIN queries : queries[n] \subseteq DOMAIN Announced
    /\ \A p \in DOMAIN Announced : \A facts \in Announced[p] :
          /\ facts.closing \in Int \cup {Null} /\ facts.missing \in Nat
          /\ \A code \in facts.codes : code \in Seq(Range(code))
    /\ \A s \in DOMAIN Company : \A code \in Company[s].codes : code \in Seq(Range(code)) /\ code # <<>>

-----------------------------------------------------------------------------
AllInit ==
    /\ Ext!Init /\ Opp!Init /\ Com!Init /\ Aut!Init /\ Init
    /\ part \in {"documents", "opportunities", "company", "accounts", "deployment"}

DocumentsStep ==
    /\ part = "documents" /\ Ext!Next
    /\ UNCHANGED <<part, oppVars, comVars, autVars, vars>>
OpportunitiesStep ==
    /\ part = "opportunities" /\ Opp!Next
    /\ UNCHANGED <<part, extVars, comVars, autVars, vars>>
CompanyStep ==
    /\ part = "company" /\ Com!Next
    /\ UNCHANGED <<part, extVars, oppVars, autVars, vars>>
AccountsStep ==
    /\ part = "accounts" /\ Aut!Next
    /\ UNCHANGED <<part, extVars, oppVars, comVars, vars>>
DeploymentStep ==
    /\ part = "deployment" /\ Next
    /\ UNCHANGED <<part, extVars, oppVars, comVars, autVars>>

AllNext == DocumentsStep \/ OpportunitiesStep \/ CompanyStep \/ AccountsStep \/ DeploymentStep

AllSpec == AllInit /\ [][AllNext]_allVars

-----------------------------------------------------------------------------
\* The rows of the services stay well formed.
ServicesTypeOK == Ext!TypeOK /\ Opp!TypeOK /\ Com!TypeOK /\ Aut!TypeOK /\ TypeOK

\* Every version of a public document keeps its file, one it shares included.
VersionsHaveFiles == Ext!VersionsHaveFiles

\* Assessments with one digest tell the same, and those of a run are made as it was asked for.
AssessmentsFollowDigests == Opp!AssessmentsFollowDigests

\* A record that evidence made SUPPORTED has that evidence in every snapshot.
SupportedHasLink == Com!SupportedHasLink

\* A company that has published a snapshot goes on having a published one.
StaysPublished == Com!StaysPublished

\* Nobody is locked out by fewer failed logins than the setting says.
LockedByFailures == Aut!LockedByFailures

-----------------------------------------------------------------------------
\* These hold as well, and are proved (ServicesProofs); put them among the properties of
\* Services.cfg to check them on the instance too.

\* A closing date that the source stops to publish stays known.
KnownClosingStays == Ext!KnownClosingStays

\* A process of the source is imported once.
ImportedOnce == Opp!ImportedOnce

\* What is to be reviewed first is open, fits, and leaves days to do it.
ReviewFirstBacked == Opp!ReviewFirstBacked

-----------------------------------------------------------------------------
\* What documents say and these checks refute (README, "Disagreements"): put one in the
\* place of the properties of Services.cfg.

\* docs/opportunity-ranking-policy.md: potential from 55
PotentialFrom55 == Opp!PotentialFrom55

\* A request that is not forced is answered by a run that has not failed.
AnswerMayEnd == Opp!AnswerMayEnd

\* A process whose closing date is past is expired (refuted with ChangeBudget 2).
PastIsExpired == Opp!PastIsExpired

\* What was imported is known to the candidates of the process.
ImportIsKnown == Opp!ImportIsKnown

\* A document is told removed only while the source does not list it.
RemovedIsUnlisted == Ext!RemovedIsUnlisted

\* A document says it is being downloaded exactly while a job of it is active.
DownloadFollowsJob == Ext!DownloadFollowsJob

\* docs/company-profile-snapshots.md: whatever was published is superseded.
OnePublished == Com!OnePublished

\* A snapshot links records and documents that it has.
LinksResolve == Com!LinksResolve

\* docs/company-evidence.md: a segment that is not of the document is refused.
ReadyIsBacked == Com!ReadyIsBacked

\* The company's value of a contract says what the total says, of which it is worked out.
ShareFollowsTotal == Com!ShareFollowsTotal

\* docs/authentication.md: the lock lasts as long as the setting says.
LockEnds == Aut!LockEnds

=============================================================================
