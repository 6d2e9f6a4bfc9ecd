------------------------------ MODULE MCEvaluations ------------------------------
(***************************************************************************)
(* Evaluations on small instances: the specialized evaluations have all    *)
(* the workers of the configuration, the others one.                       *)
(***************************************************************************)
EXTENDS Evaluations

CONSTANTS
    s1, s2,             \* published snapshots
    d1, e1, e2,         \* a document and its extractions
    g1, g2, g3,         \* segments of a text
    k1, k2              \* keys of requirements

OneWorker == {CHOOSE w \in Workers : TRUE}

-----------------------------------------------------------------------------
\* A text extracted once more, and answers with evidence in the batch, outside of it,
\* that does not quote, and without any.
NorExtractions == e1 :> <<g1, g2>> @@ e2 :> <<g1, g3, g2>>
Quote(segment, quoted) == [segment |-> segment, quoted |-> quoted, located |-> TRUE]
Candidate(key, words, evidence, explicit) ==
    [key |-> key, words |-> words, evidence |-> evidence, explicit |-> explicit,
     subsanability |-> "SUBSANABLE"]
NorAnswers ==
    {<<>>,
     <<Candidate(k1, {}, <<Quote(g1, TRUE), Quote(g3, TRUE)>>, TRUE)>>,
     <<Candidate(k2, {}, <<Quote(g3, TRUE), Quote(g2, TRUE)>>, FALSE),
       Candidate(k1, {"PLIEGO"}, <<Quote(g1, TRUE)>>, TRUE)>>,
     <<Candidate(k2, {}, <<Quote(g1, FALSE)>>, FALSE), Candidate(k2, {}, <<>>, FALSE)>>}

NorDocuments == <<d1>>

-----------------------------------------------------------------------------
\* A ratio that must be computed and one that is recorded, an amount in pesos, two periods,
\* records that disagree, are disputed, rejected or only declared.
FinText(metric, markers, number) ==
    [metric |-> metric, markers |-> markers, numbers |-> <<number>>, expected |-> Null, year |-> Null]
MCFinTexts == <<FinText("LIQUIDITY_RATIO", {"no inferior", "inferior a"}, 2),
                FinText("EQUITY", {"mayor que", "pesos"}, 1)>>
Metric(type, value, status, links) ==
    [type |-> type, value |-> value, unit |-> Null, status |-> status, links |-> links]
Period(end, status, metrics) ==
    [end |-> end, status |-> status, currency |-> "COP", metrics |-> metrics]
MCFinSnapshots ==
    s1 :> <<Period(1, "VERIFIED", <<Metric("CURRENT_ASSETS", 3, "VERIFIED", {}),
                                    Metric("CURRENT_LIABILITIES", 4, "DECLARED", {"VERIFIED"}),
                                    Metric("EQUITY", 2, "SUPPORTED", {})>>),
            Period(2, "VERIFIED", <<Metric("LIQUIDITY_RATIO", 1, "VERIFIED", {"CONFLICTING"}),
                                    Metric("EQUITY", 1, "VERIFIED", {})>>)>>
    @@ s2 :> <<Period(1, "REJECTED", <<Metric("CURRENT_ASSETS", 3, "VERIFIED", {}),
                                       Metric("CURRENT_LIABILITIES", 2, "DECLARED", {})>>)>>

MCFinUpdates == {"operator" :> "LESS_THAN"}

-----------------------------------------------------------------------------
\* A registration that expires between the two closing dates and a minimum of contracts,
\* of which the company has one that is verified and one that it only declares.
SpeText(domain, markers, number) ==
    [domain |-> domain, markers |-> markers, expected |-> Null, number |-> number]
SpeTexts == <<SpeText("LEGAL", {"rup", "vigente"}, Null),
              SpeText("EXPERIENCE", {"minimo de contratos"}, 2)>>
Record(kind, status, expires) ==
    [kind |-> kind, words |-> {}, status |-> status, links |-> {}, expires |-> expires]
Contract(status) ==
    Record("EXPERIENCE", status, Null)
        @@ [execution |-> "COMPLETED", currency |-> "COP", attributable |-> Null, total |-> 5,
            consortium |-> FALSE, percentage |-> Null]
SpeSnapshots == s1 :> <<Record("RUP", "VERIFIED", 1), Contract("VERIFIED"), Contract("DECLARED")>>

SpeUpdates == {"number" :> 1}

-----------------------------------------------------------------------------
\* What is at rest starts from one of its initial states.
MCInit ==
    /\ AllInit
    /\ stage # "normalization" => norExtracted = <<e1>>
    /\ stage # "financial" => finClosing = 1
    /\ stage # "specialized" => closing = 1
    /\ stage # "report" => repDecision.engine = "GO"

MCSpec == MCInit /\ [][AllNext]_allVars

=============================================================================
