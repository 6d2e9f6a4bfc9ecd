----------------------------- MODULE OpportunityRules -----------------------------
(***************************************************************************)
(* The screening of a process for a company: twelve components with a      *)
(* status each, a weighted score, an urgency and an outcome.               *)
(*                                                                         *)
(* Texts are sets of words of three letters or more, places sets of names, *)
(* a UNSPSC code the sequence of its pairs of digits (segment, family,     *)
(* class, product), a time a number of seconds, an amount a number; Null   *)
(* is a value that is missing.                                             *)
(*                                                                         *)
(* A policy is what load_policy reads of two files: raw, of which it makes *)
(* the policy's hash, and terms, which the hash leaves out.                *)
(***************************************************************************)
EXTENDS Integers, Sequences, FiniteSets, SequencesExt, FiniteSetsExt

CONSTANT Null

Outcome == {"REVISAR_PRIMERO", "OPORTUNIDAD_POTENCIAL", "REQUIERE_ALIADO", "INFORMACION_INSUFICIENTE",
            "POCO_COMPATIBLE", "DESCARTAR"}

\* The policy.json of the repository: weights in hundredths (DEADLINE_URGENCY never scores),
\* and the components whose mismatch a partner may resolve (_partner_reasons and its mapping)
V1 == [weights |-> [RELEVANCE |-> 22, UNSPSC_MATCH |-> 14, EXPERIENCE_MATCH |-> 14, FINANCIAL_FIT |-> 8,
                    TECHNICAL_FIT |-> 8, LEGAL_READINESS |-> 5, GEOGRAPHIC_FIT |-> 6, VALUE_FIT |-> 8,
                    DOCUMENT_READINESS |-> 5, INFORMATION_COMPLETENESS |-> 10, PARTNER_NEED |-> 0],
       thresholds |-> [low |-> 35, potential |-> 55, reviewFirst |-> 75, information |-> 45],
       criticalHours |-> 48, urgentDays |-> 5, normalDays |-> 20,
       resolvable |-> {"UNSPSC_MATCH", "EXPERIENCE_MATCH", "GEOGRAPHIC_FIT", "VALUE_FIT"}]

\* POSITIVE: only what is known to fit scores.
Positive(status) ==
    CASE status = "STRONG_MATCH" -> 100 [] status = "MATCH" -> 80
      [] status = "PARTIAL_MATCH" -> 50 [] OTHER -> 0

-----------------------------------------------------------------------------
\* _tokens: the words that count, and the terms of which a synonym (here of one word) occurs
Tokens(words, terms) ==
    (words \ terms.stopwords)
        \cup {c \in DOMAIN terms.synonyms : terms.synonyms[c] \cap words # {}}

CompanyWords(company) ==
    company.words \cup UNION {e.words : e \in company.experience}

\* A quarter of the words of the process is a strong match.
Relevance(company, process, terms) ==
    LET target == Tokens(process.words, terms)
        candidate == Tokens(CompanyWords(company), terms)
        common == Cardinality(target \cap candidate) IN
    IF target = {} \/ candidate = {} THEN "UNKNOWN"
    ELSE IF 4 * common >= Cardinality(target) THEN "STRONG_MATCH"
    ELSE IF common > 0 THEN "PARTIAL_MATCH" ELSE "MISMATCH"

\* Codes are cut to the level; a shorter code is compared as it is.
Cut(code, level) == SubSeq(code, 1, IF Len(code) < level THEN Len(code) ELSE level)
Unspsc(company, process) ==
    LET Shared(level) == \E left \in company.codes, right \in process.codes :
                            Cut(left, level) = Cut(right, level) IN
    IF company.codes = {} \/ process.codes = {} THEN "UNKNOWN"
    ELSE IF Shared(4) THEN "STRONG_MATCH"
    ELSE IF Shared(3) THEN "MATCH"
    ELSE IF Shared(1) THEN "PARTIAL_MATCH" ELSE "MISMATCH"

Experience(company, process, terms) ==
    IF company.experience = {} THEN "UNKNOWN"
    ELSE IF \E e \in company.experience : Tokens(e.words, terms) \cap Tokens(process.words, terms) # {}
    THEN "MATCH"
    ELSE "MISMATCH"

\* The greatest contract or capacity that is documented bounds the value.
ValueFit(company, process) ==
    LET documented == ({e.value : e \in company.experience} \cup company.capacities) \ {Null, 0} IN
    IF process.value = Null \/ documented = {} THEN "UNKNOWN"
    ELSE IF process.value <= Max(documented) THEN "MATCH" ELSE "MISMATCH"

Presence(available) == IF available THEN "PARTIAL_MATCH" ELSE "UNKNOWN"

Geography(company, process) ==
    IF process.places = {} \/ company.places = {} THEN "UNKNOWN"
    ELSE IF process.places \cap company.places # {} \/ "nacional" \in company.places THEN "MATCH"
    ELSE "MISMATCH"

\* Hours to two decimals, as Decimal.quantize rounds them: half to even.
HundredthHours(seconds) ==
    LET q == seconds \div 36
        r == seconds % 36 IN
    IF r < 18 \/ (r = 18 /\ q % 2 = 0) THEN q ELSE q + 1

Urgency(process, raw, now) ==
    IF process.closed THEN "CLOSED"
    ELSE IF process.closing = Null THEN "UNKNOWN"
    ELSE LET hours == HundredthHours(process.closing - now) IN
         IF hours < 0 THEN "EXPIRED"
         ELSE IF hours < raw.criticalHours * 100 THEN "CRITICAL"
         ELSE IF hours <= raw.urgentDays * 2400 + 12 THEN "URGENT"   \* days, rounded in turn
         ELSE IF hours <= raw.normalDays * 2400 + 12 THEN "NORMAL"
         ELSE "LONG_HORIZON"

\* Ten points for each thing that is missing
Completeness(company, process) ==
    LET missing == process.missing                                    \* title, entity_name
            + Cardinality({n \in {1} : process.closing = Null})
            + Cardinality({n \in {1} : process.value \in {Null, 0}})
            + Cardinality({n \in {1} : process.codes = {}})
            + Cardinality({n \in {1} : company.experience = {}})
            + Cardinality({"financial", "legal", "technical"} \ company.has)
            + Cardinality({n \in {1} : ~process.documents}) IN
    100 - 10 * missing

\* What the company and the process say, before any weight
Components(company, process, terms) ==
    [RELEVANCE |-> Relevance(company, process, terms), UNSPSC_MATCH |-> Unspsc(company, process),
     EXPERIENCE_MATCH |-> Experience(company, process, terms),
     FINANCIAL_FIT |-> Presence("financial" \in company.has),
     TECHNICAL_FIT |-> Presence("technical" \in company.has),
     LEGAL_READINESS |-> Presence("legal" \in company.has),
     GEOGRAPHIC_FIT |-> Geography(company, process), VALUE_FIT |-> ValueFit(company, process),
     DOCUMENT_READINESS |-> IF process.documents THEN "MATCH" ELSE "UNKNOWN"]

\* _partner_reasons: the mismatches that a partner may resolve
NeedsPartner(status, raw) == \E c \in raw.resolvable : status[c] = "MISMATCH"

\* compatibility_score, in hundredths of a point
Score(status, completeness, raw) ==
    FoldSet(LAMBDA c, sum : sum + raw.weights[c] * Positive(status[c]),
            raw.weights.INFORMATION_COMPLETENESS * completeness
                + raw.weights.PARTNER_NEED * (IF NeedsPartner(status, raw) THEN 50 ELSE 0),
            DOMAIN status)

\* Mutant of ReviewFirst: whatever the time that is left
ReviewFirstAnyTime(score, urgency, raw) == score >= raw.thresholds.reviewFirst * 100

ReviewFirst(score, urgency, raw) ==
    score >= raw.thresholds.reviewFirst * 100 /\ urgency \notin {"CRITICAL", "UNKNOWN"}

\* _outcome, in the precedence of the policy
OutcomeOf(status, completeness, urgency, raw) ==
    LET score == Score(status, completeness, raw) IN
    IF urgency \in {"CLOSED", "EXPIRED"} \/ status.RELEVANCE = "MISMATCH" THEN "DESCARTAR"
    ELSE IF completeness < raw.thresholds.information THEN "INFORMACION_INSUFICIENTE"
    ELSE IF NeedsPartner(status, raw) THEN "REQUIERE_ALIADO"
    ELSE IF score < raw.thresholds.low * 100 THEN "POCO_COMPATIBLE"
    ELSE IF ReviewFirst(score, urgency, raw) THEN "REVISAR_PRIMERO"
    ELSE "OPORTUNIDAD_POTENCIAL"

\* What an assessment tells once it has its components
Tell(status, completeness, process, raw, now) ==
    LET urgency == Urgency(process, raw, now) IN
    [outcome |-> OutcomeOf(status, completeness, urgency, raw), score |-> Score(status, completeness, raw),
     urgency |-> urgency, components |-> status, completeness |-> completeness]

\* assess, under a policy
Assess(company, process, policy, now) ==
    Tell(Components(company, process, policy.terms), Completeness(company, process), process, policy.raw, now)
=============================================================================
