--------------------------- MODULE SpecializedRules ---------------------------
(***************************************************************************)
(* What the legal, experience and technical evaluators compute: the rule   *)
(* read out of a requirement, the record of a company snapshot that        *)
(* answers it, and the verdict.                                            *)
(*                                                                         *)
(* A text is its domain, the markers it holds (a category that matters is  *)
(* one of them), the word and the number it expects. A record is its kind, *)
(* the words that find it, its status and evidence links, its expiry, and  *)
(* for a contract its state, currency, value and consortium share.         *)
(***************************************************************************)
EXTENDS Integers, FiniteSets, Sequences, SequencesExt, FiniteSetsExt, TLC

CONSTANT Null

-----------------------------------------------------------------------------
Domains == {"LEGAL", "EXPERIENCE", "TECHNICAL"}
Verdict == {"COMPLIES", "DOES_NOT_COMPLY", "UNKNOWN", "CONFLICTING_EVIDENCE"}
UsabilityOrMissing == {"VERIFIED", "SUPPORTED", "DECLARED_ONLY", "EXPIRED", "REJECTED",
                       "CONFLICTING", "MISSING"}

\* The subject of a rule and the markers that give it, in the order of _detect_rule.
Subjects ==
    [LEGAL |-> <<<<{"rup"}, "RUP">>, <<{"rut", "tribut"}, "RUT">>,
                 <<{"camara", "comercio"}, "CHAMBER_OF_COMMERCE">>,
                 <<{"representante", "representacion legal"}, "LEGAL_REPRESENTATION">>,
                 <<{"garantia"}, "GUARANTEE">>,
                 <<{"inhabilidad", "incompatibilidad", "riesgo"}, "RISK_DECLARATION">>>>,
     EXPERIENCE |-> <<<<{"unspsc"}, "UNSPSC">>, <<{"actividad", "objeto"}, "ACTIVITY">>,
                      <<{"minimo de contratos"}, "CONTRACT_COUNT">>,
                      <<{"valor", "$", "smmlv"}, "CONTRACT_VALUE">>>>,
     TECHNICAL |-> <<<<{"certificacion", "certificado"}, "CERTIFICATION">>,
                     <<{"persona", "profesional", "equipo"}, "PERSON">>,
                     <<{"cobertura", "territorial", "capacidad", "plataforma"}, "CAPABILITY">>>>]
OtherSubject == [LEGAL |-> "DOCUMENT", EXPERIENCE |-> "EXPERIENCE", TECHNICAL |-> "UNSUPPORTED"]

DetectRule(text) ==
    LET found == SelectSeq(Subjects[text.domain], LAMBDA s : s[1] \cap text.markers # {}) IN
    IF found = <<>> THEN OtherSubject[text.domain] ELSE Head(found)[2]

RequiresExpected == {"CONTRACT_COUNT", "CONTRACT_VALUE", "UNSPSC", "ACTIVITY", "CAPABILITY",
                     "PERSON", "CERTIFICATION"}

\* map_specialized_requirement, for a requirement of the categories of the domain
MapRequirement(text) ==
    LET subject == DetectRule(text)
        vague == subject \in RequiresExpected /\ text.expected = Null /\ text.number = Null IN
    [subject |-> subject, domain |-> text.domain, expected |-> text.expected,
     number |-> text.number, mapped |-> subject # "UNSUPPORTED" /\ ~vague,
     currency |-> IF text.markers \cap {"$", "cop", "pesos"} # {} THEN "COP" ELSE Null]

\* update_specialized_rule: a rule with a type and an operator counts as mapped,
\* whatever it expects; one of an unsupported requirement stays without operator.
Override(rule, update) ==
    LET values == update @@ rule IN
    [values EXCEPT !.mapped = values.subject # "UNSUPPORTED"]

-----------------------------------------------------------------------------
RecordUsability(record) ==
    IF "CONFLICTING" \in record.links THEN "CONFLICTING"
    ELSE IF record.status \in {"REJECTED", "EXPIRED"} THEN record.status
    ELSE IF "VERIFIED" \in {record.status} \cup record.links THEN "VERIFIED"
    ELSE IF "SUPPORTED" \in {record.status} \cup record.links THEN "SUPPORTED"
    ELSE "DECLARED_ONLY"

Resolution(record, usability, warning) ==
    [record |-> record, usability |-> usability, warning |-> warning]
Nothing == Resolution(Null, "MISSING", Null)

\* The records that are looked at are a set of places in the snapshot; the first
\* of them is the one that counts.

\* Mutant of FirstUsable: the date on which a record ends is not looked at.
FirstUsableUndated(records, found, day) ==
    IF found = {} THEN Nothing
    ELSE Resolution(records[Min(found)], RecordUsability(records[Min(found)]), Null)

\* _first_usable takes the first record, usable or not; a past end outdoes the rest.
FirstUsable(records, found, day) ==
    IF found = {} THEN Nothing
    ELSE LET record == records[Min(found)]
             past == record.expires # Null /\ record.expires < day IN
         Resolution(record, IF past THEN "EXPIRED" ELSE RecordUsability(record), Null)

OfKind(records, kinds, words) ==
    {n \in DOMAIN records : /\ records[n].kind \in kinds
                            /\ words = {} \/ records[n].words \cap words # {}}

ResolveLegal(rule, records, day) ==
    FirstUsable(records,
        CASE rule.subject = "RUP" -> OfKind(records, {"RUP"}, {})
          [] rule.subject \in {"RUT", "CHAMBER_OF_COMMERCE", "LEGAL_REPRESENTATION"} ->
                OfKind(records, {"REGISTRATION"}, {rule.subject})
          [] rule.subject = "GUARANTEE" -> OfKind(records, {"DOCUMENT"}, {"garantia"})
          [] rule.subject = "RISK_DECLARATION" ->
                OfKind(records, {"DOCUMENT"}, {"inhabilidad", "declaracion"})
          [] OTHER -> OfKind(records, {"DOCUMENT"}, {}), day)

ResolveTechnical(rule, records, day) ==
    LET kinds == {rule.subject} \cap {"CERTIFICATION", "PERSON", "CAPABILITY"} IN
    FirstUsable(records, OfKind(records, kinds, {rule.expected} \ {Null}), day)

-----------------------------------------------------------------------------
AttributableValue(contract) ==
    IF contract.attributable # Null THEN contract.attributable
    ELSE IF contract.total = Null \/ (contract.consortium /\ contract.percentage = Null) THEN Null
    ELSE IF contract.consortium THEN (contract.total * contract.percentage) \div 100
    ELSE contract.total

\* A contract that is still running is no experience.
ExperienceResolution(contract, warning) ==
    IF contract.execution = "COMPLETED" THEN Resolution(contract, RecordUsability(contract), warning)
    ELSE Resolution(contract, "MISSING", IF warning = Null THEN "RECORD_NOT_COMPLETED" ELSE warning)

\* Enough completed contracts: the first of them speaks for all.
ResolveCount(rule, records, contracts) ==
    LET completed == {n \in contracts : records[n].execution = "COMPLETED"}
        threshold == IF rule.number \in {Null, 0} THEN 1 ELSE rule.number
        first == records[Min(IF completed # {} THEN completed ELSE contracts)] IN
    IF Cardinality(completed) >= threshold THEN ExperienceResolution(first, Null)
    ELSE Resolution(first, RecordUsability(first), "COUNT_BELOW_REQUIRED")

\* The completed contracts in turn: the first that cannot be compared ends the
\* search as well as the first that is large enough.
ResolveValue(rule, records, contracts) ==
    LET required == IF rule.number \notin {Null, 0} THEN rule.number ELSE Null
        value(c) == AttributableValue(c)
        foreign(c) == Null \notin {rule.currency, c.currency} /\ rule.currency # c.currency
        first == records[Min(contracts)]
        ends == {n \in contracts :
                    /\ records[n].execution = "COMPLETED"
                    /\ \/ foreign(records[n]) \/ value(records[n]) = Null
                       \/ value(records[n]) >= required}
        end == records[Min(ends)] IN
    IF required = Null THEN Resolution(first, "MISSING", Null)
    ELSE IF ends = {} THEN ExperienceResolution(first, "VALUE_BELOW_REQUIRED")
    ELSE IF foreign(end) THEN Resolution(end, "MISSING", "CURRENCY_MISMATCH")
    ELSE IF value(end) = Null THEN Resolution(end, "MISSING", "CONSORTIUM_PERCENTAGE_MISSING")
    ELSE ExperienceResolution(end, Null)

ResolveMatch(rule, records, contracts, warning) ==
    LET matching == {n \in contracts : rule.expected \in records[n].words}
        first == records[Min(contracts)] IN
    IF rule.expected = Null THEN Resolution(first, "MISSING", Null)
    ELSE IF matching = {} THEN Resolution(first, "MISSING", warning)
    ELSE ExperienceResolution(records[Min(matching)], Null)

ResolveExperience(rule, records) ==
    LET contracts == {n \in OfKind(records, {"EXPERIENCE"}, {}) : records[n].status # "REJECTED"} IN
    CASE contracts = {} -> Nothing
      [] contracts # {} /\ rule.subject = "CONTRACT_COUNT" -> ResolveCount(rule, records, contracts)
      [] contracts # {} /\ rule.subject = "CONTRACT_VALUE" -> ResolveValue(rule, records, contracts)
      [] contracts # {} /\ rule.subject = "UNSPSC" ->
            ResolveMatch(rule, records, contracts, "UNSPSC_NOT_COMPARABLE")
      [] contracts # {} /\ rule.subject = "ACTIVITY" ->
            ResolveMatch(rule, records, contracts, "ACTIVITY_NOT_COMPARABLE")
      [] OTHER -> ExperienceResolution(records[Min(contracts)], Null)

-----------------------------------------------------------------------------
\* _result_from_resolution
VerdictOf(resolution) ==
    CASE resolution.usability = "CONFLICTING" -> "CONFLICTING_EVIDENCE"
      [] resolution.usability \in {"MISSING", "DECLARED_ONLY", "REJECTED"} -> "UNKNOWN"
      [] resolution.usability = "EXPIRED" -> "DOES_NOT_COMPLY"
      [] resolution.warning \in {"VALUE_BELOW_REQUIRED", "COUNT_BELOW_REQUIRED"} -> "DOES_NOT_COMPLY"
      [] resolution.warning \notin {"VALUE_BELOW_REQUIRED", "COUNT_BELOW_REQUIRED", Null} -> "UNKNOWN"
      [] OTHER -> "COMPLIES"

Resolve(rule, records, day) ==
    CASE rule.domain = "LEGAL" -> ResolveLegal(rule, records, day)
      [] rule.domain = "EXPERIENCE" -> ResolveExperience(rule, records)
      [] rule.domain = "TECHNICAL" -> ResolveTechnical(rule, records, day)
      [] OTHER -> Nothing

\* evaluate_specialized_requirement
Evaluate(rule, records, day) ==
    IF ~rule.mapped THEN [status |-> "UNKNOWN", source |-> Null, review |-> TRUE]
    ELSE LET resolution == Resolve(rule, records, day)
             verdict == VerdictOf(resolution) IN
         [status |-> verdict, source |-> resolution.record,
          review |-> verdict \in {"UNKNOWN", "CONFLICTING_EVIDENCE"}
                        \/ resolution.usability # "VERIFIED"]
=============================================================================
