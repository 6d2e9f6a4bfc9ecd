---------------------------- MODULE FinancialRules ----------------------------
(***************************************************************************)
(* What the financial evaluator computes: the rule read out of the text of *)
(* a requirement, the period and the metric of a company snapshot that     *)
(* answer it, and the verdict with its human review flag.                  *)
(*                                                                         *)
(* A text is the metric it names, the set of markers it holds, its numbers,*)
(* its expected value and its year. An amount is an integer; a ratio is an *)
(* integer number of parts, of which Scale make one.                       *)
(***************************************************************************)
EXTENDS Integers, Sequences, SequencesExt, FiniteSetsExt, TLC

CONSTANTS
    Null,
    Scale,          \* the parts of one to which a ratio is rounded
    DaysPerYear     \* the instants of a year

-----------------------------------------------------------------------------
Formula == [WORKING_CAPITAL   |-> <<"CURRENT_ASSETS", "CURRENT_LIABILITIES">>,
            LIQUIDITY_RATIO   |-> <<"CURRENT_ASSETS", "CURRENT_LIABILITIES">>,
            DEBT_RATIO        |-> <<"TOTAL_LIABILITIES", "TOTAL_ASSETS">>,
            INTEREST_COVERAGE |-> <<"OPERATING_PROFIT", "INTEREST_EXPENSE">>,
            RETURN_ON_ASSETS  |-> <<"NET_PROFIT", "TOTAL_ASSETS">>,
            RETURN_ON_EQUITY  |-> <<"NET_PROFIT", "EQUITY">>]

MoneyMetrics == {"CURRENT_ASSETS", "CURRENT_LIABILITIES", "TOTAL_ASSETS", "TOTAL_LIABILITIES",
                 "EQUITY", "REVENUE", "OPERATING_PROFIT", "NET_PROFIT", "INTEREST_EXPENSE",
                 "WORKING_CAPITAL"}
RatioMetrics == DOMAIN Formula \ {"WORKING_CAPITAL"}
MetricType == MoneyMetrics \cup RatioMetrics
Operator == {"GREATER_THAN", "GREATER_THAN_OR_EQUAL", "LESS_THAN", "LESS_THAN_OR_EQUAL", "EQUAL",
             "NOT_EQUAL", "BETWEEN_INCLUSIVE", "BETWEEN_EXCLUSIVE", "EXISTS", "NOT_EXISTS"}
Compared == {"GREATER_THAN", "GREATER_THAN_OR_EQUAL", "LESS_THAN", "LESS_THAN_OR_EQUAL"}
Verdict == {"COMPLIES", "DOES_NOT_COMPLY", "UNKNOWN", "CONFLICTING_EVIDENCE"}

\* The markers _detect_operator looks for, in its order.
OperatorMarkers ==
    <<<<"mayor o igual", "GREATER_THAN_OR_EQUAL">>, <<"minimo", "GREATER_THAN_OR_EQUAL">>,
      <<"no inferior", "GREATER_THAN_OR_EQUAL">>, <<"mayor que", "GREATER_THAN">>,
      <<"superior a", "GREATER_THAN">>, <<"menor o igual", "LESS_THAN_OR_EQUAL">>,
      <<"maximo", "LESS_THAN_OR_EQUAL">>, <<"no superior", "LESS_THAN_OR_EQUAL">>,
      <<"menor que", "LESS_THAN">>, <<"inferior a", "LESS_THAN">>>>

DetectOperator(text) ==
    IF "entre" \in text.markers THEN "BETWEEN_INCLUSIVE"
    ELSE LET held == SelectSeq(OperatorMarkers, LAMBDA c : c[1] \in text.markers) IN
         IF held = <<>> THEN Null ELSE Head(held)[2]

\* required_value, or the two bounds of a range
DetectRequired(text) ==
    LET range == DetectOperator(text) = "BETWEEN_INCLUSIVE" /\ Len(text.numbers) >= 2 IN
    IF text.expected # Null THEN [value |-> text.expected, low |-> Null, high |-> Null]
    ELSE IF text.numbers = <<>> THEN [value |-> Null, low |-> Null, high |-> Null]
    ELSE IF range THEN [value |-> Null, low |-> text.numbers[1], high |-> text.numbers[2]]
    ELSE [value |-> text.numbers[1], low |-> Null, high |-> Null]

DetectCurrency(text) ==
    IF text.metric \in MoneyMetrics /\ "pesos" \in text.markers THEN "COP" ELSE Null
DetectUnit(text) ==
    IF text.metric \in RatioMetrics THEN "ratio" ELSE DetectCurrency(text)

PeriodPolicy(text, closing) ==
    IF text.year # Null THEN "EXACT_YEAR"
    ELSE IF closing # Null THEN "LATEST_BEFORE_PROCESS_CLOSING" ELSE "LATEST_AVAILABLE"

\* map_financial_requirement, for requirements of the category FINANCIAL
MapRequirement(text, closing) ==
    LET required == DetectRequired(text)
        operator == DetectOperator(text)
        mapped == /\ text.metric # Null /\ operator # Null
                  /\ {required.value, required.low, required.high} # {Null}
    IN  [metric |-> text.metric, operator |-> operator, value |-> required.value,
         low |-> required.low, high |-> required.high, unit |-> DetectUnit(text),
         currency |-> DetectCurrency(text), policy |-> PeriodPolicy(text, closing),
         year |-> text.year, mapped |-> mapped, review |-> ~mapped]

\* update_financial_requirement_rule: the fields of the update over the latest
\* rule; whatever it says, its results wait for a review.
Override(rule, update) ==
    LET values == update @@ rule IN
    [values EXCEPT !.mapped = /\ values.metric # Null /\ values.operator # Null
                              /\ {values.value, values.low, values.high} # {Null},
                   !.review = TRUE]

-----------------------------------------------------------------------------
\* A metric: its type, value, unit, status and its evidence links. A link is
\* "CONFLICTING" when that is its role, else its review status.

\* Mutant of Usability: a document reviewed as verified settles a conflict.
UsabilityTrusting(status, links) ==
    IF status = "VERIFIED" \/ "VERIFIED" \in links THEN "VERIFIED"
    ELSE IF "CONFLICTING" \in links THEN "CONFLICTING"
    ELSE IF status \in {"REJECTED", "EXPIRED"} THEN status
    ELSE IF status = "SUPPORTED" \/ "SUPPORTED" \in links THEN "SUPPORTED"
    ELSE "DECLARED_ONLY"

Usability(status, links) ==
    IF "CONFLICTING" \in links THEN "CONFLICTING"
    ELSE IF status \in {"REJECTED", "EXPIRED"} THEN status
    ELSE IF status = "VERIFIED" \/ "VERIFIED" \in links THEN "VERIFIED"
    ELSE IF status = "SUPPORTED" \/ "SUPPORTED" \in links THEN "SUPPORTED"
    ELSE "DECLARED_ONLY"

\* The worst that enters, in this order
Worst == <<"MISSING", "CONFLICTING", "REJECTED", "EXPIRED">>
CombinedUsability(values) ==
    LET held == {n \in DOMAIN Worst : Worst[n] \in values} IN
    IF held # {} THEN Worst[Min(held)]
    ELSE IF values = {"VERIFIED"} THEN "VERIFIED"
    ELSE IF values \subseteq {"VERIFIED", "SUPPORTED"} THEN "SUPPORTED"
    ELSE "DECLARED_ONLY"

MetricUnit(metric, period) ==
    IF metric.unit # Null THEN metric.unit
    ELSE IF metric.type \in RatioMetrics THEN "ratio" ELSE period.currency

\* The places of the metrics of a type
OfType(period, type) == {n \in DOMAIN period.metrics : period.metrics[n].type = type}

\* _resolve_metric for a metric that is recorded. All links of the type count for
\* the first record, whose status is the only one that is read.
Direct(period, type) ==
    LET recorded == OfType(period, type)
        first == period.metrics[Min(recorded)]
        links == UNION {period.metrics[n].links : n \in recorded}
        base == [value |-> first.value, unit |-> MetricUnit(first, period),
                 currency |-> period.currency, usability |-> Usability(first.status, links),
                 error |-> Null, calculated |-> FALSE]
    IN  IF \E n \in recorded : period.metrics[n].value # first.value
        THEN [base EXCEPT !.value = Null, !.usability = "CONFLICTING", !.error = "EVIDENCE_CONFLICT"]
        ELSE base

Missing(period) ==
    [value |-> Null, unit |-> Null, currency |-> period.currency, usability |-> "MISSING",
     error |-> Null, calculated |-> FALSE]

Recorded(period, type) ==
    IF OfType(period, type) # {} THEN Direct(period, type) ELSE Missing(period)

\* a/b in parts of one, rounded half up (away from zero)
Rounded(a, b) ==
    LET size(n) == IF n < 0 THEN -n ELSE n
        parts == (2 * size(a) * Scale + size(b)) \div (2 * size(b))
    IN  IF (a < 0) # (b < 0) THEN -parts ELSE parts

Calculate(type, a, b) == IF type = "WORKING_CAPITAL" THEN a - b ELSE Rounded(a, b)

Calculated(period, type) ==
    LET first == Recorded(period, Formula[type][1])
        second == Recorded(period, Formula[type][2])
        none == [value |-> Null, unit |-> IF type \in RatioMetrics THEN "ratio" ELSE "COP",
                 currency |-> IF type \in MoneyMetrics THEN period.currency ELSE Null,
                 usability |-> "MISSING", error |-> Null, calculated |-> TRUE]
    IN  IF {first.error, second.error} # {Null}
          THEN [none EXCEPT !.usability = "CONFLICTING", !.error = "EVIDENCE_CONFLICT"]
        ELSE IF Null \in {first.value, second.value} THEN none
        ELSE IF type \in RatioMetrics /\ second.value = 0
          THEN [none EXCEPT !.error = "DIVISION_BY_ZERO"]
        ELSE [none EXCEPT !.value = Calculate(type, first.value, second.value),
                          !.usability = CombinedUsability({first.usability, second.usability})]

Resolved(period, type) ==
    IF OfType(period, type) # {} THEN Direct(period, type)
    ELSE IF type \in DOMAIN Formula THEN Calculated(period, type)
    ELSE Missing(period)

-----------------------------------------------------------------------------
YearOf(day) == day \div DaysPerYear

Candidates(periods, rule, closing) ==
    {x \in DOMAIN periods :
        /\ periods[x].status # "REJECTED"
        /\ CASE rule.policy = "EXACT_YEAR" -> YearOf(periods[x].end) = rule.year
             [] rule.policy = "LATEST_BEFORE_PROCESS_CLOSING" /\ closing # Null -> periods[x].end <= closing
             [] OTHER -> rule.policy \in {"LATEST_AVAILABLE", "LATEST_BEFORE_PROCESS_CLOSING"}}

\* _resolve_period: the periods that end last; it takes exactly one.
Latest(periods, rule, closing) ==
    LET candidates == Candidates(periods, rule, closing) IN
    {x \in candidates : \A y \in candidates : periods[y].end <= periods[x].end}

NormalUnit(unit) ==
    IF unit \in {"%", "indice"} THEN "ratio" ELSE IF unit = "pesos" THEN "COP" ELSE unit

\* _validate_units
UnitsAgree(rule, resolution) ==
    /\ Null \notin {rule.currency, resolution.currency} => rule.currency = resolution.currency
    /\ Null \notin {rule.unit, resolution.unit} => NormalUnit(rule.unit) = NormalUnit(resolution.unit)
    /\ (rule.metric \in RatioMetrics /\ resolution.unit # Null) => NormalUnit(resolution.unit) = "ratio"

\* _compare. A bound of a range that is zero counts as absent.
Compare(rule, actual) ==
    LET verdict(holds) == IF holds THEN "COMPLIES" ELSE "DOES_NOT_COMPLY" IN
    IF rule.operator = "BETWEEN_INCLUSIVE"
      THEN IF {rule.low, rule.high} \cap {Null, 0} # {} THEN "UNKNOWN"
           ELSE verdict(rule.low <= actual /\ actual <= rule.high)
    ELSE IF rule.operator \notin Compared \/ rule.value = Null THEN "UNKNOWN"
    ELSE verdict(CASE rule.operator = "GREATER_THAN_OR_EQUAL" -> actual >= rule.value
                   [] rule.operator = "GREATER_THAN" -> actual > rule.value
                   [] rule.operator = "LESS_THAN_OR_EQUAL" -> actual <= rule.value
                   [] rule.operator = "LESS_THAN" -> actual < rule.value)

\* evaluate_financial_requirement: the verdict, the period it is about, whether a
\* human has to review it and whether a calculation comes with it.
Evaluate(rule, periods, closing) ==
    LET latest == Latest(periods, rule, closing)
        period == CHOOSE x \in latest : TRUE
        found == Resolved(periods[period], rule.metric)
        outcome(status) == [status |-> status, period |-> period, review |-> TRUE,
                            calculated |-> found.calculated]
    IN  IF ~rule.mapped \/ ~\E x \in DOMAIN periods : latest = {x}
          THEN [status |-> "UNKNOWN", period |-> Null, review |-> TRUE, calculated |-> FALSE]
        ELSE IF found.error = "EVIDENCE_CONFLICT" THEN outcome("CONFLICTING_EVIDENCE")
        ELSE IF found.value = Null THEN outcome("UNKNOWN")
        ELSE IF found.usability = "CONFLICTING" THEN outcome("CONFLICTING_EVIDENCE")
        ELSE IF ~UnitsAgree(rule, found) \/ found.usability \notin {"VERIFIED", "SUPPORTED"}
          THEN outcome("UNKNOWN")
        ELSE [outcome(Compare(rule, found.value)) EXCEPT
                 !.review = rule.review \/ found.usability # "VERIFIED"]
=============================================================================
