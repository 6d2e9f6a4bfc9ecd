-------------------------- MODULE DecisionCasesProofs --------------------------
(***************************************************************************)
(* What the decision engine promises for every set of requirements, every  *)
(* finding and every valid policy. The findings may be any function into   *)
(* Finding; no finiteness is needed, since the six outcomes are ranked.    *)
(***************************************************************************)
EXTENDS DecisionCases, TLAPS

\* min(suggestions, key=outcome_rank) is one of the suggestions and none of
\* them comes before it.
LEMMA FirstIsLeast ==
    ASSUME NEW p \in DecisionPolicy, NEW S \in SUBSET DecisionOutcome, S # {}
    PROVE  First(p, S) \in S /\ \A o \in S : p.rank[First(p, S)] <= p.rank[o]
<1> DEFINE Least(n) == \E o \in S : p.rank[o] = n
<1>1. \A o \in S : p.rank[o] \in 1 .. 6
  BY DEF DecisionPolicy
<1>2. \E o \in S : \A other \in S : p.rank[o] <= p.rank[other]
  <2>1. CASE Least(1)
    BY <1>1, <2>1
  <2>2. CASE ~Least(1) /\ Least(2)
    BY <1>1, <2>2
  <2>3. CASE ~Least(1) /\ ~Least(2) /\ Least(3)
    BY <1>1, <2>3
  <2>4. CASE ~Least(1) /\ ~Least(2) /\ ~Least(3) /\ Least(4)
    BY <1>1, <2>4
  <2>5. CASE ~Least(1) /\ ~Least(2) /\ ~Least(3) /\ ~Least(4)
    BY <1>1, <2>5
  <2> QED
    BY <2>1, <2>2, <2>3, <2>4, <2>5
<1> QED
  BY <1>2 DEF First

\* No rule suggests GO: the behaviours of a valid policy are not positive.
LEMMA NoRuleSuggestsGo ==
    ASSUME NEW p \in DecisionPolicy, NEW f
    PROVE  Suggestions(p, f) \subseteq DecisionOutcome \ {"GO"}
<1>1. {p.conflict, p.unknown, p.partial} \subseteq DecisionOutcome \ Positive
  BY DEF DecisionPolicy
<1>2. \A rule \in RuleResults(p, f) : rule.suggests \subseteq DecisionOutcome \ {"GO"}
  BY <1>1 DEF RuleResults, DecisionOutcome, Positive
<1> QED
  BY <1>2 DEF Suggestions

\* A rule that matched is heard.
LEMMA MatchedRuleSuggests ==
    ASSUME NEW p, NEW f, NEW rule \in RuleResults(p, f), rule.matched # {}
    PROVE  rule.suggests \subseteq Suggestions(p, f)
BY DEF Suggestions

\* The outcome of the engine is one of the six.
LEMMA DecideTyped ==
    ASSUME NEW p \in DecisionPolicy, NEW f
    PROVE  Decide(p, f) \in DecisionOutcome
<1>1. Suggestions(p, f) \in SUBSET DecisionOutcome
  BY NoRuleSuggestsGo
<1>2. Suggestions(p, f) # {} => First(p, Suggestions(p, f)) \in DecisionOutcome
  BY <1>1, FirstIsLeast
<1> QED
  BY <1>2 DEF Decide, DecisionOutcome

\* GO is given only where everything mandatory complies and no category with a
\* mandatory requirement has one that was not evaluated.
LEMMA GoNeedsEarning ==
    ASSUME NEW p \in DecisionPolicy, NEW R, NEW f \in [R -> Finding],
           Decide(p, f) = "GO"
    PROVE  Earned(f)
<1>1. Suggestions(p, f) = {}
  <2>1. Suggestions(p, f) # {} => First(p, Suggestions(p, f)) # "GO"
    BY NoRuleSuggestsGo, FirstIsLeast
  <2> QED
    BY <2>1 DEF Decide
<1>2. AllMandatoryComply(f) /\ FullRequiredCoverage(f)
  BY <1>1 DEF Decide
<1>3. SubmissionBlockers(f) = {}
  <2> DEFINE rule == [matched |-> SubmissionBlockers(f), suggests |-> {"NO_CARGAR"}]
  <2>1. rule \in RuleResults(p, f)
    BY DEF RuleResults
  <2> QED
    BY <1>1, <2>1, MatchedRuleSuggests
<1>4. Mandatory(f) # {}
  BY <1>2 DEF AllMandatoryComply
<1>5. \A r \in Mandatory(f) : f[r].outcome = "COMPLIES"
  BY <1>2 DEF AllMandatoryComply, Having
<1>6. \A r \in Mandatory(f) : "submission_blocker" \notin f[r].flags
  BY <1>3 DEF SubmissionBlockers, Flagged
<1>7. ASSUME NEW r \in DOMAIN f, f[r].outcome = "NOT_EVALUATED",
             NEW m \in Mandatory(f), f[m].category = f[r].category
      PROVE  FALSE
  <2> DEFINE c == f[r].category
             evaluated == {q \in InCategory(f, c) : f[q].outcome # "NOT_EVALUATED"}
  <2>1. c \in Categories
    BY <1>7 DEF Finding
  <2>2. m \in Mandatory(f) \cap InCategory(f, c)
    BY <1>7 DEF InCategory, Mandatory
  <2>3. r \in InCategory(f, c) /\ r \notin evaluated
    BY <1>7 DEF InCategory
  <2>4. CoverageStatus(f, c) \in {"MISSING", "PARTIAL"}
    BY <2>2, <2>3 DEF CoverageStatus
  <2>5. CoverageStatus(f, c) \in {"NOT_REQUIRED", "COMPLETE"}
    BY <1>2, <2>1 DEF FullRequiredCoverage
  <2> QED
    BY <2>4, <2>5
<1> QED
  BY <1>4, <1>5, <1>6, <1>7 DEF Earned

\* An open mandatory requirement, or a pending review the policy holds on, makes
\* some rule suggest an outcome that is not positive.
LEMMA UncertaintySuggests ==
    ASSUME NEW p \in DecisionPolicy, NEW f,
           \/ Open(f) # {}
           \/ p.blockOnReview /\ Flagged(f, "requires_human_review") # {}
    PROVE  \E o \in Suggestions(p, f) : o \in DecisionOutcome \ Positive
<1> DEFINE Rule(matched, suggests) == [matched |-> matched, suggests |-> suggests]
<1>1. {p.conflict, p.unknown} \subseteq DecisionOutcome \ Positive
  BY DEF DecisionPolicy
<1>2. CASE Having(f, {"CONFLICTING_EVIDENCE"}) # {}
  <2>1. Rule(Having(f, {"CONFLICTING_EVIDENCE"}), {p.conflict}) \in RuleResults(p, f)
    BY DEF RuleResults
  <2> QED
    BY <1>1, <1>2, <2>1, MatchedRuleSuggests
<1>3. CASE Having(f, {"UNKNOWN"}) # {}
  <2>1. Rule(Having(f, {"UNKNOWN"}), {p.unknown}) \in RuleResults(p, f)
    BY DEF RuleResults
  <2> QED
    BY <1>1, <1>3, <2>1, MatchedRuleSuggests
<1>4. CASE Having(f, {"NOT_EVALUATED"}) # {}
  <2>1. Rule(Having(f, {"NOT_EVALUATED"}), {"PENDIENTE_INFORMACION"}) \in RuleResults(p, f)
    BY DEF RuleResults
  <2>2. "PENDIENTE_INFORMACION" \in DecisionOutcome \ Positive
    BY DEF DecisionOutcome, Positive
  <2> QED
    BY <1>4, <2>1, <2>2, MatchedRuleSuggests
<1>5. CASE p.blockOnReview /\ Flagged(f, "requires_human_review") # {}
  <2>1. Rule(Flagged(f, "requires_human_review"), {"PENDIENTE_INFORMACION"}) \in RuleResults(p, f)
    BY <1>5 DEF RuleResults
  <2>2. "PENDIENTE_INFORMACION" \in DecisionOutcome \ Positive
    BY DEF DecisionOutcome, Positive
  <2> QED
    BY <1>5, <2>1, <2>2, MatchedRuleSuggests
<1>6. Open(f) # {} => \/ Having(f, {"CONFLICTING_EVIDENCE"}) # {}
                      \/ Having(f, {"UNKNOWN"}) # {}
                      \/ Having(f, {"NOT_EVALUATED"}) # {}
  BY DEF Open, Having
<1> QED
  BY <1>2, <1>3, <1>4, <1>5, <1>6

\* Under a cautious precedence such a process gets no positive outcome.
LEMMA UncertaintyWins ==
    ASSUME NEW p \in DecisionPolicy, NEW f, Cautious(p),
           \/ Open(f) # {}
           \/ p.blockOnReview /\ Flagged(f, "requires_human_review") # {}
    PROVE  Decide(p, f) \notin Positive
<1> DEFINE S == Suggestions(p, f)
<1>1. PICK o \in S : o \in DecisionOutcome \ Positive
  BY UncertaintySuggests
<1>2. S \in SUBSET DecisionOutcome /\ S # {}
  BY <1>1, NoRuleSuggestsGo
<1>3. First(p, S) \in S /\ p.rank[First(p, S)] <= p.rank[o]
  BY <1>1, <1>2, FirstIsLeast
<1>4. First(p, S) \in Positive => p.rank[o] < p.rank[First(p, S)]
  BY <1>1 DEF Cautious
<1>5. p.rank[o] \in Nat /\ p.rank[First(p, S)] \in Nat
  BY <1>1, <1>2, <1>3 DEF DecisionPolicy
<1> QED
  BY <1>2, <1>3, <1>4, <1>5 DEF Decide

-----------------------------------------------------------------------------
\* Every reachable state of a pass is well typed.
THEOREM CaseTyping == CaseSpec => []CaseTypeOK
<1> USE CasesAssumption
<1>1. CaseInit => CaseTypeOK
  BY DEF CaseInit, CaseTypeOK
<1>2. CaseTypeOK /\ [CaseNext]_caseVars => CaseTypeOK'
  <2> SUFFICES ASSUME CaseTypeOK, [CaseNext]_caseVars
               PROVE  CaseTypeOK'
    OBVIOUS
  <2>1. ASSUME NEW r \in Requirements, NEW finding \in Samples, Collect(r, finding)
        PROVE  CaseTypeOK'
    BY <2>1 DEF CaseTypeOK, Collect
  <2>2. CASE Conclude
    BY <2>2, DecideTyped DEF CaseTypeOK, Conclude
  <2>3. CASE UNCHANGED caseVars
    BY <2>3 DEF CaseTypeOK, caseVars
  <2> QED
    BY <2>1, <2>2, <2>3 DEF CaseNext
<1> QED
  BY <1>1, <1>2, PTL DEF CaseSpec

\* Once a pass has concluded nothing moves, so the outcome is the engine's
\* answer to the findings that are there.
Concluded == outcome # Undecided => DOMAIN findings = Requirements /\ outcome = Decide(policy, findings)

LEMMA CaseConcluded == CaseSpec => []Concluded
<1> USE CasesAssumption
<1>1. CaseInit => Concluded
  BY DEF CaseInit, Concluded
<1>2. CaseTypeOK /\ Concluded /\ [CaseNext]_caseVars => Concluded'
  <2> SUFFICES ASSUME CaseTypeOK, Concluded, [CaseNext]_caseVars
               PROVE  Concluded'
    OBVIOUS
  <2>1. ASSUME NEW r \in Requirements, NEW finding \in Samples, Collect(r, finding)
        PROVE  Concluded'
    BY <2>1 DEF Concluded, Collect
  <2>2. CASE Conclude
    BY <2>2 DEF Concluded, Conclude
  <2>3. CASE UNCHANGED caseVars
    BY <2>3 DEF Concluded, caseVars
  <2> QED
    BY <2>1, <2>2, <2>3 DEF CaseNext
<1> QED
  BY <1>1, <1>2, CaseTyping, PTL DEF CaseSpec

\* No process gets GO unless its findings earn it, under any valid policy.
THEOREM CaseGoIsEarned == CaseSpec => []GoIsEarned
<1> USE CasesAssumption
<1>1. CaseTypeOK /\ Concluded => GoIsEarned
  BY GoNeedsEarning DEF CaseTypeOK, Concluded, GoIsEarned, DecisionOutcome
<1> QED
  BY <1>1, CaseTyping, CaseConcluded, PTL

\* No process with an open mandatory requirement gets a positive outcome under a
\* cautious precedence.
THEOREM CaseUncertaintyWithheld == CaseSpec => []UncertaintyWithheld
<1> USE CasesAssumption
<1>1. CaseTypeOK /\ Concluded => UncertaintyWithheld
  BY UncertaintyWins DEF CaseTypeOK, Concluded, UncertaintyWithheld, Uncertain
<1> QED
  BY <1>1, CaseTyping, CaseConcluded, PTL
=============================================================================
