---------------------------- MODULE MCDecisionRuns ----------------------------
EXTENDS DecisionRuns

CONSTANTS f1, t1, t2, x1, x2, w1, w2, c1, c2

\* policy.json
MCPolicy ==
    [rank |-> [o \in DecisionOutcome |->
                 CASE o = "NO_CARGAR" -> 1 [] o = "NO_GO" -> 2
                   [] o = "PENDIENTE_INFORMACION" -> 3 [] o = "BUSCAR_ALIADO" -> 4
                   [] o = "GO_CONDICIONADO" -> 5 [] o = "GO" -> 6],
     criticalities |-> {"HIGH"}, unknown |-> "PENDIENTE_INFORMACION",
     conflict |-> "PENDIENTE_INFORMACION", partial |-> "PENDIENTE_INFORMACION",
     blockOnReview |-> TRUE]

\* RunsFixNeverHurts is about policies like this one.
ASSUME ActivePolicyAssumption == PendingComesLast

\* f1 is financial, t1 blocks, t2 is optional or of low criticality.
Trait(k, a, c) == [category |-> k, applicability |-> a, criticality |-> c,
                   subsanability |-> "SUBSANABLE"]
MCTraits2 == [r \in {f1, t1} |-> IF r = f1 THEN Trait("FINANCIAL", "MANDATORY", "LOW")
                                 ELSE Trait("TECHNICAL", "MANDATORY", "HIGH")]
MCTraits3 == [r \in {f1, t1, t2} |->
                IF r = f1 THEN Trait("FINANCIAL", "MANDATORY", "LOW")
                ELSE IF r = t1 THEN Trait("TECHNICAL", "MANDATORY", "HIGH")
                ELSE Trait("TECHNICAL", "OPTIONAL", "LOW")]

Verdict(s, n) == [status |-> s, needsReview |-> n]
MCVerdicts1 == {Verdict("COMPLIES", FALSE)}
MCVerdicts2 == {Verdict("COMPLIES", FALSE), Verdict("DOES_NOT_COMPLY", FALSE)}
MCVerdicts4 == {Verdict("COMPLIES", FALSE), Verdict("COMPLIES", TRUE), Verdict("DOES_NOT_COMPLY", FALSE),
                Verdict("NOT_APPLICABLE", FALSE), Verdict("CONFLICTING_EVIDENCE", TRUE)}
MCToComply == {"COMPLIES"}
MCNone == {}
MCNoGo == {"NO_GO"}

RunSymmetry == Permutations({x1, x2}) \cup Permutations({w1, w2}) \cup Permutations({c1, c2})
=============================================================================
