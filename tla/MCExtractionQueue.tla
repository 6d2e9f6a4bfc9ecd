-------------------------- MODULE MCExtractionQueue --------------------------
EXTENDS ExtractionQueue, TLC

CONSTANTS d1, d2, d3, w1, w2, q1, q2

\* d1 yields a text, d2 a longer one, d3 is damaged.
MCOutcomeL == [d \in {d2} |-> "COMPLETED"]
MCOutcome1 == [d \in {d1} |-> "COMPLETED"]
MCOutcome2 == [d \in {d1, d2} |-> "COMPLETED"]
MCOutcome3 == [d \in {d1, d2, d3} |-> IF d = d3 THEN "FAILED" ELSE "COMPLETED_WITH_WARNINGS"]
MCOnly1 == {d1}
MCOnly2 == {d2}
MCBoth == {d1, d2}
MCNone == {}

QueueSymmetry == Permutations({w1, w2}) \cup Permutations({q1, q2})
=============================================================================
