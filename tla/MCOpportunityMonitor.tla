------------------------ MODULE MCOpportunityMonitor ------------------------
EXTENDS OpportunityMonitor, TLC

CONSTANTS m1, m2, k1, k2, d1, d2, w1, w2

\* Snapshots are interchangeable, and so are monitors, schedulers and workers.
MonitorSymmetry == Permutations({m1, m2}) \cup Permutations({k1, k2})
                   \cup Permutations({d1, d2}) \cup Permutations({w1, w2})
=============================================================================
