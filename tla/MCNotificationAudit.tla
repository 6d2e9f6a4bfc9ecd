------------------------- MODULE MCNotificationAudit -------------------------
EXTENDS NotificationAudit, TLC

CONSTANTS m1, m2, m3, m4, w1, w2, w3, d1

MCOneMessage == [m \in {m1} |-> d1]
MCDelays == {1}
MCNone == {}
MCWebhooks == {m1}

WorkerSymmetry == Permutations(Workers)
=============================================================================
