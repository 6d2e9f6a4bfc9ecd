------------------------ MODULE MCNotificationOutbox ------------------------
EXTENDS NotificationOutbox, TLC

CONSTANTS m1, m2, m3, m4, w1, w2, w3, d1

MCOneMessage == [m \in {m1} |-> d1]
MCFourMessages == [m \in {m1, m2, m3, m4} |-> d1]
MCDelays == {1}
MCNone == {}
MCWebhooks == {m1}
MCPoison == {m1}
MCPoison4 == {m4}

OutboxSymmetry == Permutations({m1, m2, m3}) \cup Permutations(Workers)
WorkerSymmetry == Permutations(Workers)
=============================================================================
