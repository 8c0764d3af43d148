--------------------------- MODULE MCNotification ---------------------------
EXTENDS NotificationOutbox, TLC
CONSTANTS m1, m2, w1, w2, l1, l2

Interchangeable == Permutations(Workers) \cup Permutations(Letters)
=============================================================================
