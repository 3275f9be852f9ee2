CONSTANTS
    Senders = {s1, s2}
    Receivers = {r1, r2}
    Limits = {0, 1, 2}
    MaxSends = 2
    ReopenUsed = FALSE
    Triers = {s1, r1}
    NoThread = NoThread
    Closer = Closer
SPECIFICATION FairSpec
CHECK_DEADLOCK FALSE
INVARIANTS RingIndices ReadyMeansReceiver
PROPERTIES RefinesFifo OneKindNotForgotten
