CONSTANTS
    Senders = {s1, s2}
    Receivers = {r1}
    Limits = {1}
    MaxSends = 2
    ReopenUsed = FALSE
    Triers = {}
    NoThread = NoThread
    Closer = Closer
SPECIFICATION FairSpec
CHECK_DEADLOCK FALSE
PROPERTY NobodyForgotten
