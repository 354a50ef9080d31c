CONSTANTS
    t1 = t1
    t2 = t2
    n1 = n1
    n2 = n2
    Threads <- MCThreads
    Minions <- MCMinions
    Depth = 2
    MaxStarts = 2
    MaxMsgs = 4

SPECIFICATION Spec
INVARIANT NoLostWakeup
PROPERTY SourceProgress
