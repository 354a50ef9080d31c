CONSTANTS
    t1 = t1
    t2 = t2
    k1 = k1
    ctl = ctl
    oth = oth
    Threads <- MCThreads
    Keys <- MCKeys
    Types <- MCTypes
    Serialized <- MCSerialized
    MaxInst = 2
    MaxWrites = 1
    MaxEmits = 2
SPECIFICATION Spec



INVARIANT NotifyReachesObserver
